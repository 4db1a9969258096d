# Osiris facturación: verification project

Osiris is the backend of an Ecuadorian invoicing system: FastAPI request handlers over
SQLModel/SQLAlchemy sessions and PostgreSQL (READ COMMITTED), one session and one transaction
per request, plus a polling worker and in-process timers that talk to the SRI, the tax
authority. This directory holds TLA+ models of its transactional core, the TLC configurations
that check them and the theorems TLAPS proves about them.

What makes the code hard is not any one function. Handlers run in a thread pool, lock some rows
and read others without a lock, hold objects the session loaded earlier, wait for each other, and
commit or roll back as a whole; the SRI is called outside every transaction; a restart loses the
timers. The models are cut at exactly those places.

Paths below are relative to `src/src/osiris/`.

## 1. Inventory

| Component | State it keeps | Operations | Modelled by |
|---|---|---|---|
| Inventory movements (`modules/inventario/movimientos`) | movements, stock per bodega and product, `Producto.cantidad`, `ProductoBodega.cantidad` | draft, confirm, cancel with a reverse, transfer, kardex | `Inventario`, `LibroStock`, `Reportes` |
| Accounts (`ventas/services/cxc_service`, `retencion_recibida_service`, `compras/services/cxp_service`, `retencion_service`) | accounts, payments, withholdings | pay, create/apply/annul a withholding, create/emit one, cancel a sale | `Cartera` |
| Electronic queue (`sri/facturacion_electronica`, worker in `main.py`) | document, task, `estado_sri`, timers | queue, sign, send, answer, retry, force, restart | `ColaSri`, `PasarelaSri` |
| Sale emission and series (`ventas/services/venta_service`, `common/punto_emision`) | sales, counter of the series | register, edit, issue, cancel, adjust | `Emision` |
| Purchases, bodegas, assignments (`compras/services/compra_service`, `inventario/bodega`, `inventario/producto_bodega`) | purchases, bodegas, rows of a product per bodega | register with stock, annul, assign by hand, delete | `Compras`, `Cartera` |
| Category tree (`inventario/categoria`, `core/catalog_lock`) | hierarchy, temporary categories, place of each product | create, move, delete in cascade, reactivate, reclassify | `Arbol`, `Catalogo` |
| Attributes (`inventario/atributo`, `categoria_atributo`, `producto_atributo_valor`, `common/unidad`) | definitions, assignments, values, remaps, snapshots, units | create, convert, assign, configure, deactivate, undo, remap | `Atributos` |
| Products (`inventario/producto`) | the product row | atomic creation and update, deletion | a part in `Catalogo`, `Atributos`, `Tributos`, `Compras` |
| Taxes of a product and measures (`inventario/producto_impuesto`, `sri/medidas_temporales`) | rows of taxes, measures | assign, replace, activate, edit, freeze in a sale | `Tributos` |
| Directory (`common/persona`, `cliente`, `proveedor_*`, `empleado`, `usuario`) | persons and what each one is | create, reactivate, delete, change contact or type | `Directorio` |
| Company, signature, branches, points (`common/empresa`, `sucursal`, `punto_emision`) | one profile, one signature, the series | create, update, delete | `Organizacion` |
| Reports (`modules/reportes`) | none: they read the rest | fourteen queries | `Reportes` |
| Generic repository (`domain/`) | single rows | update, soft delete | its stale writes in `Organizacion`, `Directorio` |
| Sessions and permissions, audit, printing, identification numbers, XML, migrations | - | - | no (section 10) |

How they interact. Issuing a sale calls the inventory service in its own transaction (a draft and
its confirmation, with `commit=False`), takes a number under the lock of the counter, opens the
account receivable and queues the document; if anything fails the whole transaction goes back.
Cancelling a sale cancels the stock output, the account and, if the SRI authorised it, demands a
confirmation. A purchase enters stock and opens a payable. The queue reads and writes
`estado_sri` of the sale, which the cancellation reads. Registering a sale reads the taxes of the
product, the measures in force and the fiscal profile of the company, and keeps what it found. A
product inherits its attributes from the branch of the tree where it is. Reports read everything.

Hard behaviours and the properties they call for:

* *stock*: lost updates, totals over rows nobody locks, lock order of the lines, racing first
  inserts, two movements in one transaction, double reversal, deletions that cross first entries;
* *accounts*: copies loaded before the lock and not refreshed by it, column-wise updates, two
  documents locked in opposite orders, idempotence of the withholdings;
* *queue*: one document in the hands of several threads, answers out of order, an answer lost after
  the SRI decided, crashes between commits, two retry mechanisms with two counters;
* *series*: consecutive distinct numbers, no gap after a rollback, immutability once used, the last
  number, one emission per sale;
* *catalog*: moves decided on copies read before the lock, cascades, previews whose confirmation
  comes late, undoing changes over data that went on;
* *taxes, directory, company*: replacing rows that were read, lock orders, waits among measures,
  column-wise updates that together leave what neither would have written.

`PROJECT.json` lists each one at its line under "hazards".

## 2. Modelling conventions

A *request* `t` is a handler and its database session. It is cut at every statement that reads a
row another transaction may change, or that may wait for a row lock; between cuts nothing another
transaction does is visible. Row locks are variables (`cFila`, `cCuenta`, `cContador`...) with
their holder, freed at commit or rollback (`Terminar`, `Deshacer`). What a request has written and
not committed is private to it. A copy of a row that a session keeps in its identity map is a field
of `req` (`copia`, `leida`): SQLAlchemy does not refresh it when the row is selected again, with or
without FOR UPDATE, and an UPDATE sends only the columns that changed. `Interbloqueo` is the
deadlock detector of PostgreSQL: it rolls back one request of a cycle of waits.

A writer that takes one lock before it reads anything (the advisory lock of the catalog) or that
keeps to its end every row it touches (a movement, seen from `Compras`) is one action; only what it
read before the lock is a step of its own.

History variables (`veces`, `recibido`, `efecto`, `obsoletas`, `respuestas`, `cruces`, `perdidos`,
`primero`, `tardio`) record what happened and are read by no action's guard.

Operators called "Faulty variant of X" are used by no specification: each is a plausible bug, and
the property named in `PROJECT.json` "mutants" fails when X is replaced by it.

## 3. Modules

**Inventario** models `MovimientoInventarioService`. `estado`, `dato` are the movement rows,
`stock` and `existe` InventarioStock, `cantidad` Producto.cantidad, `relacion`
ProductoBodega.cantidad. `req[t].fase` follows `confirmar_movimiento`: `antes` (stock_before),
`aplicar`/`insertar` (egreso, ingreso, the insert that waits), `integridad`, `suma`/`producto`/
`escribir` (the sum, the read and the UPDATE of the product), `validarSuma`/`validarProducto`,
`cerrar`. `anular_movimiento` and `transferir_entre_bodegas` put their movements in `req[t].cola`
and run the same confirmation. Unit costs are left out: no branch depends on them.

**LibroStock** is what inventory promises: a ledger whose every step enters one movement, or both
halves of a transfer, in the balance, never below zero. `Inventario` implements it under
`saldo <- stock` (`LibroSpec`).

**Cartera** models one kind of account row for CuentaPorCobrar and CuentaPorPagar, their payments
(`recibido` is the sum of the payment rows) and both kinds of withholding. The two services differ
in order and in checks, and the model keeps those differences. The short foreign-key lock that
creating a withholding takes on its sale only delays and is left out.

**ColaSri** models the three rows that follow a document and the threads that work on it. A thread
is cut at its commits and around the call to the gateway. `Responder` and `Cerrar` read and write
the document in one step: between their SELECT and their COMMIT the code calls nothing and waits
for nothing but the row. The gateway may answer anything, or break (`Reventar`).

**Emision** models drafts, `emitir_venta`, the series counter and its manual adjustment. Refusals
that depend on data the model has not (stock, lines) are free choices to roll back. An absent
counter row is locked like an existing one: whoever inserts it second waits for the first. The
preview of the next number changes nothing and is left out. There is no deadlock detector here:
TLC checks that nobody waits for ever, because everybody locks the sale before the counter; locks
that emission shares with the movements of stock belong to `Inventario`.

**PasarelaSri** extends `ColaSri` with the gateway the code ships for invoices. It makes two calls,
reception and authorization, and what the SRI has of the document outlives a lost answer: a retry is
then told DEVUELTA. `SpecConPasarela` implements the specification of `ColaSri`, where a gateway may
answer anything, so what is proved there holds here.

**Arbol** gives ancestors, descendants and cycles of a parent function, each as a least closed
set, which can be proved about. **Catalogo** has one action per writer, since each takes the
advisory lock `lock_catalog_state` and reads after it. The exception is a move that is confirmed:
the router loads the category before the lock, and the session answers with that copy afterwards
(`LeerMovida`, `ConfirmarMover`). `cajon[p]` is the temporary category "Sin clasificar" of `p`:
created by the first reclassification, closed when its last product leaves, and reopened by the
next.

**Atributos** follows one attribute: `definicion` (form, unit, active), `asig` (its row in each
category, with its settings), `valor` (a datum and the typed column it is in), `remapeo`,
`cambios` (the snapshots that `deshacer` restores) and `huella` (what the guards on units look for
in any snapshot). A preview signs what it read (`Firma`); its confirmation is carried out if the
state has that signature again. The resolver of remaps takes no lock of the catalog, and the
settings of an assignment are loaded before it: those two have steps of their own.

**Compras** models a purchase with its entry, its annulment, the cancellation of its movements by
hand, transfers, and what surrounds that stock: bodegas and the product are created and deleted, and
the row of a product in a bodega is written by hand. That row is not unique: the migration that adds
`empresa_id` to the employees drops `uq_producto_bodega`, and no later one restores it.

**Directorio** makes each operation take its row locks one by one in the order of its service, look
at what it has locked, read some rows it has not, and write as it commits. `Interbloqueo` rolls back
one of a cycle.

**Tributos** lets three kinds of request cross: assignments that replace the tax rows they read with
no lock; changes of a measure made on the copy its router loaded, since FOR UPDATE gives the session
the object it already holds; and the registration of a sale, which reads rows, measures and products
in turn. An activation waits for the company and then for the measures it could overlap.

**Organizacion** has requests that lock nothing: each one loads a row, decides on that copy and
writes the columns that differ. The constraints of the tables (series, the single head office) are
in the guards of the writes. A sale takes its fiscal data at registration and is issued later. Its
state machine is `OrgSpec`, and its names differ from those of the other components, so that the
module of its theorems can extend it beside another one.

**Reportes** states fourteen reports of seven services as operators over one state of sales,
purchases, accounts, movements and documents, which the operations of the other components change,
each as one transaction. Its properties put reports side by side, and name the rows on which the
code makes them differ. Its state machine is `RepSpec`.

**MC...** modules are the TLC instances; they define only constants, symmetry and state constraints
(`MCCartera` restricts the instance to one kind of account at a time). **InventarioPruebas**,
**CarteraPruebas**, **ColaSriPruebas**, **EmisionPruebas**, **CatalogoPruebas**,
**ComprasPruebas**, **TributosPruebas** and **DirectorioPruebas** hold the theorems of each module
and their proofs; the second parts of **ColaSriPruebas**, **CarteraPruebas** and
**InventarioPruebas** hold those of `Organizacion`, `Atributos` and `Reportes`.

## 4. Runs

| Run | Instance | Shows |
|---|---|---|
| `inventario` | 2 requests, 2 bodegas, 1 product, 3 movements; symmetry | `ProductoEsSuma`; stock is the sum of effects and no reversal exceeds what it reverses (`EfectosCuadran`); refinement of the ledger (`LibroSpec`) |
| `inventario_viva` | 2 requests, 2 products, one without a stock row | every request ends although lines are locked in opposite orders and first inserts race |
| `cartera` | 2 requests, one account of either kind, its withholdings, amounts 0..2 | balances, withholdings once, no money on a cancelled sale, every request ends |
| `cola_sri` | 1 document, worker and one other thread, 1 restart, `MaxIntentos` 2, `MaxReintentos` 2, `MaxEnvios` 1 | what shows as authorized is so at the SRI; no decision undone; the three rows agree; every document is resolved |
| `emision` | 2 requests, 3 sales, room for 3 numbers, adjustments to 1 and 3 | numbers distinct and consecutive; emission whole, once and in its modality; no deadlock |
| `catalogo` | at most 4 of 3 categories and 2 products, one client that previews | the active hierarchy is a tree with its parents flagged; products in active categories; only a reactivation mixes children and products |
| `atributos` | 2 categories, 1 product, 1 request in flight, 2 definitions over 2 columns, 2 data, 2 snapshots, 1 conversion, 1 unit | no value lost without a remap; only a move leaves values missing or out of place; a deactivation can be undone; units; a confirmation does what its preview showed |
| `compras` | 2 bodegas, 1 purchase, 2 requests, 1 unit of stock, 2 rows per bodega | a purchase weighs once; a row says what the stock says; deletions nobody crossed are clean |
| `directorio` | 2 requests, 2 persons (one may be client, employee and user, both contacts), 1 company, 2 types | no active row over an inactive person or type; a user does not outlive its employee unconfirmed |
| `tributos` | 1 product, 2 IVA, 1 ICE, 2 measures, 2 requests, 2 days | an IVA stays; one tax per class frozen; active measures do not meet; no wait for ever |
| `organizacion` | 2 branches, 2 points, 1 sale, 4 requests in a behaviour, deletions apart | lawful profile; file and password of one signature; no deleted row comes back; a sale leaves as registered |
| `reportes` | 2 sales, 1 purchase, 2 withholdings of one sale, 3 days over a change of year, 6 operations, money and movements by hand apart | sales and profits, collections, purchases and documents, kardex and valuation agree between reports |

`TypeOK` is a theorem of the modules with proofs (`OrgTypeOK` in `Organizacion`, `AtrTypeOK` in
`Atributos`); where a theorem states it, a run need not spend time on it.

Bounds. Two requests are enough for the races: each involves a reader and a writer, or two holders
of two locks; rows are few because locks, totals and constraints only relate pairs. Three
movements allow a movement, its reverse and a transfer at the same time. Amounts 0..2 on an
account of 2 allow zero, partial, full and excessive payments. `MaxIntentos` and `MaxReintentos`
(3 and 5 in the code) are small enough for both limits to be reached. `MaxEnvios` bounds what
would otherwise grow for ever: answers RECIBIDO, which a background task retries without limit,
and forcing by hand. `MaxSecuencial` 3 stands for 999999999; three sales fill the series, and an
adjustment to 3 leaves its last number. `MaxRecibido` bounds the payments once an account has been
overpaid. `MaxStock` and `MaxFilas` allow a bodega to be emptied and a row to be double. Three
categories allow a cycle through a third one, two products a temporary category that empties and
fills. `MCAcotado` in `atributos` keeps assignments, snapshots, deleted products and the request
in flight to three in all; with two snapshots, or one and a request, the tree is flat and no
setting has a default; while the unit is deactivated there is no request, and one snapshot at
most. `MCEnCurso` chooses what is in flight besides a remap: nothing once a value waits for one;
once a change is recorded, only the operations whose outcome depends on it; over deleted products,
only the two that deactivate values. In `tributos` the taxes of the product change while there is
one measure at most and no change of it in flight, because the two share no row; a registered
sale, which nothing touches again, ends a behaviour. In `directorio` a behaviour has a client or a
company with contacts, never both: they only meet at the deletion of a person, which looks for
either. `UltimaPeticion` 4 allows two crossing updates, a sale registered between them and its
emission. `MaxPasos` 6 is the shortest that registers, issues, charges, withholds, cancels and
reports a day later; money and movements by hand are in no report together, so a behaviour has one
of the two, and with movements by hand one operation less; the second withholding of a sale comes
after the first, and in behaviours without a purchase (`MCPaso`).

The code lets some outdated copies through. Properties then exclude exactly the rows touched by such
a copy and hold of all the others: the accounts in `obsoletas`, the documents two threads crossed on
(`cruces`) or a thread died on (`perdidos`), the withholdings created already APLICADA (`directas`),
the series adjusted late (`tardio`), the measures written from an old copy (`rancias`), the
purchases two annulments crossed on.

`CHECK_DEADLOCK FALSE` stands where the system may really stop: no movement id is left, the account
is closed, every document is decided, a bound on requests is reached. `emision` checks deadlock.

## 5. Fairness

Stated where liveness is checked: `inventario_viva`, `cartera`, `cola_sri`.

* A request that has begun is executed by its thread, and PostgreSQL queues the waiters of a row
  lock: strong fairness of the steps of each request (`Confirmar`, `Avanzar`). Nothing obliges a
  client to send a request.
* A thread of the queue that has begun is executed (weak fairness of `Avanzar`); retries become due
  (`Vencer`); the worker polls for ever, `FE_QUEUE_AUTO_PROCESS_ENABLED` being on by default.
  Background tasks, timers and forcing routes may never run: `TodoSeResuelve` needs only the worker.

Elsewhere waiting is a safety question: `AlgunCambioSigue` says that among the changes of a measure
in flight one can always go on, and `emision` checks that no state is stuck.

## 6. Proofs

Each proof module defines an inductive invariant, proves `Spec => []Inv` with one lemma per
action, and takes the theorems from it. They hold for all values of the constants that satisfy the
module's named assumption (`InventarioSupuestos`, `CarteraSupuestos`, `ColaSupuestos`,
`EmisionSupuestos`, `CatalogoSupuestos`, `ComprasSupuestos`, `TributosSupuestos`,
`DirectorioSupuestos`, `OrganizacionSupuestos`, `AtributosSupuestos`, `ReportesSupuestos`), which TLC
evaluates in every run. They say that the
sets of ids do not overlap, that data and limits have their types, and that requests, movements and
withholdings, over which the models count or add, are finite in number; in `Organizacion`, that
what is sent is a profile, or some columns of one, and that no row is the absent one; in
`Atributos`, that the marks for no datum, the same datum and null are no data, that what a column
holds without conversion it also accepts with one, and that defaults are data or none; in
`Reportes`, that amounts and quantities are naturals, that every row refers to one that there is, and
that no sale is a purchase.
Hardly any property is inductive by itself; what each invariant adds says why the code is right.

**InventarioPruebas**: `TypeOK` (no balance is negative, committed or not) and `ProductoEsSuma`
(`Producto.cantidad` is the sum of the committed stock, although the sum is computed without locks
on the other rows). The argument is the second sum: a request validates its product while it holds
its row, and commits only if the sum it sees then is what it wrote. `Inv` says that what a request
has validated stays the sum of the rows *it sees* (`TotalesBien`). For this to survive a commit of
another request, that one must change no stock of the product; a request that locks stock rows of a
product locks the product before it commits (`CerrojosBien`), and works on products of its own
queue (`ColaBien`). `NuevosPropios` keeps a rollback from undoing another's movement. `Total` over
rows is handled by lemmas that need only that equal rows have equal sums, so finiteness of
`Bodegas` is not assumed.

A second invariant, `InvLibro`, carries `EfectosCuadran` and the refinement of `LibroStock`. It says
that a request sees the committed stock plus the lines it has entered itself, and nothing else
(`LibroBien`): nobody else changes a row it holds. It says what each service puts in its queue
(`OrdenBien`): a confirmation one movement, a cancellation one fresh reverse of a movement whose
row it holds, a transfer two halves in different bodegas. A commit is then exactly the queue
entered in the ledger, which is the step of `LibroStock` (`ImplementaLibro`), and adds to the
stock what it adds to `veces` (`EfectosSiempreCuadran`). A movement is not reversed beyond its
applications because a cancellation holds its row and finds it CONFIRMADO, and CONFIRMADO leaves
one application uncompensated.

Sums over a finite set are `SumFunction`, a recursive function on its subsets. What the proofs
need of them are two facts: a sum of zeros is zero (`SumaCeros`), and changing one term changes
the sum by as much (`SumaCambia`). Both are inductions over the subsets, made here without an
induction theorem: a least counterexample under strict inclusion, which the library proves well
founded, is refuted.

**CarteraPruebas**: `TypeOK` (no amount is negative), `SaldoCuadra`, `RetencionUnaVez`,
`AnuladaSinCobros`, `RetenidoCuadra`. `Inv` adds what each request knows at each phase
(`PeticionBien`): the account it points to is the one of its withholding, and the state of the
withholding, read under the lock of its row, is still the row's. Of the copy of an account it
knows only the type: a payment written from an outdated copy puts the account in `obsoletas`,
which `SaldoCuadra` leaves out. The lemmas on `Recalculada`, `Retenida`, `Pagada` and `Escrita`
say what the arithmetic and the column-wise UPDATE leave. `RetenidoCuadra` holds of every account,
`obsoletas` included: a payment does not change the withheld column of its copy, so its UPDATE
does not send it, and withholdings read the row under its lock. It uses the lemmas on sums,
repeated there.

**ColaSriPruebas**: `TypeOK`, `RespuestaReal`, `FirmadoEnManos`, `FilasCoherentes` and the action
property `DecisionFirme`. `Inv` says that a thread alone on its document holds copies equal to the
rows and sends only a task that is not finished (`CopiaBien`), and that a document has at most one
background task or timer, waiting or running (`FondoUnico`). From that, an answer always finds the
state undecided, so it undoes nothing, and the three rows it writes agree (`TrasRespuesta`).
`RespuestaReal` needs none of it: it holds of the documents two threads cross on as well.
`PasarelaEsCola` shows that every step with the shipped gateway is a step of `ColaSri` or changes
nothing of it, and the rest is taken over (`FilasConPasarela`, `DecisionesFirmesConPasarela`).
`DecisionDelSri` speaks of the SRI itself and needs `InvPasarela`: a row that shows as authorized is
authorized there, and what the SRI has accepted is authorized in its row too or still in the hands
of the thread that sent it, unless an answer was lost or two threads crossed.

**EmisionPruebas**: `TypeOK` (no number exceeds the series), `SerieCorrecta` (numbers distinct, no
holes), `EmisionCorrecta` (one emission, firm modality) and the action property `NumeroFijo`.
`Inv` says which locks each phase holds (the sale from its stock output on, the counter once it
has been read), that the last number a request has read is still the counter's (`Ultimo`), that
the copy of the sale keeps its point of emission, and how a series begins (`SerieBien`).

**CatalogoPruebas**: `TypeOK`, `ArbolCoherente` (no cycle, no active category under an inactive
one, parents flagged), `ProductosColocados`, the action properties `SoloReactivarMezcla` and
`ConfirmaLoVisto`, and that the walk from the roots meets every active category, so the tree can
always be shown. The conjunction of the three state properties is inductive: the check for cycles is
made on rows read under the lock even when the category itself is an old copy, and that is all the
copy could spoil. The proofs go through closed sets instead of paths: a set of categories closed
under children and free of the new parent stays so after the move.

**ComprasPruebas**: `TypeOK`, `CompraUnaVez`, `RelacionDiceStock`, `BajaLimpia`. `Inv` counts the
annulments of a purchase, made and in flight (`AnulacionesContadas`), and says that where none
crossed the one in flight still finds the purchase REGISTRADA (`AnulacionSola`). `BajaLimpia` needs
its past (`Despejada`): from the moment a deletion has looked, a bodega nobody crosses has no stock
and nobody at work on it.

**TributosPruebas**: `TypeOK`, `UnTributoPorClase`, `ActivasSanas` and the action property
`IvaPermanece`. `Inv` says what each request knows of what it has read: an assignment that saw an
IVA writes one; a registration holds at most one tax per class; an activation that has compared
itself meets no active measure that is not `rancias`, and nobody can make it meet one since it
holds the company until it commits (`SinChoque`, `CerrojosBien`).

**DirectorioPruebas**: `TypeOK` (no row is locked twice), `ReferenciasActivas`,
`UsuarioSigueAlEmpleado`. The invariant says of each request which locks it holds and what it knows
under them, and that what remains to be locked will be before it writes; a deletion sees every
reference because who would create one must lock the same person or type first.

**ColaSriPruebas**, second part: `OrgTypeOK`, `PerfilLegal`, `FirmaConSuClave` and the action
properties `BajaDefinitiva` and `EmisionLegal`. Requests of `Organizacion` lock no row but that of a
sale being issued, so `OrgInv` says little of what a copy has to do with the row: it is a row of its
kind, loaded while it was active. For `BajaDefinitiva` that is enough: an update that sends `activo`
true sends what its copy says, and a column that equals the copy is not written. `FirmaConSuClave`
rests on the salt of each encryption: what a request is going to write (`FirmaVista`, older than the
next request) differs from its copy in both columns, so both are written or neither is.
`EmisionLegal` joins two facts: the point of a sale is of the kind the sale was born with
(`VentaBien`), and the one it is issued at is of the kind its type asks for (`EnEmision`), which no
edition changes meanwhile because the emission holds the row.

**CarteraPruebas**, second part: `AtrTypeOK` and the five action properties of `Atributos`,
`UnidadSegura`, `SinValoresPerdidos`, `SoloMoverDesajusta`, `BajaReversible` and `LoVistoEsLoHecho`.
`PasoEscribe` says who may have written in a step, and each property is one lemma per writer.
`AtrInv` says three things. What a snapshot keeps was in force, with its unit in `huella`, over the
assignments of before; what a BAJA leaves is all inactive (`CambioBien`), so undoing it gives back a
legal state. What a request has read exists. And what a preview shows can be told from what it signs
(`Cuadra`): a confirmation that finds the signature again does what was shown, although the state
may have gone elsewhere and come back. An assignment added or removed changes the one in force for a
product only where it is the nearest one with that attribute; for this the ancestors are least closed
sets, and the absence of cycles makes the nearest one unique (`OrigenConOtra`, `OrigenSinOtra`,
`OrigenUnico`).

**InventarioPruebas**, second part: `RepTypeOK` and the four properties of `Reportes`, for any number
of rows, days and operations. `RepInv` says what the tables tell of each other. An open account is
what is left of its total (`CobrosPorEstado`, `PagosPorEstado`); what it holds as paid is the sum of
its payments (`PagosSumados`), and as withheld the sum of what each withholding has done to it
(`RetenidoSumado`); a document is there for what was sent (`DocumentosPorEstado`); the stock is the
sum of the movements (`StockSumado`), and what a sale took out is what it says (`SalidasDeVentas`).
The rest is about sums. Every report is a sum over a part of one table (`Parcial`), or over rows that
each stand for a key of that part, and rows of all the keys add up to the part (`FilasSuman`,
`SumaPorClave`): so a report by day, by month, by customer and by branch are one number. A sum does
not depend on the order (`SumaLibre`, `SumaRenombrada`), which is what makes the last balance of a
kardex, entered date by date, the sum of what it shows (`OrdenSuma`), and the two valuations, one by
article and one by bodega, the same. `CobrosCuadran` was corrected by its proof: it left out of the
balance the withholdings created APLICADA that still are, and `RetenidoSumado` is inductive only if
those annulled since are left out as well, for the account of the sale was given back what it had not
paid. A second withholding of one sale shows it, and the run now has one.

Model-checked only: what rests on fairness or ENABLED, which are out of the prover's reach
(`TodaPeticionTermina`, `TodoSeResuelve`, `AlgunCambioSigue`, and that nobody is stuck in
`Emision`).

## 7. Where the repository says otherwise

Each of these is a text of the repository that the modelled code does not follow; the models follow
the code, and the passing properties leave the case out by name.

* `docs/docs/api/inventario/producto-atributos-impuestos-bodegas.md:359` "Compras, ventas y
  anulaciones deben mantener coherencia entre stock materializado y kárdex." The kardex shows the
  reversal of a movement cancelled by hand and no longer the movement (`KardexConcuerdan`).
* `movimiento_inventario_service.py:134` "Solo se puede confirmar movimientos en BORRADOR": the state
  is read without a lock, so of two confirmations both may go on; stock then counts both
  (`StockEsEfectos` counts applications, `veces`).
* `docs/docs/api/transacciones/compras.md:786` "Evita carreras y sobrepagos concurrentes.": the
  routes load the account before the service locks it, and the lock does not refresh it
  (`obsoletas`).
* `compras.md:605` "si la retencion ya esta EMITIDA o ENCOLADA, retorna estado actual sin aplicar
  doble impacto en CxP": two emissions may both read BORRADOR.
* `openspec/changes/enforce-emission-point-sequences/specs/emission-point-sequences/spec.md:57`
  "Manual counter adjustments SHALL NOT create a forward gap or reissue a number after any sale has
  used that point": the check precedes the lock of the counter (`tardio`).
* `inventario/producto/entity.py:97` "Restricción única: un producto solo puede estar una vez en una
  bodega": the migration `fc65b5f4ec8d` drops it, and two assignments may both insert.
* `docs/docs/api/sri/facturacion-electronica-cola-documentos.md:33` "Rechazo lógico
  (RECHAZADO/DEVUELTO) detiene reintentos.": a second thread whose call times out late writes
  REINTENTO_PROGRAMADO over FALLIDO (`cruces`).
* `openspec/changes/integrate-atomic-product-catalog/specs/product-integral/spec.md:53` (no active
  product without a typed value for each required attribute): moving a category changes what its
  products inherit and completes nothing (`SoloMoverDesajusta` shows it is the only way).
* Products only in leaves: reactivating a category puts children beside products
  (`SoloReactivarMezcla`); an emptied temporary category may stay active, and `es_padre` may stay set
  when the last child goes.
* `sri/medidas_temporales/service.py`: two measures of one class may be active together when one was
  activated from a copy that was edited meanwhile (`rancias`).
* `venta_service.py:986` "No se puede editar una venta en estado EMITIDA.": an edition reads the
  state without a lock and may write after the emission.
* `docs/docs/procesos/reporteria-control-gerencial.md:17` "Ventas emitidas en el período": drafts
  count as sales in the summary and the trends.

## 8. Hazards no property covers

Met while reading, each real, each out of what the modules can state today:

* annulling a purchase leaves its account payable as it was (`compra_service.py:427`);
* two saves of the withholding template of a supplier (`retencion_service.py:462`);
* lock order over products and stock between an emission and the movements (`venta_service.py:531`);
* a sale cancelled while its invoice is being sent (`venta_service.py:737`);
* the e-mail of an authorized invoice, lost by a crash after the commit
  (`venta_sri_async_service.py:655`); a withholding queued twice, back to PENDIENTE;
* the preview of a product shows one read and signs another (`category_preview.py:491`); the update
  after a conversion is not tied to its preview (`atributo/router.py:497`);
* a deletion of a role or a company by the generic route leaves its users and employees active;
* a RIMPE company's IVA is decided before the temporary measure is; an 8 % rate is in no subtotal of
  the reports; a manual EGRESO whose reference is "VENTA:<id>" is a cost of that sale;
* the head office, once deleted, cannot be created again (`sucursal/entity.py:15`); a deactivated tax
  blocks every update of the company that selected it (`empresa/service.py:205`).

## 9. Plan

1. `Calculos`: check digits, average cost and rounding against reference definitions.
2. Composition of emission, stock and queue: lock order over products and stock, the cancellation of
   a sale that is being sent, the account of an annulled purchase.

## 10. Not modelled

* Sessions, roles and permissions: one query at the start of a request; nothing is kept between two.
* Audit rows: written by listeners in the transaction of what they record.
* Printing, XML of documents, e-mail bodies: formatting of rows that the modules have.
* Identification numbers: digits; the modules take valid numbers as model values.
* Migrations, seeds, the catalog preflight: run by an operator, out of run time.
* Code catalogs of the SRI, lists and filters: one row, one transaction, read by nothing here.

## 11. Running

    tlc -workers 2 -config MCInventario.cfg MCInventario.tla
    tlapm InventarioPruebas.tla

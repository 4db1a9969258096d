----------------------------- MODULE Inventario -----------------------------
(***************************************************************************)
(* Stock movements of osiris: MovimientoInventarioService.                 *)
(*                                                                         *)
(* Each request runs one database transaction under READ COMMITTED.  What  *)
(* it has flushed but not committed is private to it (req[t].filas,        *)
(* vista[t].prods) and guarded by the row locks it holds; a SELECT without *)
(* FOR UPDATE reads the committed rows, or its own writes.  A request is   *)
(* cut at every statement that reads shared rows or may wait for a lock,   *)
(* because another request may commit there.                               *)
(*                                                                         *)
(* Abstracted: unit costs (they never decide a branch), dates, soft        *)
(* deletion, fractions (quantities are integers), several lines of one     *)
(* product in one movement (they are summed).  The kardex check of         *)
(* _validar_integridad_operacion_kardex_stock projects the kardex from its *)
(* own earlier reading, so it is equivalent to the stock-delta check.      *)
(***************************************************************************)
EXTENDS Integers, Sequences, FiniteSets, Functions

CONSTANTS
  Peticiones,    \* request handlers, one database session each
  Bodegas,
  Productos,
  Movimientos,   \* movement ids available (bound)
  Datos,         \* movement contents clients may submit
  StockInicial,  \* quantity of each stock row at the start
  FilasIniciales,\* the stock rows that exist at the start
  Nadie          \* "no request", "no movement"

Filas == Bodegas \X Productos
Tipos == {"INGRESO", "EGRESO", "TRANSFERENCIA", "AJUSTE"}
Contenido == [tipo : Tipos, bodega : Bodegas, lineas : [Productos -> Nat],
              revierte : Movimientos \cup {Nadie}]

ASSUME InventarioSupuestos ==
  /\ Datos \subseteq Contenido
  /\ Datos # {}
  /\ IsFiniteSet(Movimientos)
  /\ \A d \in Datos : d.revierte = Nadie /\ \E p \in Productos : d.lineas[p] > 0
  /\ Nadie \notin Peticiones \cup Movimientos \cup Productos
  /\ StockInicial \in [Filas -> Nat]
  /\ FilasIniciales \subseteq Filas
  /\ \A f \in Filas \ FilasIniciales : StockInicial[f] = 0

VARIABLES
  estado,     \* [Movimientos -> state of the movement row]
  dato,       \* [Movimientos -> its content, fixed once inserted]
  existe,     \* stock rows that have been committed
  stock,      \* InventarioStock.cantidad_actual, committed
  cantidad,   \* Producto.cantidad, committed
  relacion,   \* ProductoBodega.cantidad, committed
  cFila,      \* holder of the row lock of each stock row
  cProd,      \* ... of each producto row
  cMov,       \* ... of each movement row
  req,        \* the requests: where each is, what it holds privately of the stock rows
  vista,      \* ... and what it has read, summed and written of the products
  veces       \* history: times the effect of a movement has been committed

bd     == <<estado, dato, existe, stock, cantidad, relacion>>
locks  == <<cFila, cProd, cMov>>
vars   == <<estado, dato, existe, stock, cantidad, relacion, cFila, cProd, cMov,
            req, vista, veces>>

Fases == {"ocioso", "firmar", "antes", "aplicar", "insertar", "integridad", "suma",
          "producto", "escribir", "validarSuma", "validarProducto", "cerrar"}
Modos == {"confirmar", "anular", "transferir"}

-----------------------------------------------------------------------------
(* Movements *)

EsEgreso(d) == d.tipo \in {"EGRESO", "TRANSFERENCIA"}
TipoReverso(tipo) == IF tipo \in {"INGRESO", "AJUSTE"} THEN "EGRESO" ELSE "INGRESO"
ProductosDe(d) == {p \in Productos : d.lineas[p] > 0}
Delta(d, p) == IF EsEgreso(d) THEN 0 - d.lineas[p] ELSE d.lineas[p]
Reverso(m) == [dato[m] EXCEPT !.tipo = TipoReverso(@), !.revierte = m]

(* What transaction t sees *)

\* SUM(cantidad_actual) over the stock rows of p.
Total(filas, p) == SumFunction([b \in Bodegas |-> filas[<<b, p>>]])

Ver(t, f) == IF cFila[f] = t THEN req[t].filas[f] ELSE stock[f]
VerProducto(t, p) == IF cProd[p] = t THEN vista[t].prods[p] ELSE cantidad[p]
VerFilas(t) == [f \in Filas |-> Ver(t, f)]
SumaStock(t, p) == Total(VerFilas(t), p)
EnCurso(t) == dato[req[t].cola[req[t].pos]]
FilaDe(t, p) == <<EnCurso(t).bodega, p>>
Libre(c, t) == c \in {Nadie, t}

Reposo == [fase |-> "ocioso", modo |-> "confirmar", mov |-> Nadie, cola |-> <<>>,
           pos |-> 1, faltan |-> {}, actual |-> Nadie, antes |-> [p \in Productos |-> 0],
           filas |-> [f \in Filas |-> 0]]
SinVista == [suma |-> 0, leido |-> 0, prods |-> [p \in Productos |-> 0]]

Init ==
  /\ estado = [m \in Movimientos |-> "LIBRE"]
  /\ dato = [m \in Movimientos |-> CHOOSE d \in Datos : TRUE]
  /\ existe = FilasIniciales
  /\ stock = StockInicial
  /\ cantidad = [p \in Productos |-> Total(StockInicial, p)]
  /\ relacion = StockInicial
  /\ cFila = [f \in Filas |-> Nadie]
  /\ cProd = [p \in Productos |-> Nadie]
  /\ cMov = [m \in Movimientos |-> Nadie]
  /\ req = [t \in Peticiones |-> Reposo]
  /\ vista = [t \in Peticiones |-> SinVista]
  /\ veces = [m \in Movimientos |-> 0]

-----------------------------------------------------------------------------
(* Steps shared by every request *)

\* The products of t's current phase that are left once p is done: the next
\* phase starts over with all the products of the movement.
Avanzar(t, p, r, siguiente) ==
  LET quedan == r.faltan \ {p}
  IN  IF quedan # {} THEN [r EXCEPT !.faltan = quedan]
      ELSE [r EXCEPT !.fase = siguiente, !.faltan = ProductosDe(EnCurso(t))]

SoltarCerrojos(t) ==
  /\ cFila' = [f \in Filas |-> IF cFila[f] = t THEN Nadie ELSE cFila[f]]
  /\ cProd' = [p \in Productos |-> IF cProd[p] = t THEN Nadie ELSE cProd[p]]
  /\ cMov' = [m \in Movimientos |-> IF cMov[m] = t THEN Nadie ELSE cMov[m]]

\* Faulty variant of Deshacer: the session is dropped without rolling back, so the row
\* locks stay held.
DeshacerSinSoltar(t) ==
  /\ req' = [req EXCEPT ![t] = Reposo]
  /\ vista' = [vista EXCEPT ![t] = SinVista]
  /\ UNCHANGED <<bd, locks, veces>>

\* ROLLBACK: what was flushed disappears, rows inserted by t included.
Deshacer(t) ==
  /\ SoltarCerrojos(t)
  /\ estado' = [m \in Movimientos |->
                  IF m \in {req[t].cola[i] : i \in DOMAIN req[t].cola} /\ estado[m] = "NUEVO"
                  THEN "LIBRE" ELSE estado[m]]
  /\ req' = [req EXCEPT ![t] = Reposo]
  /\ vista' = [vista EXCEPT ![t] = SinVista]
  /\ UNCHANGED <<dato, existe, stock, cantidad, relacion, veces>>

\* A step that neither writes a row nor waits for one.
Local(t, r, v) ==
  /\ req' = [req EXCEPT ![t] = r]
  /\ vista' = [vista EXCEPT ![t] = v]
  /\ UNCHANGED <<bd, locks, veces>>

-----------------------------------------------------------------------------
(* Entry points *)

\* crear_movimiento_borrador with commit: a draft does not touch the stock.
CrearBorrador(m, d) ==
  /\ estado[m] = "LIBRE"
  /\ estado' = [estado EXCEPT ![m] = "BORRADOR"]
  /\ dato' = [dato EXCEPT ![m] = d]
  /\ UNCHANGED <<existe, stock, cantidad, relacion, locks, req, vista, veces>>

\* confirmar_movimiento: session.get without a lock, then the estado check.  A new
\* usuario_auditoria or motivo makes the row dirty and the next SELECT flushes it.
LeerMovimiento(t, m) ==
  /\ req[t].fase = "ocioso"
  /\ estado[m] = "BORRADOR"
  /\ \E fase \in {"firmar", "antes"} :
       Local(t, [req[t] EXCEPT !.fase = fase, !.modo = "confirmar", !.mov = m,
                               !.cola = <<m>>, !.faltan = ProductosDe(dato[m])], vista[t])

FirmarMovimiento(t) ==
  /\ req[t].fase = "firmar"
  /\ cMov[req[t].mov] = Nadie
  /\ cMov' = [cMov EXCEPT ![req[t].mov] = t]
  /\ req' = [req EXCEPT ![t].fase = "antes"]
  /\ UNCHANGED <<bd, cFila, cProd, vista, veces>>

\* anular_movimiento of a draft: SELECT FOR UPDATE, new estado, commit.
AnularBorrador(t, m) ==
  /\ req[t].fase = "ocioso"
  /\ cMov[m] = Nadie
  /\ estado[m] = "BORRADOR"
  /\ estado' = [estado EXCEPT ![m] = "ANULADO"]
  /\ UNCHANGED <<dato, existe, stock, cantidad, relacion, locks, req, vista, veces>>

\* anular_movimiento of a confirmed movement: keeps the row locked, inserts the
\* reverse movement r and goes on to confirm it in the same transaction.
AnularConfirmado(t, m, r) ==
  /\ req[t].fase = "ocioso"
  /\ cMov[m] = Nadie
  /\ estado[m] = "CONFIRMADO"
  /\ estado[r] = "LIBRE"
  /\ cMov' = [cMov EXCEPT ![m] = t]
  /\ estado' = [estado EXCEPT ![r] = "NUEVO"]
  /\ dato' = [dato EXCEPT ![r] = Reverso(m)]
  /\ req' = [req EXCEPT ![t] = [@ EXCEPT !.fase = "antes", !.modo = "anular", !.mov = m,
                                         !.cola = <<r>>, !.faltan = ProductosDe(dato[m])]]
  /\ UNCHANGED <<existe, stock, cantidad, relacion, cFila, cProd, vista, veces>>

\* transferir_entre_bodegas: the outgoing movement e and the incoming movement i are
\* inserted and confirmed one after the other, with a single commit.
Transferir(t, e, i, d, destino) ==
  /\ req[t].fase = "ocioso"
  /\ e # i /\ estado[e] = "LIBRE" /\ estado[i] = "LIBRE"
  /\ d.tipo = "TRANSFERENCIA" /\ d.bodega # destino
  /\ estado' = [estado EXCEPT ![e] = "NUEVO", ![i] = "NUEVO"]
  /\ dato' = [dato EXCEPT ![e] = d, ![i] = [d EXCEPT !.tipo = "INGRESO", !.bodega = destino]]
  /\ req' = [req EXCEPT ![t] = [@ EXCEPT !.fase = "antes", !.modo = "transferir", !.mov = e,
                                         !.cola = <<e, i>>, !.faltan = ProductosDe(d)]]
  /\ UNCHANGED <<existe, stock, cantidad, relacion, locks, vista, veces>>

-----------------------------------------------------------------------------
(* Confirmation of req[t].cola[req[t].pos] *)

\* stock_before, one SELECT per product.
LeerStockAntes(t, p) ==
  /\ req[t].fase = "antes" /\ p \in req[t].faltan
  /\ Local(t, Avanzar(t, p, [req[t] EXCEPT !.antes[p] = Ver(t, FilaDe(t, p))], "aplicar"),
           vista[t])

\* The row is locked by t and its new quantity flushed.
EscribirFila(t, p, nueva) ==
  /\ cFila' = [cFila EXCEPT ![FilaDe(t, p)] = t]
  /\ req' = [req EXCEPT ![t] =
               Avanzar(t, p, [@ EXCEPT !.fase = "aplicar", !.actual = Nadie,
                                       !.filas[FilaDe(t, p)] = nueva], "integridad")]
  /\ UNCHANGED <<bd, cProd, cMov, vista, veces>>

Existe(t, f) == f \in existe \/ cFila[f] = t

\* _aplicar_egreso_con_lock
AplicarEgreso(t, p) ==
  LET f == FilaDe(t, p)
      nueva == Ver(t, f) - EnCurso(t).lineas[p]
  IN  /\ req[t].fase = "aplicar" /\ p \in req[t].faltan /\ EsEgreso(EnCurso(t))
      /\ \/ Existe(t, f) /\ Libre(cFila[f], t) /\ nueva >= 0 /\ EscribirFila(t, p, nueva)
         \/ Existe(t, f) /\ Libre(cFila[f], t) /\ nueva < 0 /\ Deshacer(t)
         \/ ~Existe(t, f) /\ Deshacer(t)

\* Faulty variant of AplicarIngreso: adds to the quantity read before the lock.
AplicarIngresoSobreLectura(t, p) ==
  LET f == FilaDe(t, p)
  IN  /\ req[t].fase = "aplicar" /\ p \in req[t].faltan /\ ~EsEgreso(EnCurso(t))
      /\ Libre(cFila[f], t)
      /\ EscribirFila(t, p, req[t].antes[p] + EnCurso(t).lineas[p])

\* _aplicar_ingreso: an existing row is locked first; a missing one is inserted, and
\* the insert waits for a concurrent insert of the same (bodega, producto).
AplicarIngreso(t, p) ==
  LET f == FilaDe(t, p)
      nueva == Ver(t, f) + EnCurso(t).lineas[p]
  IN  /\ req[t].fase = "aplicar" /\ p \in req[t].faltan /\ ~EsEgreso(EnCurso(t))
      /\ \/ Libre(cFila[f], t) /\ EscribirFila(t, p, nueva)
         \/ /\ ~Existe(t, f) /\ cFila[f] # Nadie
            /\ Local(t, [req[t] EXCEPT !.fase = "insertar", !.actual = p], vista[t])

\* The insert that waited: unique violation if the other transaction committed.
InsertarFila(t) ==
  LET p == req[t].actual
      f == FilaDe(t, p)
  IN  /\ req[t].fase = "insertar"
      /\ cFila[f] = Nadie
      /\ \/ f \in existe /\ Deshacer(t)
         \/ f \notin existe /\ EscribirFila(t, p, EnCurso(t).lineas[p])

\* _validar_integridad_operacion_kardex_stock; the balance of the kardex, which it projects
\* from the one read before, cancels out of its second comparison.
ValidarIntegridad(t) ==
  /\ req[t].fase = "integridad"
  /\ LET correcto == \A p \in ProductosDe(EnCurso(t)) :
                        Ver(t, FilaDe(t, p)) - req[t].antes[p] = Delta(EnCurso(t), p)
     IN  \/ correcto /\ Local(t, [req[t] EXCEPT !.fase = "suma"], vista[t])
         \/ ~correcto /\ Deshacer(t)

\* _sincronizar_cantidad_producto_desde_stock: SUM(stock), then session.get(Producto),
\* then the UPDATE at the next flush.  The before_update listener stamps the row, so the
\* UPDATE is always sent and takes the lock; but the ORM sends the column cantidad only
\* when the new value differs from the one it had read.
SumarStock(t, p) ==
  /\ req[t].fase = "suma" /\ p \in req[t].faltan
  /\ Local(t, [req[t] EXCEPT !.fase = "producto", !.actual = p],
           [vista[t] EXCEPT !.suma = SumaStock(t, p)])

LeerProducto(t) ==
  /\ req[t].fase = "producto"
  /\ Local(t, [req[t] EXCEPT !.fase = "escribir"],
           [vista[t] EXCEPT !.leido = VerProducto(t, req[t].actual)])

EscribirProducto(t) ==
  LET p == req[t].actual
      valor == IF vista[t].leido = vista[t].suma THEN VerProducto(t, p) ELSE vista[t].suma
  IN  /\ req[t].fase = "escribir"
      /\ Libre(cProd[p], t)
      /\ cProd' = [cProd EXCEPT ![p] = t]
      /\ req' = [req EXCEPT ![t] =
                   Avanzar(t, p, [@ EXCEPT !.fase = "suma", !.actual = Nadie], "validarSuma")]
      /\ vista' = [vista EXCEPT ![t] = [suma |-> 0, leido |-> 0,
                                        prods |-> [@.prods EXCEPT ![p] = valor]]]
      /\ UNCHANGED <<bd, cFila, cMov, veces>>

\* _validar_producto_vs_stock: SUM(stock) again, then the product again.
ValidarSuma(t, p) ==
  /\ req[t].fase = "validarSuma" /\ p \in req[t].faltan
  /\ Local(t, [req[t] EXCEPT !.fase = "validarProducto", !.actual = p],
           [vista[t] EXCEPT !.suma = SumaStock(t, p)])

ProductoValidado(t) ==
  Local(t, Avanzar(t, req[t].actual,
                   [req[t] EXCEPT !.fase = "validarSuma", !.actual = Nadie], "cerrar"),
        [vista[t] EXCEPT !.suma = 0])

\* Faulty variant of ValidarProducto: the product is synchronised and never validated.
ValidarProductoOmitido(t) == req[t].fase = "validarProducto" /\ ProductoValidado(t)

ValidarProducto(t) ==
  /\ req[t].fase = "validarProducto"
  /\ \/ VerProducto(t, req[t].actual) = vista[t].suma /\ ProductoValidado(t)
     \/ VerProducto(t, req[t].actual) # vista[t].suma /\ Deshacer(t)

\* Second half of a transfer: confirm the incoming movement.
ConfirmarDestino(t) ==
  /\ req[t].fase = "cerrar" /\ req[t].pos < Len(req[t].cola)
  /\ Local(t, [req[t] EXCEPT !.fase = "antes", !.pos = @ + 1,
                             !.faltan = ProductosDe(dato[req[t].cola[req[t].pos + 1]])],
           vista[t])

Confirmados(t) == {req[t].cola[i] : i \in DOMAIN req[t].cola}

\* Faulty variant of PuedeCerrar: a transfer commits once its outgoing half is confirmed.
CierraSinDestino(t) == req[t].fase = "cerrar"
PuedeCerrar(t) == req[t].fase = "cerrar" /\ req[t].pos = Len(req[t].cola)

\* The new estado of the movements, COMMIT.  Writing the row of a draft waits for a
\* request that holds it, and then overwrites whatever it left there.
Comprometer(t) ==
  /\ PuedeCerrar(t)
  /\ req[t].modo = "confirmar" => Libre(cMov[req[t].mov], t)
  /\ estado' = [m \in Movimientos |->
                  IF m \in Confirmados(t) THEN "CONFIRMADO"
                  ELSE IF req[t].modo = "anular" /\ m = req[t].mov THEN "ANULADO"
                  ELSE estado[m]]
  /\ stock' = VerFilas(t)
  /\ existe' = existe \cup {f \in Filas : cFila[f] = t}
  /\ relacion' = [f \in Filas |-> IF cFila[f] = t THEN Ver(t, f) ELSE relacion[f]]
  /\ cantidad' = [p \in Productos |-> VerProducto(t, p)]
  /\ veces' = [m \in Movimientos |-> IF m \in Confirmados(t) THEN veces[m] + 1 ELSE veces[m]]
  /\ SoltarCerrojos(t)
  /\ req' = [req EXCEPT ![t] = Reposo]
  /\ vista' = [vista EXCEPT ![t] = SinVista]
  /\ UNCHANGED dato

-----------------------------------------------------------------------------
(* Deadlocks: PostgreSQL rolls back one request of a cycle of waiting requests *)

Ajenos(t, cs) == cs \ {t, Nadie}

\* The requests t may be waiting for.
Espera(t) ==
  CASE req[t].fase = "firmar"   -> Ajenos(t, {cMov[req[t].mov]})
    [] req[t].fase = "aplicar"  -> Ajenos(t, {cFila[FilaDe(t, p)] : p \in req[t].faltan})
    [] req[t].fase = "insertar" -> Ajenos(t, {cFila[FilaDe(t, req[t].actual)]})
    [] req[t].fase = "escribir" -> Ajenos(t, {cProd[req[t].actual]})
    [] req[t].fase = "cerrar" /\ req[t].modo = "confirmar" -> Ajenos(t, {cMov[req[t].mov]})
    [] OTHER -> {}

Interbloqueo(t) ==
  /\ \E S \in SUBSET Peticiones : t \in S /\ \A u \in S : Espera(u) \cap S # {}
  /\ Deshacer(t)

-----------------------------------------------------------------------------
Confirmar(t) ==
  \/ FirmarMovimiento(t)
  \/ \E p \in Productos : \/ LeerStockAntes(t, p) \/ AplicarEgreso(t, p) \/ AplicarIngreso(t, p)
                          \/ SumarStock(t, p) \/ ValidarSuma(t, p)
  \/ InsertarFila(t) \/ ValidarIntegridad(t) \/ LeerProducto(t) \/ EscribirProducto(t)
  \/ ValidarProducto(t) \/ ConfirmarDestino(t) \/ Comprometer(t)
  \/ Interbloqueo(t)

Next ==
  \/ \E m \in Movimientos, d \in Datos : CrearBorrador(m, d)
  \/ \E t \in Peticiones, m \in Movimientos :
       \/ LeerMovimiento(t, m)
       \/ AnularBorrador(t, m)
       \/ \E r \in Movimientos : AnularConfirmado(t, m, r)
       \/ \E i \in Movimientos, d \in Datos, b \in Bodegas : Transferir(t, m, i, d, b)
  \/ \E t \in Peticiones : Confirmar(t)

Spec == Init /\ [][Next]_vars

\* A request that has begun is executed by its worker thread, the deadlock detector
\* breaks every cycle, and PostgreSQL queues those who wait for a row lock, so a waiter
\* is not overtaken forever (strong fairness).  Nobody is obliged to send a request.
Equidad == \A t \in Peticiones : SF_vars(Confirmar(t))
SpecViva == Spec /\ Equidad

-----------------------------------------------------------------------------
(* Properties *)

EstadosMov == {"LIBRE", "NUEVO", "BORRADOR", "CONFIRMADO", "ANULADO"}
Peticion == [fase : Fases, modo : Modos, mov : Movimientos \cup {Nadie},
             cola : Seq(Movimientos), pos : Nat, faltan : SUBSET Productos,
             actual : Productos \cup {Nadie}, antes : [Productos -> Nat],
             filas : [Filas -> Nat]]

\* Every variable has its type; stock is never negative, committed or not
\* (_aplicar_egreso_con_lock refuses an egreso larger than the locked row).  The totals
\* (cantidad, vista) are the subject of ProductoEsSuma.
TypeOK ==
  /\ estado \in [Movimientos -> EstadosMov]
  /\ dato \in [Movimientos -> Contenido]
  /\ existe \in SUBSET Filas
  /\ stock \in [Filas -> Nat]
  /\ relacion \in [Filas -> Nat]
  /\ cFila \in [Filas -> Peticiones \cup {Nadie}]
  /\ cProd \in [Productos -> Peticiones \cup {Nadie}]
  /\ cMov \in [Movimientos -> Peticiones \cup {Nadie}]
  /\ req \in [Peticiones -> Peticion]
  /\ veces \in [Movimientos -> Nat]

\* Nothing is lost and nothing invented: a committed balance is the initial one plus
\* the effects of the movements committed on it, each counted as often as it was
\* committed -- whatever was read before the locks were taken.
StockEsEfectos ==
  LET Efecto(m, f) == IF dato[m].bodega = f[1] THEN veces[m] * Delta(dato[m], f[2]) ELSE 0
  IN  \A f \in Filas :
        stock[f] = StockInicial[f] + SumFunction([m \in Movimientos |-> Efecto(m, f)])

\* Producto.cantidad is the sum of the committed stock of the product, although the sum
\* is read without a lock on the other rows and the column may not even be written: the
\* second SUM, taken once the producto row is locked, refuses the commit of a request
\* that missed another one.
ProductoEsSuma ==
  \A p \in Productos : cantidad[p] = Total(stock, p)

ReversosDe(m) ==
  {r \in Movimientos : estado[r] \in {"CONFIRMADO", "ANULADO"} /\ dato[r].revierte = m}

\* No movement is compensated more times than it was applied, and one that stands
\* CONFIRMADO has an application that nothing has compensated: two cancellations of one
\* movement never both reverse its stock.
ReversosCubiertos ==
  \A m \in Movimientos :
    /\ Cardinality(ReversosDe(m)) <= veces[m]
    /\ estado[m] = "CONFIRMADO" => Cardinality(ReversosDe(m)) < veces[m]

\* The committed stock is the effects of the movements, each as often as it was applied,
\* and no reversal goes beyond what it reverses.
EfectosCuadran == StockEsEfectos /\ ReversosCubiertos

\* Every request that begins a transaction ends it, by a commit or a rollback, whatever
\* locks the others take and in whatever order.
TodaPeticionTermina ==
  \A t \in Peticiones : req[t].fase # "ocioso" ~> req[t].fase = "ocioso"

\* The stock ledger this module implements: every commit enters one movement, or both
\* halves of one transfer, in the books.
Libro == INSTANCE LibroStock WITH saldo <- stock
LibroSpec == Libro!Spec
=============================================================================

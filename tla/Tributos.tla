------------------------------ MODULE Tributos ------------------------------
(***************************************************************************)
(* The taxes of a product, the temporary measures that replace them, and   *)
(* the sale that freezes what it finds of both.                            *)
(*                                                                         *)
(* Three kinds of request cross here.  The assignment of a tax reads the   *)
(* rows of the product and then replaces those it read, with no lock.      *)
(* A change of a measure is made on the copy its router loaded before the  *)
(* service locks the row: SELECT ... FOR UPDATE gives the session the      *)
(* object it already holds, as it was.  An activation also locks the row   *)
(* of the company, and then the active measures it could overlap.  The     *)
(* registration of a sale reads the rows, then the measures in force, then *)
(* the products of each, with no lock.                                     *)
(*                                                                         *)
(* Abstracted: one company; a tax of the catalog stands for its rate and   *)
(* codes, a measure for its own; a sale has one line, of no excluded       *)
(* activity; names and legal references.                                   *)
(***************************************************************************)
EXTENDS Naturals, FiniteSets

CONSTANTS
  Productos,
  IVAs, ICEs,    \* the taxes of the catalog a product may have
  Medidas,
  Ventas,
  Peticiones,
  Nada,
  UltimoDia,     \* bound: days 1..UltimoDia
  Reglas         \* bound: what a request may bring for a measure

Impuestos == IVAs \cup ICEs
Dias      == 1..UltimoDia
Clases    == {"IVA", "AD_VALOREM", "ESPECIFICO"}
Datos     == [clase : Clases, desde : Dias, hasta : Dias, productos : SUBSET Productos,
              confirmada : BOOLEAN]

Estados == {"BORRADOR", "ACTIVA", "INACTIVA"}
Medida  == [estado : Estados, datos : Datos]

ASSUME TributosSupuestos ==
  /\ IVAs \cap ICEs = {}
  /\ Nada \notin Productos \cup Impuestos \cup Medidas \cup Medida
  /\ UltimoDia \in Nat /\ Reglas \subseteq Datos

VARIABLES
  empresa,       \* whether the company is active
  perfil,        \* ProductoImpuesto: the taxes of each product with an active row
  medida,        \* MedidaTributariaTemporal with its products; Nada before it is created
  venta,         \* the sales: how many taxes of each class are frozen in each
  peticion,      \* what each request in flight has read
  rancias        \* history: measures written from a copy that was no longer the row

vars == <<empresa, perfil, medida, venta, peticion, rancias>>

Tipo(i) == IF i \in IVAs THEN "IVA" ELSE "ICE"
\* validar_codigo_tipo turns the ICE of a product into an ad valorem one.
ClaseDe(i) == IF i \in IVAs THEN "IVA" ELSE "AD_VALOREM"

Init ==
  /\ empresa = TRUE
  /\ perfil = [p \in Productos |-> {}]
  /\ medida = [m \in Medidas |-> Nada]
  /\ venta = [v \in Ventas |-> Nada]
  /\ peticion = [r \in Peticiones |-> Nada]
  /\ rancias = {}

En(r, que) == peticion[r] # Nada /\ peticion[r].que \in que
Toma(r, p) == peticion[r] = Nada /\ peticion' = [peticion EXCEPT ![r] = p]
Suelta(r)  == peticion' = [peticion EXCEPT ![r] = Nada]

-----------------------------------------------------------------------------
(* Locks: a change of a measure holds its row; an activation also the row  *)
(* of the company, and the measures it has compared itself with            *)

Cambios          == {"LEE", "CAMBIA", "EMPRESA", "COMPARADA"}
Bloqueada(m)     == \E r \in Peticiones : En(r, Cambios) /\ m \in peticion[r].cerrojos
EmpresaBloqueada == \E r \in Peticiones : En(r, {"EMPRESA", "COMPARADA"})

-----------------------------------------------------------------------------
(* The company *)

EliminarEmpresa ==
  /\ empresa /\ ~EmpresaBloqueada
  /\ empresa' = FALSE
  /\ UNCHANGED <<perfil, medida, venta, peticion, rancias>>

-----------------------------------------------------------------------------
(* The taxes of a product.  A tax has one active row at most, by the unique   *)
(* index; a row written later for the same tax is another row, so what a      *)
(* request has seen is lost to it once anyone puts that row out.              *)

\* r ends; the rows of p that leave are no longer among those the others have seen.
SueltaFilas(r, p, salen) ==
  peticion' = [q \in Peticiones |->
    IF q = r THEN Nada
    ELSE IF En(q, {"ASIGNA", "PERFIL"}) /\ peticion[q].producto = p
         THEN [peticion[q] EXCEPT !.vistas = @ \ salen]
         ELSE peticion[q]]

\* Faulty variant of DelMismoTipo: the rows of every type are replaced.
DeTodoTipo(p, i) == perfil[p]

DelMismoTipo(p, i) == {j \in perfil[p] : Tipo(j) = Tipo(i)}

\* asignar_impuesto up to the list of the rows it will replace; whether the tax is in
\* force and configured for the company is left open.
PedirAsignacion(r, p, i) ==
  /\ empresa /\ i \notin perfil[p]
  /\ Toma(r, [que |-> "ASIGNA", producto |-> p, impuestos |-> {i}, vistas |-> DelMismoTipo(p, i)])
  /\ UNCHANGED <<empresa, perfil, medida, venta, rancias>>

PerfilValido(s) ==
  /\ Cardinality(s \cap IVAs) = 1
  /\ Cardinality(s \cap ICEs) <= 1

\* The profile sent with a new product or with a full update, which the lock of the
\* catalog takes one at a time; asignar_impuesto does not take it.
PedirPerfil(r, p, s) ==
  /\ empresa /\ PerfilValido(s)
  /\ \A q \in Peticiones : ~En(q, {"PERFIL"})
  /\ Toma(r, [que |-> "PERFIL", producto |-> p, impuestos |-> s, vistas |-> perfil[p]])
  /\ UNCHANGED <<empresa, perfil, medida, venta, rancias>>

\* The unique index lets the new rows in beside those the request does not replace.
Unicas(r) ==
  LET q == peticion[r] IN (perfil[q.producto] \ q.vistas) \cap q.impuestos = {}

EscribirFilas(r) ==
  /\ En(r, {"ASIGNA", "PERFIL"}) /\ Unicas(r)
  /\ LET q == peticion[r]
     IN  /\ perfil' = [perfil EXCEPT ![q.producto] = (@ \ q.vistas) \cup q.impuestos]
         /\ SueltaFilas(r, q.producto, q.vistas)
  /\ UNCHANGED <<empresa, medida, venta, rancias>>

RechazarFilas(r) ==
  /\ En(r, {"ASIGNA", "PERFIL"}) /\ ~Unicas(r)
  /\ Suelta(r)
  /\ UNCHANGED <<empresa, perfil, medida, venta, rancias>>

EliminarImpuesto(p, i) ==
  /\ empresa /\ i \in perfil[p]
  /\ i \notin IVAs
  /\ perfil' = [perfil EXCEPT ![p] = @ \ {i}]
  /\ SueltaFilas(Nada, p, {i})
  /\ UNCHANGED <<empresa, medida, venta, rancias>>

-----------------------------------------------------------------------------
(* Temporary measures *)

CrearMedida(m, d) ==
  /\ empresa
  /\ medida[m] = Nada
  /\ d.desde <= d.hasta /\ d.productos # {}
  /\ medida' = [medida EXCEPT ![m] = [estado |-> "BORRADOR", datos |-> d]]
  /\ UNCHANGED <<empresa, perfil, venta, peticion, rancias>>

\* The rules an edition brings, its products among them; one that brings new dates without
\* the confirmation of the code takes it away.
\* The router loads the measure into the session, where the service will find it.
PedirCambio(r, m, estado, nuevos) ==
  /\ medida[m] # Nada
  /\ Toma(r, [que |-> "LEE", medida |-> m, copia |-> medida[m], estado |-> estado,
              nuevos |-> nuevos, cerrojos |-> {}])
  /\ UNCHANGED <<empresa, perfil, medida, venta, rancias>>

\* The row f takes what the request changed of its copy c, and keeps the rest; its products
\* are other rows, put out and written again by an edition.
Guardada(f, c, estado, nuevos, productos) ==
  LET Queda(campo) == IF campo = "productos" THEN productos
                      ELSE IF nuevos[campo] # c.datos[campo] THEN nuevos[campo]
                      ELSE f.datos[campo]
  IN  [estado |-> IF estado # c.estado THEN estado ELSE f.estado,
       datos |-> [campo \in DOMAIN nuevos |-> Queda(campo)]]

Guardar(r, estado, nuevos, productos) ==
  LET m == peticion[r].medida
      c == peticion[r].copia
  IN  /\ medida' = [medida EXCEPT ![m] = Guardada(@, c, estado, nuevos, productos)]
      /\ rancias' = IF c = medida[m] THEN rancias ELSE rancias \cup {m}
      /\ Suelta(r)

Alcance(r) == medida[peticion[r].medida].datos.productos

Libre(r) == En(r, {"LEE"}) /\ ~Bloqueada(peticion[r].medida)

Editable(c) == c.estado # "ACTIVA"

EditarMedida(r) ==
  /\ Libre(r) /\ peticion[r].estado = "EDITA"
  /\ Editable(peticion[r].copia)
  /\ empresa
  /\ Guardar(r, peticion[r].copia.estado, peticion[r].nuevos, peticion[r].nuevos.productos)
  /\ UNCHANGED <<empresa, perfil, venta>>

DesactivarMedida(r) ==
  /\ Libre(r) /\ peticion[r].estado = "INACTIVA"
  /\ Guardar(r, "INACTIVA", peticion[r].copia.datos, Alcance(r))
  /\ UNCHANGED <<empresa, perfil, venta>>

\* What an activation asks of the copy, and the products, read with the row locked.
Activable(c, productos) ==
  c.datos.desde <= c.datos.hasta /\ c.datos.confirmada /\ productos # {}

BloquearMedida(r) ==
  /\ Libre(r) /\ peticion[r].estado = "ACTIVA"
  /\ Activable(peticion[r].copia, Alcance(r))
  /\ peticion' = [peticion EXCEPT ![r].que = "CAMBIA", ![r].cerrojos = {peticion[r].medida}]
  /\ UNCHANGED <<empresa, perfil, medida, venta, rancias>>

\* Faulty variant of EmpresaLibre: an activation does not wait for the company.
EmpresaSinEsperar == empresa

EmpresaLibre == ~EmpresaBloqueada

BloquearEmpresa(r) ==
  /\ En(r, {"CAMBIA"})
  /\ EmpresaLibre /\ empresa
  /\ peticion' = [peticion EXCEPT ![r].que = "EMPRESA"]
  /\ UNCHANGED <<empresa, perfil, medida, venta, rancias>>

Coinciden(c, d) == c.clase = d.clase /\ c.desde <= d.hasta /\ d.desde <= c.hasta

\* The active measures that an activation locks and compares, by the dates of its copy.
Vecinas(r) ==
  {m \in Medidas \ {peticion[r].medida} :
     /\ medida[m] # Nada /\ medida[m].estado = "ACTIVA" /\ medida[m].datos.confirmada
     /\ Coinciden(medida[m].datos, peticion[r].copia.datos)}
Choca(r) ==
  \E m \in Vecinas(r) :
    medida[m].datos.productos \cap Alcance(r) # {}

\* Only what is committed is seen: not the measure another request is activating.
CompararMedida(r) ==
  /\ En(r, {"EMPRESA"})
  /\ \A m \in Vecinas(r) : ~Bloqueada(m)
  /\ ~Choca(r)
  /\ peticion' = [peticion EXCEPT ![r].que = "COMPARADA", ![r].cerrojos = @ \cup Vecinas(r)]
  /\ UNCHANGED <<empresa, perfil, medida, venta, rancias>>

ActivarMedida(r) ==
  /\ En(r, {"COMPARADA"})
  /\ Guardar(r, "ACTIVA", peticion[r].copia.datos, Alcance(r))
  /\ UNCHANGED <<empresa, perfil, venta>>

\* Faulty variant of Rechazado: an activation refused for the company never answers.
RechazadoSinEmpresa(r) ==
  \/ Libre(r) /\ peticion[r].estado = "EDITA"
       /\ (~Editable(peticion[r].copia) \/ ~empresa)
  \/ Libre(r) /\ peticion[r].estado = "ACTIVA"
       /\ ~Activable(peticion[r].copia, Alcance(r))
  \/ En(r, {"EMPRESA"}) /\ (\A m \in Vecinas(r) : ~Bloqueada(m)) /\ Choca(r)

Rechazado(r) ==
  \/ /\ Libre(r) /\ peticion[r].estado = "EDITA"
     /\ \/ ~Editable(peticion[r].copia)
        \/ ~empresa
  \/ /\ Libre(r) /\ peticion[r].estado = "ACTIVA"
     /\ ~Activable(peticion[r].copia, Alcance(r))
  \/ En(r, {"CAMBIA"}) /\ EmpresaLibre /\ ~empresa
  \/ En(r, {"EMPRESA"}) /\ (\A m \in Vecinas(r) : ~Bloqueada(m)) /\ Choca(r)

RechazarCambio(r) ==
  /\ Rechazado(r)
  /\ Suelta(r)
  /\ UNCHANGED <<empresa, perfil, medida, venta, rancias>>

\* PostgreSQL aborts one of two requests that wait for each other: one has the company
\* and waits for a measure, the other has the measure and waits for the company.
Interbloqueo(r) ==
  /\ \E a, b \in Peticiones :
       /\ r \in {a, b}
       /\ En(a, {"EMPRESA"}) /\ En(b, {"CAMBIA"})
       /\ peticion[b].medida \in Vecinas(a)
  /\ Suelta(r)
  /\ UNCHANGED <<empresa, perfil, medida, venta, rancias>>

-----------------------------------------------------------------------------
(* The registration of a sale *)

DetalleValido(p) ==
  /\ perfil[p] # {}
  /\ \A i, j \in perfil[p] : Tipo(i) = Tipo(j) => i = j

\* hidratar_venta_desde_productos; what the regime of the company asks is left open.
PedirVenta(r, v, p) ==
  /\ empresa
  /\ venta[v] = Nada /\ \A q \in Peticiones : ~(En(q, {"VENTA", "VIGENTES"}) /\ peticion[q].venta = v)
  /\ DetalleValido(p)
  /\ Toma(r, [que |-> "VENTA", venta |-> v, producto |-> p,
              tributos |-> {[clase |-> ClaseDe(i), origen |-> i] : i \in perfil[p]},
              medidas |-> {}])
  /\ UNCHANGED <<empresa, perfil, medida, venta, rancias>>

EnVigor(dia) ==
  {m \in Medidas : /\ medida[m] # Nada /\ medida[m].estado = "ACTIVA"
                   /\ medida[m].datos.desde <= dia /\ dia <= medida[m].datos.hasta}

LeerMedidas(r, dia) ==
  /\ En(r, {"VENTA"})
  /\ peticion' = [peticion EXCEPT ![r].que = "VIGENTES", ![r].medidas = EnVigor(dia)]
  /\ UNCHANGED <<empresa, perfil, medida, venta, rancias>>

\* Faulty variant of Resolver: the tax of the measure is added beside that of the product.
ResolverSumando(tributos, p, ms) ==
  {tributos \cup {[clase |-> medida[m].datos.clase, origen |-> m] :
                    m \in {n \in ms : p \in medida[n].datos.productos}}}

\* resolve_sale: of each class, the last measure that reaches the product takes the place
\* of the tax there was.
Resolver(tributos, p, ms) ==
  LET alcanzan == {m \in ms : p \in medida[m].datos.productos}
      De(c)    == {m \in alcanzan : medida[m].datos.clase = c}
      clases   == {medida[m].datos.clase : m \in alcanzan}
  IN  {{t \in tributos : t.clase \notin clases} \cup
         {[clase |-> c, origen |-> gana[c]] : c \in clases} :
       gana \in {g \in [clases -> alcanzan] : \A c \in clases : g[c] \in De(c)}}

PorClase(ts) == [c \in Clases |-> Cardinality({t \in ts : t.clase = c})]

RegistrarVenta(r) ==
  /\ En(r, {"VIGENTES"})
  /\ \E ts \in Resolver(peticion[r].tributos, peticion[r].producto, peticion[r].medidas) :
       venta' = [venta EXCEPT ![peticion[r].venta] = PorClase(ts)]
  /\ Suelta(r)
  /\ UNCHANGED <<empresa, perfil, medida, rancias>>

-----------------------------------------------------------------------------
Seguir(r) ==
  \/ EscribirFilas(r) \/ RechazarFilas(r)
  \/ EditarMedida(r) \/ DesactivarMedida(r)
  \/ BloquearMedida(r) \/ BloquearEmpresa(r) \/ CompararMedida(r) \/ ActivarMedida(r)
  \/ RechazarCambio(r) \/ Interbloqueo(r)
  \/ (\E dia \in Dias : LeerMedidas(r, dia)) \/ RegistrarVenta(r)

Next ==
  \/ \E r \in Peticiones : Seguir(r)
  \/ EliminarEmpresa
  \/ \E r \in Peticiones, p \in Productos, i \in Impuestos : PedirAsignacion(r, p, i)
  \/ \E r \in Peticiones, p \in Productos, s \in SUBSET Impuestos : PedirPerfil(r, p, s)
  \/ \E p \in Productos, i \in Impuestos : EliminarImpuesto(p, i)
  \/ \E m \in Medidas, d \in Reglas : CrearMedida(m, d)
  \/ \E r \in Peticiones, m \in Medidas :
       \/ \E e \in {"ACTIVA", "INACTIVA"} : PedirCambio(r, m, e, Nada)
       \/ \E d \in Reglas : medida[m] # Nada /\ d.clase = medida[m].datos.clase
                             /\ PedirCambio(r, m, "EDITA", d)
  \/ \E r \in Peticiones, v \in Ventas, p \in Productos : PedirVenta(r, v, p)

Spec == Init /\ [][Next]_vars

-----------------------------------------------------------------------------
(* Properties *)

\* What a request keeps between two of its steps.
FilasPedidas ==
  [que : {"ASIGNA", "PERFIL"}, producto : Productos, impuestos : SUBSET Impuestos,
   vistas : SUBSET Impuestos]
CambiosPedidos ==
  [que : Cambios, medida : Medidas, copia : Medida, estado : {"ACTIVA", "INACTIVA", "EDITA"},
   nuevos : Datos \cup {Nada}, cerrojos : SUBSET Medidas]
VentasPedidas ==
  [que : {"VENTA", "VIGENTES"}, venta : Ventas, producto : Productos,
   tributos : SUBSET [clase : Clases, origen : Impuestos], medidas : SUBSET Medidas]
Peticion == FilasPedidas \cup CambiosPedidos \cup VentasPedidas

\* The state holds rows of taxes, measures, sales and requests of their shapes.
TypeOK ==
  /\ empresa \in BOOLEAN
  /\ perfil \in [Productos -> SUBSET Impuestos]
  /\ medida \in [Medidas -> Medida \cup {Nada}]
  /\ venta \in [Ventas -> [Clases -> Nat] \cup {Nada}]
  /\ peticion \in [Peticiones -> Peticion \cup {Nada}]
  /\ rancias \subseteq Medidas

\* A product that has an IVA keeps one, however the assignments, the full updates and
\* the removals of its taxes cross: each replaces only rows it has read, and whoever
\* takes an IVA away writes another in the same transaction.
IvaPermanece == [][\A p \in Productos : perfil[p] \cap IVAs # {} => perfil[p]' \cap IVAs # {}]_vars

\* No sale is frozen with two taxes of one class, not even of a product whose assignments
\* crossed and left it two IVAs, or while measures are edited under it.
UnTributoPorClase ==
  \A v \in Ventas : venta[v] # Nada => \A c \in Clases : venta[v][c] <= 1

\* Two active measures of one class do not meet, on a day and a product, and each is
\* confirmed, unless one of them was written from a copy that was no longer its row.
ActivasSanas ==
  LET sanas == {m \in Medidas \ rancias : medida[m] # Nada /\ medida[m].estado = "ACTIVA"}
  IN  \A m \in sanas :
        /\ medida[m].datos.confirmada
        /\ \A n \in sanas \ {m} :
             Coinciden(medida[m].datos, medida[n].datos) =>
               medida[m].datos.productos \cap medida[n].datos.productos = {}

\* While a change of a measure is in flight, some change can go on: a refusal, a commit or
\* the database ends each wait of an activation for the company or for its neighbours.
AlgunCambioSigue ==
  LET cambian == {r \in Peticiones : En(r, Cambios)}
  IN  cambian # {} => \E r \in cambian : ENABLED Seguir(r)
=============================================================================

------------------------------- MODULE Compras -------------------------------
(***************************************************************************)
(* Purchases, the stock they bring in and take back, and what comes and    *)
(* goes around that stock: bodegas, the product, and the rows that say how *)
(* much of the product each bodega holds.                                  *)
(*                                                                         *)
(* A movement locks its stock row and keeps it to the end (Inventario), so *)
(* it is one action here.  What requests read before that, with no lock,   *)
(* is a step of its own: the state of a purchase, whether a bodega and the *)
(* product are active, the row of the product in the bodega, and all that  *)
(* a deletion looks at.                                                    *)
(*                                                                         *)
(* The row of a product in a bodega is not unique.  The constraint that    *)
(* made it so is dropped by the migration that adds empresa_id to the      *)
(* employees, and no later one creates it again.                           *)
(*                                                                         *)
(* Abstracted: one product, bought by units; taxes, amounts and details of *)
(* a purchase; its account payable is in Cartera.                          *)
(***************************************************************************)
EXTENDS Naturals, Sequences, FiniteSets

CONSTANTS
  ComprasPosibles,
  Bodegas,
  Peticiones,
  Nadie,
  MaxStock,      \* bound: units of the product in a bodega, also of what is written by hand
  MaxFilas       \* bound: rows ever created of the product in a bodega

Filas    == [activa : BOOLEAN, cantidad : 0..MaxStock, aMano : BOOLEAN]
Compras_ == [bodega : Bodegas, estado : {"REGISTRADA", "ANULADA"},
             ingreso : {"CONFIRMADO", "ANULADO"},     \* the movement of its entry
             salidas : 0..Cardinality(Peticiones),    \* movements of its annulment in force
             devueltas : 0..Cardinality(Peticiones)]  \* and cancelled by hand
Pendientes ==
  [que : {"COMPRA"}, compra : ComprasPosibles, bodega : Bodegas]
    \cup [que : {"ANULA"}, compra : ComprasPosibles]
    \cup [que : {"TRANSFIERE"}, bodega : Bodegas, destino : Bodegas]
    \cup [que : {"BAJA_BODEGA", "ASIGNA"}, bodega : Bodegas]
    \cup [que : {"FIJA"}, bodega : Bodegas, fila : 0..MaxFilas]
    \cup [que : {"BAJA_PRODUCTO"}]

ASSUME ComprasSupuestos ==
  /\ MaxStock \in Nat \ {0} /\ MaxFilas \in Nat \ {0}
  /\ IsFiniteSet(Peticiones)
  /\ Nadie \notin ComprasPosibles \cup Bodegas \cup Compras_ \cup Pendientes

VARIABLES
  bodega,        \* "NUEVA" before it is created, then "ACTIVA", then "BAJA"
  producto,      \* whether the product is active
  stock,         \* InventarioStock: units in each bodega; no row is 0
  relaciones,    \* ProductoBodega: the rows of the product in each bodega
  compra,        \* the purchase, its movements; Nadie before it is registered
  peticion,      \* what each request in flight has read
  solapadas,     \* history: bodegas where something crossed a deletion
  aparte         \* history: purchases annulled twice at once or undone by hand

vars == <<bodega, producto, stock, relaciones, compra, peticion, solapadas, aparte>>

Init ==
  /\ bodega = [b \in Bodegas |-> "NUEVA"]
  /\ producto = TRUE
  /\ stock = [b \in Bodegas |-> 0]
  /\ relaciones = [b \in Bodegas |-> <<>>]
  /\ compra = [c \in ComprasPosibles |-> Nadie]
  /\ peticion = [t \in Peticiones |-> Nadie]
  /\ solapadas = {}
  /\ aparte = {}

-----------------------------------------------------------------------------
(* What is in flight *)

EnCurso(que) == {t \in Peticiones : peticion[t] # Nadie /\ peticion[t].que = que}
DeBaja(b)    == {t \in EnCurso("BAJA_BODEGA") : peticion[t].bodega = b}
Sobre(b)     == {t \in UNION {EnCurso(q) : q \in {"COMPRA", "TRANSFIERE", "ASIGNA", "FIJA"}} :
                   \/ peticion[t].bodega = b
                   \/ peticion[t].que = "TRANSFIERE" /\ peticion[t].destino = b}
Anulando(c)  == {t \in EnCurso("ANULA") : peticion[t].compra = c}

\* Those of bs where a deletion, or that of the product, is in flight or was made.
Cerradas(bs) == {b \in bs : \/ bodega[b] # "ACTIVA" \/ DeBaja(b) # {}
                            \/ ~producto \/ EnCurso("BAJA_PRODUCTO") # {}}

Empieza(t, r, bs) ==
  /\ peticion[t] = Nadie
  /\ peticion' = [peticion EXCEPT ![t] = r]
  /\ solapadas' = solapadas \cup bs
Termina(t) == peticion' = [peticion EXCEPT ![t] = Nadie]

-----------------------------------------------------------------------------
(* The rows of the product in a bodega.  Every select leaves the inactive out. *)

Activas(b)  == {i \in DOMAIN relaciones[b] : relaciones[b][i].activa}
Fila(n, m)  == [activa |-> TRUE, cantidad |-> n, aMano |-> m]

\* Faulty variant of Sincronizadas: a row that is already there keeps its quantity.
SincronizadasSoloNuevas(b, n) ==
  IF Activas(b) = {} THEN Append(relaciones[b], Fila(n, FALSE)) ELSE relaciones[b]

\* The rows of b once a movement has left n units in it.
Sincronizadas(b, n) ==
  IF Activas(b) = {} THEN Append(relaciones[b], Fila(n, FALSE))
  ELSE [i \in DOMAIN relaciones[b] |->
          IF relaciones[b][i].activa THEN Fila(n, FALSE) ELSE relaciones[b][i]]

\* Movements that take the stock from `stock` to `nuevo`.  A second active row makes
\* one_or_none fail, and the movement with it.
Mueve(nuevo, bs) ==
  /\ \A b \in bs : /\ Cardinality(Activas(b)) <= 1
                   /\ Activas(b) = {} => Len(relaciones[b]) < MaxFilas
                   /\ nuevo[b] <= MaxStock
  /\ stock' = nuevo
  /\ relaciones' = [b \in Bodegas |-> IF b \in bs THEN Sincronizadas(b, nuevo[b]) ELSE relaciones[b]]

Entra(b) == Mueve([stock EXCEPT ![b] = stock[b] + 1], {b})

Sale(b)  == stock[b] > 0 /\ Mueve([stock EXCEPT ![b] = stock[b] - 1], {b})

-----------------------------------------------------------------------------
(* Purchases *)

\* The route that takes the lines from the catalog looks at the product too; the other does not.
PedirCompra(t, c, b) ==
  /\ compra[c] = Nadie /\ \A u \in EnCurso("COMPRA") : peticion[u].compra # c
  /\ bodega[b] = "ACTIVA"
  /\ Empieza(t, [que |-> "COMPRA", compra |-> c, bodega |-> b], Cerradas({b}))
  /\ UNCHANGED <<bodega, producto, stock, relaciones, compra, aparte>>

RegistrarCompra(t) ==
  /\ t \in EnCurso("COMPRA")
  /\ Entra(peticion[t].bodega)
  /\ compra' = [compra EXCEPT ![peticion[t].compra] =
       [bodega |-> peticion[t].bodega, estado |-> "REGISTRADA", ingreso |-> "CONFIRMADO",
        salidas |-> 0, devueltas |-> 0]]
  /\ Termina(t)
  /\ UNCHANGED <<bodega, producto, solapadas, aparte>>

\* Faulty variant of PedirAnulacion: an annulled purchase is annulled again.
PedirAnulacionOtraVez(t, c) ==
  /\ compra[c] # Nadie /\ compra[c].ingreso = "CONFIRMADO"
  /\ aparte' = aparte \cup {d \in {c} : Anulando(d) # {}}
  /\ Empieza(t, [que |-> "ANULA", compra |-> c], {})
  /\ UNCHANGED <<bodega, producto, stock, relaciones, compra>>

PedirAnulacion(t, c) ==
  /\ compra[c] # Nadie /\ compra[c].estado = "REGISTRADA" /\ compra[c].ingreso = "CONFIRMADO"
  /\ aparte' = aparte \cup {d \in {c} : Anulando(d) # {}}
  /\ Empieza(t, [que |-> "ANULA", compra |-> c], {})
  /\ UNCHANGED <<bodega, producto, stock, relaciones, compra>>

AnularCompra(t) ==
  /\ t \in EnCurso("ANULA")
  /\ LET c == peticion[t].compra IN
       /\ Sale(compra[c].bodega)
       /\ compra' = [compra EXCEPT ![c].estado = "ANULADA", ![c].salidas = @ + 1]
       /\ solapadas' = solapadas \cup Cerradas({compra[c].bodega})
  /\ Termina(t)
  /\ UNCHANGED <<bodega, producto, aparte>>

-----------------------------------------------------------------------------
(* Movements made by hand: nothing tells them from those of the purchases, *)
(* and none looks at the bodega or the product.                            *)

AMano(b) == /\ bodega[b] # "NUEVA"
            /\ solapadas' = solapadas \cup Cerradas({b})

\* A draft is confirmed, or a confirmed movement that is of no purchase is cancelled.
MoverAMano(b) ==
  /\ AMano(b)
  /\ Entra(b) \/ Sale(b)
  /\ UNCHANGED <<bodega, producto, compra, peticion, aparte>>

\* The movement that entered the purchase is cancelled.
AnularIngreso(c) ==
  /\ compra[c] # Nadie /\ compra[c].ingreso = "CONFIRMADO"
  /\ AMano(compra[c].bodega)
  /\ Sale(compra[c].bodega)
  /\ compra' = [compra EXCEPT ![c].ingreso = "ANULADO"]
  /\ aparte' = aparte \cup {c}
  /\ UNCHANGED <<bodega, producto, peticion>>

\* A movement that annulled it is cancelled.
AnularSalida(c) ==
  /\ compra[c] # Nadie /\ compra[c].salidas > 0
  /\ AMano(compra[c].bodega)
  /\ Entra(compra[c].bodega)
  /\ compra' = [compra EXCEPT ![c].salidas = @ - 1, ![c].devueltas = @ + 1]
  /\ aparte' = aparte \cup {c}
  /\ UNCHANGED <<bodega, producto, peticion>>

PedirTransferencia(t, b, d) ==
  /\ b # d /\ bodega[b] = "ACTIVA" /\ bodega[d] = "ACTIVA"
  /\ Empieza(t, [que |-> "TRANSFIERE", bodega |-> b, destino |-> d], Cerradas({b, d}))
  /\ UNCHANGED <<bodega, producto, stock, relaciones, compra, aparte>>

Transferir(t) ==
  /\ t \in EnCurso("TRANSFIERE")
  /\ LET b == peticion[t].bodega
         d == peticion[t].destino
     IN  stock[b] > 0 /\ Mueve([stock EXCEPT ![b] = stock[b] - 1, ![d] = stock[d] + 1], {b, d})
  /\ Termina(t)
  /\ UNCHANGED <<bodega, producto, compra, solapadas, aparte>>

-----------------------------------------------------------------------------
(* The row of the product in a bodega, written by hand *)

PedirAsignacion(t, b) ==
  /\ Activas(b) = {} /\ producto /\ bodega[b] = "ACTIVA"
  /\ Empieza(t, [que |-> "ASIGNA", bodega |-> b], Cerradas({b}))
  /\ UNCHANGED <<bodega, producto, stock, relaciones, compra, aparte>>

LeerRelacion(t, b) ==
  /\ producto /\ bodega[b] = "ACTIVA"
  /\ \E i \in (IF Activas(b) = {} THEN {0} ELSE Activas(b)) :
       Empieza(t, [que |-> "FIJA", bodega |-> b, fila |-> i], Cerradas({b}))
  /\ UNCHANGED <<bodega, producto, stock, relaciones, compra, aparte>>

CrearFila(b, n) ==
  /\ Len(relaciones[b]) < MaxFilas
  /\ relaciones' = [relaciones EXCEPT ![b] = Append(@, Fila(n, TRUE))]

Asignar(t, n) ==
  /\ t \in EnCurso("ASIGNA")
  /\ CrearFila(peticion[t].bodega, n)
  /\ Termina(t)
  /\ UNCHANGED <<bodega, producto, stock, compra, solapadas, aparte>>

FijarCantidad(t, n) ==
  /\ t \in EnCurso("FIJA")
  /\ LET b == peticion[t].bodega
         i == peticion[t].fila
     IN  \/ i = 0 /\ CrearFila(b, n)
         \/ i # 0 /\ relaciones' = [relaciones EXCEPT ![b][i].cantidad = n, ![b][i].aMano = TRUE]
  /\ Termina(t)
  /\ UNCHANGED <<bodega, producto, stock, compra, solapadas, aparte>>

-----------------------------------------------------------------------------
(* Bodegas and the product come and go *)

CrearBodega(b) ==
  /\ bodega[b] = "NUEVA"
  /\ bodega' = [bodega EXCEPT ![b] = "ACTIVA"]
  /\ UNCHANGED <<producto, stock, relaciones, compra, peticion, solapadas, aparte>>

\* Faulty variant of SinUso: the products assigned without stock are not looked at.
SinUsoSinStock(b) == stock[b] = 0

SinUso(b) == Activas(b) = {} /\ stock[b] = 0

PedirBajaBodega(t, b) ==
  /\ bodega[b] = "ACTIVA" /\ SinUso(b)
  /\ Empieza(t, [que |-> "BAJA_BODEGA", bodega |-> b], {d \in {b} : Sobre(d) # {}})
  /\ UNCHANGED <<bodega, producto, stock, relaciones, compra, aparte>>

DarDeBajaBodega(t) ==
  /\ t \in EnCurso("BAJA_BODEGA")
  /\ bodega' = [bodega EXCEPT ![peticion[t].bodega] = "BAJA"]
  /\ Termina(t)
  /\ UNCHANGED <<producto, stock, relaciones, compra, solapadas, aparte>>

\* The catalog lock lets one deletion of the product run at a time.
PedirBajaProducto(t) ==
  /\ producto /\ EnCurso("BAJA_PRODUCTO") = {}
  /\ \A b \in Bodegas : stock[b] = 0
  /\ Empieza(t, [que |-> "BAJA_PRODUCTO"], {b \in Bodegas : Sobre(b) # {}})
  /\ UNCHANGED <<bodega, producto, stock, relaciones, compra, aparte>>

DarDeBajaProducto(t) ==
  /\ t \in EnCurso("BAJA_PRODUCTO")
  /\ producto' = FALSE
  /\ relaciones' = [b \in Bodegas |-> [i \in DOMAIN relaciones[b] |->
                      [relaciones[b][i] EXCEPT !.activa = FALSE]]]
  /\ Termina(t)
  /\ UNCHANGED <<bodega, stock, compra, solapadas, aparte>>

\* A check fails, the client gives up, or the connection is lost: nothing was written.
Abandonar(t) ==
  /\ peticion[t] # Nadie
  /\ Termina(t)
  /\ UNCHANGED <<bodega, producto, stock, relaciones, compra, solapadas, aparte>>

Next ==
  \/ \E t \in Peticiones :
       \/ \E c \in ComprasPosibles : PedirAnulacion(t, c) \/ \E b \in Bodegas : PedirCompra(t, c, b)
       \/ RegistrarCompra(t) \/ AnularCompra(t)
       \/ \E b, d \in Bodegas : PedirTransferencia(t, b, d)
       \/ Transferir(t)
       \/ \E b \in Bodegas : PedirAsignacion(t, b) \/ LeerRelacion(t, b) \/ PedirBajaBodega(t, b)
       \/ \E n \in 0..MaxStock : Asignar(t, n) \/ FijarCantidad(t, n)
       \/ DarDeBajaBodega(t) \/ PedirBajaProducto(t) \/ DarDeBajaProducto(t)
       \/ Abandonar(t)
  \/ \E b \in Bodegas : CrearBodega(b) \/ MoverAMano(b)
  \/ \E c \in ComprasPosibles : AnularIngreso(c) \/ AnularSalida(c)

Spec == Init /\ [][Next]_vars

-----------------------------------------------------------------------------
(* Properties *)

TypeOK ==
  /\ bodega \in [Bodegas -> {"NUEVA", "ACTIVA", "BAJA"}]
  /\ producto \in BOOLEAN
  /\ stock \in [Bodegas -> 0..MaxStock]
  /\ relaciones \in [Bodegas -> Seq(Filas)]
  /\ \A b \in Bodegas : Len(relaciones[b]) <= MaxFilas
  /\ compra \in [ComprasPosibles -> Compras_ \cup {Nadie}]
  /\ peticion \in [Peticiones -> Pendientes \cup {Nadie}]
  /\ solapadas \subseteq Bodegas
  /\ aparte \subseteq ComprasPosibles

\* compra_service.registrar_compra and anular_compra, with the cancellation of the movements:
\* a purchase weighs once on the stock while it is REGISTRADA and was taken back exactly once
\* if it is ANULADA, unless two annulments crossed or somebody cancelled its movements by hand.
CompraUnaVez ==
  \A c \in ComprasPosibles : compra[c] # Nadie /\ c \notin aparte =>
    /\ compra[c].ingreso = "CONFIRMADO" /\ compra[c].devueltas = 0
    /\ compra[c].salidas = IF compra[c].estado = "ANULADA" THEN 1 ELSE 0

\* _sincronizar_producto_bodega_desde_stock: a row in force says what the bodega has of the
\* product, unless it was written by hand since the last movement; also when there are two.
RelacionDiceStock ==
  \A b \in Bodegas : \A i \in Activas(b) : relaciones[b][i].aMano \/ relaciones[b][i].cantidad = stock[b]

\* BodegaService.delete and ProductoService.delete: a deleted bodega has no stock and no product
\* assigned, and a deleted product is nowhere, unless a movement or an assignment crossed the
\* deletion or a movement came after it.
BajaLimpia ==
  \A b \in Bodegas \ solapadas : (bodega[b] = "BAJA" \/ ~producto) => Activas(b) = {} /\ stock[b] = 0
=============================================================================

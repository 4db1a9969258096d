------------------------------- MODULE Emision -------------------------------
(***************************************************************************)
(* Issuing sales: a draft is issued under a number of the series of its    *)
(* emission point, together with its stock output and its account.         *)
(*                                                                         *)
(* A request is cut where it reads without a lock or waits for one.  The   *)
(* counter of the series is created by the first request that needs it;    *)
(* whoever inserts it at the same time waits for the other transaction,    *)
(* so an absent row is locked like one that exists.                        *)
(*                                                                         *)
(* The route that registers a sale and issues it at once keeps the copy    *)
(* of the registration in its session: the row lock does not refresh it.   *)
(*                                                                         *)
(* Abstracted: one emission point and company, lines and taxes of a sale,  *)
(* the formatted number (its series is fixed), the amount of stock, the    *)
(* queue of the SRI (ColaSri) and the account after it is open (Cartera).  *)
(* What may refuse an emission there is a free choice.                     *)
(***************************************************************************)
EXTENDS Naturals, FiniteSets

CONSTANTS
  Peticiones,      \* request handlers, one database session each
  Ventas,
  Modalidad,       \* modalidad_emision of the point
  Inicial,         \* secuencial_actual of the point: its first number
  MaxSecuencial,   \* the largest number: 999999999 in the code
  Nuevos,          \* numbers an administrator may want the series to continue with
  Nadie

Tipos == {"ELECTRONICA", "NOTA_VENTA_FISICA"}

ASSUME EmisionSupuestos ==
  /\ Modalidad \in Tipos
  /\ MaxSecuencial \in Nat /\ Inicial \in 1..MaxSecuencial
  /\ Nuevos \subseteq 1..MaxSecuencial
  /\ Nadie \notin Peticiones \cup Ventas

VARIABLES
  venta,       \* the sales, committed; numero 0 is NULL
  contador,    \* last number issued, and whether the row exists
  cxc,         \* sales with an account receivable
  salidas,     \* confirmed stock outputs of each sale
  cVenta,      \* holder of the row lock of each sale
  cContador,   \* ... of the counter
  req,         \* the requests
  obsoletas,   \* history: sales issued or edited from a copy another commit had outdated
  primero,     \* history: the first number of the series
  tardio       \* history: the counter was adjusted after the series had been used

filas    == <<venta, contador, cxc, salidas>>
locks    == <<cVenta, cContador>>
historia == <<obsoletas, primero, tardio>>
vars     == <<venta, contador, cxc, salidas, cVenta, cContador, req, obsoletas, primero, tardio>>

Estados == {"NINGUNA", "BORRADOR", "EMITIDA", "ANULADA"}
Fases   == {"ocioso", "emitir", "salida", "numerar", "cerrar", "editar", "ajustar"}
Venta   == [estado : Estados, numero : 0..MaxSecuencial, tipo : Tipos, conPunto : BOOLEAN]

Usada == \E v \in Ventas : venta[v].numero > 0

Ninguna == [estado |-> "NINGUNA", numero |-> 0, tipo |-> Modalidad, conPunto |-> FALSE]

\* leida: the copy of the sale; ultimo: the counter read under its lock; dato: what an
\* edition or an adjustment asks for.
Reposo == [fase |-> "ocioso", venta |-> Nadie, leida |-> Ninguna, ultimo |-> 0,
           tipo |-> Modalidad, nuevo |-> 1]

Init ==
  /\ venta = [v \in Ventas |-> Ninguna]
  /\ contador = [existe |-> FALSE, ultimo |-> 0]
  /\ cxc = {}
  /\ salidas = [v \in Ventas |-> 0]
  /\ cVenta = [v \in Ventas |-> Nadie]
  /\ cContador = Nadie
  /\ req = [t \in Peticiones |-> Reposo]
  /\ obsoletas = {}
  /\ primero = Inicial
  /\ tardio = FALSE

-----------------------------------------------------------------------------
(* Steps shared by every request *)

Terminar(t) ==
  /\ cVenta' = [v \in Ventas |-> IF cVenta[v] = t THEN Nadie ELSE cVenta[v]]
  /\ cContador' = IF cContador = t THEN Nadie ELSE cContador
  /\ req' = [req EXCEPT ![t] = Reposo]

\* Faulty variant of Deshacer: the number taken is not given back.
DeshacerSinDevolver(t) ==
  /\ contador' = IF req[t].fase = "cerrar" THEN [existe |-> TRUE, ultimo |-> req[t].ultimo + 1]
                 ELSE contador
  /\ Terminar(t)
  /\ UNCHANGED <<venta, cxc, salidas, historia>>

Deshacer(t) == Terminar(t) /\ UNCHANGED <<filas, historia>>

-----------------------------------------------------------------------------
(* Drafts *)

\* registrar_venta: a draft takes no number.  A point is only accepted for its modality.
Registrar(t, v, tipo, conPunto) ==
  LET nueva == [estado |-> "BORRADOR", numero |-> 0, tipo |-> tipo, conPunto |-> conPunto]
  IN  /\ req[t].fase = "ocioso"
      /\ venta[v].estado = "NINGUNA"
      /\ conPunto => tipo = Modalidad
      /\ venta' = [venta EXCEPT ![v] = nueva]
      /\ \/ UNCHANGED req
         \/ req' = [req EXCEPT ![t] = [Reposo EXCEPT !.fase = "emitir", !.venta = v,
                                                     !.leida = nueva]]
      /\ UNCHANGED <<contador, cxc, salidas, locks, historia>>

\* actualizar_venta reads the sale, and later writes it.
LeerParaEditar(t, v, tipo) ==
  /\ req[t].fase = "ocioso"
  /\ venta[v].estado \in {"BORRADOR", "ANULADA"}
  /\ req' = [req EXCEPT ![t] = [Reposo EXCEPT !.fase = "editar", !.venta = v,
                                              !.leida = venta[v], !.tipo = tipo]]
  /\ UNCHANGED <<filas, locks, historia>>

Editar(t) ==
  LET v == req[t].venta
  IN  /\ req[t].fase = "editar"
      /\ cVenta[v] = Nadie
      /\ venta' = [venta EXCEPT ![v].tipo = IF req[t].tipo = req[t].leida.tipo THEN @ ELSE req[t].tipo]
      /\ obsoletas' = IF venta[v].estado = req[t].leida.estado THEN obsoletas
                      ELSE obsoletas \cup {v}
      /\ Terminar(t)
      /\ UNCHANGED <<contador, cxc, salidas, primero, tardio>>

-----------------------------------------------------------------------------
(* emitir_venta *)

\* _validar_punto_venta
PuntoValido(s) == IF s.conPunto THEN s.tipo = Modalidad ELSE s.tipo # "ELECTRONICA"

Emitible(s) == s.estado = "BORRADOR" /\ PuntoValido(s)

PedirEmision(t, v) ==
  /\ req[t].fase = "ocioso"
  /\ venta[v].estado # "NINGUNA"
  /\ req' = [req EXCEPT ![t] = [Reposo EXCEPT !.fase = "emitir", !.venta = v]]
  /\ UNCHANGED <<filas, locks, historia>>

\* The state is read under the lock, unless the session already had the sale.
BloquearVenta(t) ==
  LET v == req[t].venta
      leida == IF req[t].leida.estado = "NINGUNA" THEN venta[v] ELSE req[t].leida
  IN  /\ req[t].fase = "emitir"
      /\ cVenta[v] = Nadie
      /\ \/ /\ Emitible(leida)
            /\ cVenta' = [cVenta EXCEPT ![v] = t]
            /\ req' = [req EXCEPT ![t] = [@ EXCEPT !.fase = "salida", !.leida = leida]]
            /\ UNCHANGED <<filas, cContador, historia>>
         \/ ~Emitible(leida) /\ Deshacer(t)

\* Faulty variant of SacarStock: an existing account is not looked for.
SacarStockSinMirar(t) ==
  /\ req[t].fase = "salida"
  /\ \/ req' = [req EXCEPT ![t].fase = "numerar"] /\ UNCHANGED <<filas, locks, historia>>
     \/ Deshacer(t)

\* The stock may not be enough; a sale that already has an account is refused.
SacarStock(t) ==
  /\ req[t].fase = "salida"
  /\ \/ /\ req[t].venta \notin cxc
        /\ req' = [req EXCEPT ![t].fase = "numerar"]
        /\ UNCHANGED <<filas, locks, historia>>
     \/ Deshacer(t)

\* _get_or_create_locked_secuencial
Numerar(t) ==
  /\ req[t].fase = "numerar"
  /\ req[t].leida.conPunto => cContador = Nadie
  /\ cContador' = IF req[t].leida.conPunto THEN t ELSE cContador
  /\ req' = [req EXCEPT ![t] = [@ EXCEPT !.fase = "cerrar",
               !.ultimo = IF contador.existe THEN contador.ultimo ELSE Inicial - 1]]
  /\ UNCHANGED <<filas, cVenta, historia>>

\* _validar_secuencial_sri
CabeEnSerie(n) == n <= MaxSecuencial

\* uq_venta_empresa_punto_secuencial
NumeroLibre(v, n) == \A w \in Ventas \ {v} : venta[w].numero # n

Emitir(t) ==
  LET v == req[t].venta
      n == IF req[t].leida.conPunto THEN req[t].ultimo + 1 ELSE 0
      admite == CabeEnSerie(n) /\ (n > 0 => NumeroLibre(v, n))
  IN  /\ req[t].fase = "cerrar"
      /\ \/ /\ admite
            /\ venta' = [venta EXCEPT ![v] = [@ EXCEPT !.estado = "EMITIDA", !.numero = n]]
            /\ contador' = IF n > 0 THEN [existe |-> TRUE, ultimo |-> n] ELSE contador
            /\ cxc' = cxc \cup {v}
            /\ salidas' = [salidas EXCEPT ![v] = @ + 1]
            /\ obsoletas' = IF venta[v] = req[t].leida THEN obsoletas ELSE obsoletas \cup {v}
            /\ Terminar(t)
            /\ UNCHANGED <<primero, tardio>>
         \/ Deshacer(t)

\* anular_venta keeps the number and the account, which becomes ANULADA.
Anular(v) ==
  /\ cVenta[v] = Nadie
  /\ venta[v].estado = "EMITIDA"
  /\ venta' = [venta EXCEPT ![v].estado = "ANULADA"]
  /\ UNCHANGED <<contador, cxc, salidas, locks, req, historia>>

-----------------------------------------------------------------------------
(* ajustar_secuencial_manual: the series must be unused, which is read without a lock *)

VerificarSinUso(t, n) ==
  /\ req[t].fase = "ocioso"
  /\ ~Usada
  /\ req' = [req EXCEPT ![t] = [Reposo EXCEPT !.fase = "ajustar", !.nuevo = n]]
  /\ UNCHANGED <<filas, locks, historia>>

Ajustar(t) ==
  /\ req[t].fase = "ajustar"
  /\ cContador = Nadie
  /\ contador' = [existe |-> TRUE, ultimo |-> req[t].nuevo - 1]
  /\ primero' = IF Usada THEN primero ELSE req[t].nuevo
  /\ tardio' = (tardio \/ Usada)
  /\ Terminar(t)
  /\ UNCHANGED <<venta, cxc, salidas, obsoletas>>

-----------------------------------------------------------------------------
Avanzar(t) ==
  \/ BloquearVenta(t) \/ SacarStock(t) \/ Numerar(t) \/ Emitir(t) \/ Editar(t) \/ Ajustar(t)

Next ==
  \/ \E t \in Peticiones :
       \/ \E v \in Ventas :
            \/ PedirEmision(t, v)
            \/ \E tipo \in Tipos : \/ LeerParaEditar(t, v, tipo)
                                   \/ \E conPunto \in BOOLEAN : Registrar(t, v, tipo, conPunto)
       \/ \E n \in Nuevos : VerificarSinUso(t, n)
       \/ Avanzar(t)
  \/ \E v \in Ventas : Anular(v)

Spec == Init /\ [][Next]_vars

-----------------------------------------------------------------------------
(* Properties *)

Peticion == [fase : Fases, venta : Ventas \cup {Nadie}, leida : Venta,
             ultimo : 0..MaxSecuencial, tipo : Tipos, nuevo : 1..MaxSecuencial]

\* Every variable has its type: no number leaves the nine digits of the SRI.
TypeOK ==
  /\ venta \in [Ventas -> Venta]
  /\ contador \in [existe : BOOLEAN, ultimo : 0..MaxSecuencial]
  /\ cxc \in SUBSET Ventas
  /\ salidas \in [Ventas -> Nat]
  /\ cVenta \in [Ventas -> Peticiones \cup {Nadie}]
  /\ cContador \in Peticiones \cup {Nadie}
  /\ req \in [Peticiones -> Peticion]
  /\ obsoletas \in SUBSET Ventas
  /\ primero \in 1..MaxSecuencial
  /\ tardio \in BOOLEAN

\* Two sales never have the same number, not even after an adjustment that came late.
NumeroUnico ==
  \A v, w \in Ventas : venta[v].numero > 0 /\ venta[v].numero = venta[w].numero => v = w

\* "Concurrent emissions receive consecutive distinct numbers", "Failed emission does not
\* leave a gap": the numbers issued are those from the first to the counter, unless an
\* adjustment came late.
SinHuecos ==
  ~tardio /\ Usada =>
    {venta[v].numero : v \in {w \in Ventas : venta[w].numero > 0}} = primero..contador.ultimo

\* The numbers of the point are distinct and consecutive, whatever emissions fail.
SerieCorrecta == NumeroUnico /\ SinHuecos

\* A sale leaves the stock once, with its account and, if it has a point, its number: all
\* or nothing, although two requests may both believe it is still a draft.
UnaEmision ==
  \A v \in Ventas :
    LET emitida == venta[v].estado \in {"EMITIDA", "ANULADA"}
    IN  /\ salidas[v] = IF emitida THEN 1 ELSE 0
        /\ v \in cxc <=> emitida
        /\ venta[v].numero > 0 <=> emitida /\ venta[v].conPunto

\* Unless a request worked on an outdated copy, an issued sale has the modality of the
\* series that numbered it.
ModalidadFirme ==
  \A v \in Ventas \ obsoletas : venta[v].estado = "EMITIDA" => PuntoValido(venta[v])

\* An emission is whole, happens once, and by a series of the modality of the sale.
EmisionCorrecta == UnaEmision /\ ModalidadFirme

\* A number, once given, is never changed or taken away.
NumeroFijo == [][\A v \in Ventas : venta[v].numero > 0 => venta'[v].numero = venta[v].numero]_vars
=============================================================================

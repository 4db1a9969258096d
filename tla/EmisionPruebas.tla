--------------------------- MODULE EmisionPruebas ---------------------------
(***************************************************************************)
(* What Emision guarantees for every number of requests and sales and      *)
(* every series.                                                           *)
(***************************************************************************)
EXTENDS Emision, TLAPS

-----------------------------------------------------------------------------
(* The inductive invariant *)

EmitidaYa(v) == venta[v].estado \in {"EMITIDA", "ANULADA"}

\* The number the next emission of the series takes, less one.
Ultimo == IF contador.existe THEN contador.ultimo ELSE Inicial - 1

EnVenta   == {"salida", "numerar", "cerrar"}
SinCuenta == {"numerar", "cerrar"}

\* What a request that issues a sale holds and knows of it.
EmisionBien(t, r) ==
  /\ r.fase \in Fases \ {"ocioso", "ajustar"} =>
       r.venta \in Ventas /\ venta[r.venta].estado # "NINGUNA"
  /\ r.fase \in EnVenta => cVenta[r.venta] = t /\ Emitible(r.leida)
  /\ r.fase \in EnVenta \/ (r.fase = "emitir" /\ r.leida.estado # "NINGUNA")
       => r.leida.conPunto = venta[r.venta].conPunto
  /\ r.fase = "editar" => r.leida.estado \in {"BORRADOR", "ANULADA"}
  /\ r.fase \in SinCuenta => r.venta \notin cxc
  /\ r.fase = "cerrar" /\ r.leida.conPunto => cContador = t /\ r.ultimo = Ultimo

\* The series begins at primero, and nothing has a number before its counter exists.
SerieBien ==
  /\ ~contador.existe => ~Usada /\ (~tardio => primero = Inicial)
  /\ ~tardio /\ ~Usada => Ultimo = primero - 1

Inv ==
  /\ TypeOK
  /\ \A t \in Peticiones : EmisionBien(t, req[t])
  /\ UnaEmision
  /\ NumeroUnico
  /\ SerieBien
  /\ SinHuecos
  /\ ModalidadFirme
-----------------------------------------------------------------------------
(* Lemmas *)

\* A request at rest is well formed.
LEMMA ReposoTipo == Reposo \in Peticion
<1>1. Ninguna \in Venta
  BY EmisionSupuestos DEF Ninguna, Venta, Estados
<1> QED BY <1>1, EmisionSupuestos DEF Reposo, Peticion, Fases

\* The initial state is consistent.
LEMMA InicioBien == Init => Inv
<1> SUFFICES ASSUME Init PROVE Inv
  OBVIOUS
<1> USE EmisionSupuestos
<1>1. TypeOK
  <2>1. Ninguna \in Venta
    BY DEF Ninguna, Venta, Estados
  <2>2. /\ req \in [Peticiones -> Peticion]
        /\ primero \in 1..MaxSecuencial /\ contador \in [existe : BOOLEAN, ultimo : 0..MaxSecuencial]
    BY ReposoTipo DEF Init
  <2> QED BY <2>1, <2>2 DEF Init, TypeOK, Peticion
<1>2. ASSUME NEW t \in Peticiones PROVE EmisionBien(t, req[t])
  BY DEF Init, EmisionBien, Reposo, EnVenta, SinCuenta, Fases
<1>3. UnaEmision /\ NumeroUnico /\ ModalidadFirme
  BY DEF Init, UnaEmision, NumeroUnico, ModalidadFirme, Ninguna
<1>4. SerieBien /\ SinHuecos
  BY DEF Init, SerieBien, SinHuecos, Usada, Ultimo, Ninguna
<1> QED BY <1>1, <1>2, <1>3, <1>4 DEF Inv

\* What a request holds and knows stays true while the others respect its locks.
LEMMA SigueBien ==
  ASSUME Inv, NEW u \in Peticiones, req'[u] = req[u],
         \A v \in Ventas : cVenta[v] = u => cVenta'[v] = u,
         cContador = u => cContador' = u /\ Ultimo' = Ultimo,
         \A v \in Ventas : venta[v].estado # "NINGUNA" =>
           venta'[v].estado # "NINGUNA" /\ venta'[v].conPunto = venta[v].conPunto,
         \A v \in Ventas : cVenta[v] = u /\ v \in cxc' => v \in cxc
  PROVE  EmisionBien(u, req[u])'
<1>1. EmisionBien(u, req[u]) /\ req[u].fase \in Fases
  BY DEF Inv, TypeOK, Peticion
<1>2. EnVenta \subseteq Fases \ {"ocioso", "ajustar"} /\ SinCuenta \subseteq EnVenta
  BY DEF EnVenta, SinCuenta, Fases
<1> QED BY <1>1, <1>2 DEF EmisionBien, Fases

\* A request at rest has nothing to keep.
LEMMA ReposoBien == ASSUME NEW t PROVE EmisionBien(t, Reposo)
  BY DEF EmisionBien, Reposo, EnVenta, SinCuenta

\* The end of a transaction: only the locks and the request of t change.
LEMMA PasoTerminar ==
  ASSUME TypeOK, NEW t \in Peticiones, Terminar(t)
  PROVE  /\ cVenta' \in [Ventas -> Peticiones \cup {Nadie}]
         /\ cContador' \in Peticiones \cup {Nadie}
         /\ req' \in [Peticiones -> Peticion]
         /\ req'[t] = Reposo
         /\ \A u \in Peticiones \ {t} :
              /\ req'[u] = req[u]
              /\ \A v \in Ventas : cVenta[v] = u => cVenta'[v] = u
              /\ cContador = u => cContador' = u
BY ReposoTipo DEF Terminar, TypeOK

\* A step that changes no row keeps what is said of the rows.
LEMMA FilasQuietas ==
  ASSUME Inv, UNCHANGED <<filas, historia>>
  PROVE  (UnaEmision /\ NumeroUnico /\ SerieBien /\ SinHuecos /\ ModalidadFirme)'
  BY DEF Inv, filas, historia, UnaEmision, NumeroUnico, SerieBien, SinHuecos, ModalidadFirme,
         Usada, Ultimo, PuntoValido

\* A request is refused, or fails: nothing happened.
LEMMA PasoDeshacer ==
  ASSUME Inv, NEW t \in Peticiones, Deshacer(t)
  PROVE  Inv'
<1>1. Terminar(t) /\ UNCHANGED <<venta, contador, cxc, salidas, obsoletas, primero, tardio>>
  BY DEF Deshacer, filas, historia
<1>2. TypeOK'
  BY <1>1, PasoTerminar DEF Inv, TypeOK
<1>3. ASSUME NEW u \in Peticiones PROVE EmisionBien(u, req[u])'
  <2>1. CASE u = t
    BY <2>1, <1>1, PasoTerminar, ReposoBien DEF Inv, EmisionBien, Reposo, EnVenta, SinCuenta
  <2>2. CASE u # t
    BY <2>2, <1>1, PasoTerminar, SigueBien DEF Inv, Ultimo
  <2> QED BY <2>1, <2>2
<1> QED BY <1>1, <1>2, <1>3, FilasQuietas DEF Inv, filas, historia

\* A step that changes only the request of t, and may give it a lock nobody had.
LEMMA PasoPropio ==
  ASSUME Inv, NEW t \in Peticiones, NEW r,
         r \in Peticion,
         req' = [req EXCEPT ![t] = r],
         cVenta' = cVenta \/ \E v \in Ventas : cVenta[v] = Nadie /\ cVenta' = [cVenta EXCEPT ![v] = t],
         cContador' = cContador \/ (cContador = Nadie /\ cContador' = t),
         UNCHANGED <<filas, historia>>,
         EmisionBien(t, req[t])'
  PROVE  Inv'
<1>1. TypeOK'
  BY DEF Inv, TypeOK, filas, historia
<1>2. ASSUME NEW u \in Peticiones, u # t PROVE EmisionBien(u, req[u])'
  <2>1. Ultimo' = Ultimo
    BY DEF Ultimo, filas
  <2>2. u # Nadie /\ req'[u] = req[u]
    BY <1>2, EmisionSupuestos DEF Inv, TypeOK
  <2> QED BY <2>1, <2>2, SigueBien DEF filas, Inv, TypeOK
<1> QED BY <1>1, <1>2, FilasQuietas DEF Inv

\* A draft is registered, and perhaps issued in the same request.
LEMMA PasoRegistrar ==
  ASSUME Inv, NEW t \in Peticiones, NEW v \in Ventas, NEW tipo \in Tipos, NEW conPunto \in BOOLEAN,
         Registrar(t, v, tipo, conPunto)
  PROVE  Inv'
<1> DEFINE nueva == [estado |-> "BORRADOR", numero |-> 0, tipo |-> tipo, conPunto |-> conPunto]
           r == [Reposo EXCEPT !.fase = "emitir", !.venta = v, !.leida = nueva]
<1>1. /\ req[t].fase = "ocioso" /\ venta[v].estado = "NINGUNA"
      /\ venta' = [venta EXCEPT ![v] = nueva]
      /\ req' = req \/ req' = [req EXCEPT ![t] = r]
      /\ UNCHANGED <<contador, cxc, salidas, cVenta, cContador, obsoletas, primero, tardio>>
  BY DEF Registrar, locks, historia
<1>2. nueva \in Venta
  BY EmisionSupuestos DEF Venta, Estados
<1>3. r \in Peticion
  BY <1>2, ReposoTipo DEF Peticion, Fases
<1> HIDE DEF r
<1>4. TypeOK'
  BY <1>1, <1>2, <1>3 DEF Inv, TypeOK
<1>5. ASSUME NEW u \in Peticiones PROVE EmisionBien(u, req[u])'
  <2>1. CASE req'[u] = req[u]
    BY <2>1, <1>1, SigueBien DEF Inv, TypeOK, Ultimo
  <2>2. CASE u = t /\ req' = [req EXCEPT ![t] = r]
    <3>1. req'[t] = r /\ venta'[v] = nueva
      BY <2>2, <1>1 DEF Inv, TypeOK
    <3>2. r.fase = "emitir" /\ r.venta = v /\ r.leida = nueva
      BY DEF r, Reposo
    <3> QED BY <2>2, <3>1, <3>2 DEF EmisionBien, EnVenta, SinCuenta, Fases
  <2> QED BY <2>1, <2>2, <1>1 DEF Inv, TypeOK
<1>6. venta[v].numero = 0 /\ v \notin cxc /\ salidas[v] = 0
  BY <1>1 DEF Inv, TypeOK, UnaEmision, Venta
<1>7. \A w \in Ventas : venta'[w].numero = venta[w].numero
  BY <1>1, <1>6 DEF Inv, TypeOK
<1>8. UnaEmision' /\ NumeroUnico' /\ ModalidadFirme'
  BY <1>1, <1>6 DEF Inv, TypeOK, UnaEmision, NumeroUnico, ModalidadFirme, PuntoValido
<1>9. SerieBien' /\ SinHuecos'
  <2>1. Usada' <=> Usada
    BY <1>7 DEF Usada
  <2>2. {venta'[w].numero : w \in {x \in Ventas : venta'[x].numero > 0}}
          = {venta[w].numero : w \in {x \in Ventas : venta[x].numero > 0}}
    BY <1>7
  <2> QED BY <2>1, <2>2, <1>1 DEF Inv, SerieBien, SinHuecos, Ultimo
<1> QED BY <1>4, <1>5, <1>8, <1>9 DEF Inv

\* An edition, an emission or an adjustment begins.
LEMMA PasoEmpezar ==
  ASSUME Inv, NEW t \in Peticiones,
         \/ \E v \in Ventas, tipo \in Tipos : LeerParaEditar(t, v, tipo)
         \/ \E v \in Ventas : PedirEmision(t, v)
         \/ \E n \in Nuevos : VerificarSinUso(t, n)
  PROVE  Inv'
<1>1. CASE \E v \in Ventas, tipo \in Tipos : LeerParaEditar(t, v, tipo)
  <2>1. PICK v \in Ventas, tipo \in Tipos : LeerParaEditar(t, v, tipo)
    BY <1>1
  <2> DEFINE r == [Reposo EXCEPT !.fase = "editar", !.venta = v, !.leida = venta[v], !.tipo = tipo]
  <2>2. r \in Peticion
    BY ReposoTipo DEF Inv, TypeOK, Peticion, Fases
  <2>3. /\ venta[v].estado \in {"BORRADOR", "ANULADA"} /\ req' = [req EXCEPT ![t] = r]
        /\ UNCHANGED <<filas, locks, historia>>
    BY <2>1 DEF LeerParaEditar
  <2>4. r.fase = "editar" /\ r.venta = v /\ r.leida = venta[v]
    BY DEF Reposo
  <2> HIDE DEF r
  <2>5. req'[t] = r
    BY <2>3 DEF Inv, TypeOK
  <2>6. EmisionBien(t, req[t])'
    BY <2>3, <2>4, <2>5 DEF EmisionBien, EnVenta, SinCuenta, filas
  <2> QED BY <2>2, <2>3, <2>6, PasoPropio DEF locks
<1>2. CASE \E v \in Ventas : PedirEmision(t, v)
  <2>1. PICK v \in Ventas : PedirEmision(t, v)
    BY <1>2
  <2> DEFINE r == [Reposo EXCEPT !.fase = "emitir", !.venta = v]
  <2>2. r \in Peticion
    BY ReposoTipo DEF Peticion, Fases
  <2>3. /\ venta[v].estado # "NINGUNA" /\ req' = [req EXCEPT ![t] = r]
        /\ UNCHANGED <<filas, locks, historia>>
    BY <2>1 DEF PedirEmision
  <2>4. r.fase = "emitir" /\ r.venta = v /\ r.leida.estado = "NINGUNA"
    BY DEF Reposo, Ninguna
  <2> HIDE DEF r
  <2>5. req'[t] = r
    BY <2>3 DEF Inv, TypeOK
  <2>6. EmisionBien(t, req[t])'
    BY <2>3, <2>4, <2>5 DEF EmisionBien, EnVenta, SinCuenta, filas
  <2> QED BY <2>2, <2>3, <2>6, PasoPropio DEF locks
<1>3. CASE \E n \in Nuevos : VerificarSinUso(t, n)
  <2>1. PICK n \in Nuevos : VerificarSinUso(t, n)
    BY <1>3
  <2> DEFINE r == [Reposo EXCEPT !.fase = "ajustar", !.nuevo = n]
  <2>2. r \in Peticion
    BY ReposoTipo, EmisionSupuestos DEF Peticion, Fases
  <2>3. req' = [req EXCEPT ![t] = r] /\ UNCHANGED <<filas, locks, historia>>
    BY <2>1 DEF VerificarSinUso
  <2>4. r.fase = "ajustar"
    BY DEF Reposo
  <2> HIDE DEF r
  <2>5. req'[t] = r
    BY <2>3 DEF Inv, TypeOK
  <2>6. EmisionBien(t, req[t])'
    BY <2>3, <2>4, <2>5 DEF EmisionBien, EnVenta, SinCuenta, filas
  <2> QED BY <2>2, <2>3, <2>6, PasoPropio DEF locks
<1> QED BY <1>1, <1>2, <1>3

\* The sale is locked and its state checked.
LEMMA PasoBloquearVenta ==
  ASSUME Inv, NEW t \in Peticiones, BloquearVenta(t)
  PROVE  Inv'
<1> DEFINE v == req[t].venta
           leida == IF req[t].leida.estado = "NINGUNA" THEN venta[v] ELSE req[t].leida
           r == [req[t] EXCEPT !.fase = "salida", !.leida = leida]
<1>1. CASE Deshacer(t)
  BY <1>1, PasoDeshacer
<1>2. CASE /\ req[t].fase = "emitir" /\ cVenta[v] = Nadie /\ Emitible(leida)
           /\ cVenta' = [cVenta EXCEPT ![v] = t] /\ req' = [req EXCEPT ![t] = r]
           /\ UNCHANGED <<filas, cContador, historia>>
  <2>1. v \in Ventas /\ venta[v].estado # "NINGUNA" /\ leida.conPunto = venta[v].conPunto
    BY <1>2 DEF Inv, EmisionBien, Fases
  <2>2. r \in Peticion /\ r.fase = "salida" /\ r.venta = v /\ r.leida = leida
    BY <2>1 DEF Inv, TypeOK, Peticion, Fases
  <2>3. req'[t] = r /\ cVenta'[v] = t
    BY <1>2, <2>1 DEF Inv, TypeOK
  <2> HIDE DEF r, leida
  <2>4. EmisionBien(t, req[t])'
    BY <1>2, <2>1, <2>2, <2>3 DEF EmisionBien, EnVenta, SinCuenta, filas, Emitible, PuntoValido
  <2> HIDE DEF v
  <2> QED BY <1>2, <2>1, <2>2, <2>4, PasoPropio
<1> QED BY <1>1, <1>2 DEF BloquearVenta

\* The stock goes out, unless the sale has an account already.
LEMMA PasoSacarStock ==
  ASSUME Inv, NEW t \in Peticiones, SacarStock(t)
  PROVE  Inv'
<1> DEFINE r == [req[t] EXCEPT !.fase = "numerar"]
<1>1. CASE Deshacer(t)
  BY <1>1, PasoDeshacer
<1>2. CASE /\ req[t].fase = "salida" /\ req[t].venta \notin cxc
           /\ req' = [req EXCEPT ![t].fase = "numerar"] /\ UNCHANGED <<filas, locks, historia>>
  <2>1. r \in Peticion /\ r.fase = "numerar" /\ r.venta = req[t].venta /\ r.leida = req[t].leida
    BY DEF Inv, TypeOK, Peticion, Fases
  <2>2. req' = [req EXCEPT ![t] = r] /\ req'[t] = r
    BY <1>2 DEF Inv, TypeOK
  <2>3. EmisionBien(t, req[t])
    BY DEF Inv
  <2> HIDE DEF r
  <2>4. EmisionBien(t, req[t])'
    BY <1>2, <2>1, <2>2, <2>3 DEF EmisionBien, EnVenta, SinCuenta, filas, locks, Fases
  <2> QED BY <1>2, <2>1, <2>2, <2>4, PasoPropio DEF locks
<1> QED BY <1>1, <1>2 DEF SacarStock

\* The counter is locked and read.
LEMMA PasoNumerar ==
  ASSUME Inv, NEW t \in Peticiones, Numerar(t)
  PROVE  Inv'
<1> DEFINE r == [req[t] EXCEPT !.fase = "cerrar", !.ultimo = Ultimo]
<1>1. Ultimo \in 0..MaxSecuencial
  BY EmisionSupuestos DEF Ultimo, Inv, TypeOK
<1>2. r \in Peticion /\ r.fase = "cerrar" /\ r.venta = req[t].venta /\ r.leida = req[t].leida
      /\ r.ultimo = Ultimo
  BY <1>1 DEF Inv, TypeOK, Peticion, Fases
<1>3. req' = [req EXCEPT ![t] = r] /\ UNCHANGED <<filas, cVenta, historia>>
  BY DEF Numerar, Ultimo
<1>4. /\ req[t].leida.conPunto => cContador = Nadie /\ cContador' = t
      /\ ~req[t].leida.conPunto => cContador' = cContador
  BY DEF Numerar
<1>5. req[t].fase = "numerar" /\ EmisionBien(t, req[t])
  BY DEF Numerar, Inv
<1>6. Ultimo' = Ultimo
  BY <1>3 DEF Ultimo, filas
<1>7. req'[t] = r
  BY <1>3 DEF Inv, TypeOK
<1> HIDE DEF r
<1>8. EmisionBien(t, req[t])'
  BY <1>2, <1>3, <1>4, <1>5, <1>6, <1>7 DEF EmisionBien, EnVenta, SinCuenta, filas, Fases
<1>9. req[t].leida.conPunto \in BOOLEAN
  BY DEF Inv, TypeOK, Peticion, Venta
<1> QED BY <1>2, <1>3, <1>4, <1>8, <1>9, PasoPropio

\* A draft is edited; what another transaction did meanwhile stays, except the modality.
LEMMA PasoEditar ==
  ASSUME Inv, NEW t \in Peticiones, Editar(t)
  PROVE  Inv'
<1> DEFINE v == req[t].venta
           tipo == IF req[t].tipo = req[t].leida.tipo THEN venta[v].tipo ELSE req[t].tipo
<1>1. /\ req[t].fase = "editar"
      /\ venta' = [venta EXCEPT ![v].tipo = tipo]
      /\ obsoletas' = IF venta[v].estado = req[t].leida.estado THEN obsoletas
                      ELSE obsoletas \cup {v}
      /\ Terminar(t)
      /\ UNCHANGED <<contador, cxc, salidas, primero, tardio>>
  BY DEF Editar
<1>2. /\ v \in Ventas /\ venta[v].estado # "NINGUNA"
      /\ req[t].leida.estado \in {"BORRADOR", "ANULADA"}
  BY <1>1 DEF Inv, EmisionBien, Fases
<1>3. tipo \in Tipos
  BY <1>2 DEF Inv, TypeOK, Peticion, Venta
<1> HIDE DEF tipo, v
<1>4. \A w \in Ventas : /\ venta'[w].estado = venta[w].estado
                        /\ venta'[w].numero = venta[w].numero
                        /\ venta'[w].conPunto = venta[w].conPunto
                        /\ w # v => venta'[w] = venta[w]
  BY <1>1, <1>2 DEF Inv, TypeOK, Venta
<1>5. TypeOK'
  <2>1. venta' \in [Ventas -> Venta]
    BY <1>1, <1>2, <1>3 DEF Inv, TypeOK, Venta
  <2> QED BY <1>1, <1>2, <2>1, PasoTerminar DEF Inv, TypeOK
<1>6. ASSUME NEW u \in Peticiones PROVE EmisionBien(u, req[u])'
  <2>1. CASE u = t
    BY <2>1, <1>1, PasoTerminar, ReposoBien DEF Inv, EmisionBien, Reposo, EnVenta, SinCuenta
  <2>2. CASE u # t
    BY <2>2, <1>1, <1>4, PasoTerminar, SigueBien DEF Inv, Ultimo
  <2> QED BY <2>1, <2>2
<1>7. UnaEmision' /\ NumeroUnico'
  BY <1>1, <1>4 DEF Inv, UnaEmision, NumeroUnico
<1>8. ModalidadFirme'
  BY <1>1, <1>2, <1>4 DEF Inv, ModalidadFirme, PuntoValido
<1>9. SerieBien' /\ SinHuecos'
  <2>1. Usada' <=> Usada
    BY <1>4 DEF Usada
  <2>2. {venta'[w].numero : w \in {x \in Ventas : venta'[x].numero > 0}}
          = {venta[w].numero : w \in {x \in Ventas : venta[x].numero > 0}}
    BY <1>4
  <2> QED BY <2>1, <2>2, <1>1 DEF Inv, SerieBien, SinHuecos, Ultimo
<1> QED BY <1>5, <1>6, <1>7, <1>8, <1>9 DEF Inv

\* A sale is cancelled with its number and its account.
LEMMA PasoAnular ==
  ASSUME Inv, NEW v \in Ventas, Anular(v)
  PROVE  Inv'
<1>1. /\ cVenta[v] = Nadie /\ venta[v].estado = "EMITIDA"
      /\ venta' = [venta EXCEPT ![v].estado = "ANULADA"]
      /\ UNCHANGED <<contador, cxc, salidas, cVenta, cContador, req, obsoletas, primero, tardio>>
  BY DEF Anular, locks, historia
<1>2. TypeOK'
  <2>1. venta' \in [Ventas -> Venta]
    BY <1>1 DEF Inv, TypeOK, Venta, Estados
  <2> QED BY <1>1, <2>1 DEF Inv, TypeOK
<1>3. \A w \in Ventas : /\ venta'[w].numero = venta[w].numero
                        /\ venta'[w].conPunto = venta[w].conPunto
                        /\ venta'[w].estado = IF w = v THEN "ANULADA" ELSE venta[w].estado
                        /\ venta'[w].tipo = venta[w].tipo
  BY <1>1 DEF Inv, TypeOK, Venta
<1>4. ASSUME NEW u \in Peticiones PROVE EmisionBien(u, req[u])'
  BY <1>1, <1>3, SigueBien DEF Ultimo
<1>5. UnaEmision' /\ NumeroUnico' /\ ModalidadFirme'
  BY <1>1, <1>3 DEF Inv, UnaEmision, NumeroUnico, ModalidadFirme, PuntoValido
<1>6. SerieBien' /\ SinHuecos'
  <2>1. Usada' <=> Usada
    BY <1>3 DEF Usada
  <2>2. {venta'[w].numero : w \in {x \in Ventas : venta'[x].numero > 0}}
          = {venta[w].numero : w \in {x \in Ventas : venta[x].numero > 0}}
    BY <1>3
  <2> QED BY <2>1, <2>2, <1>1 DEF Inv, SerieBien, SinHuecos, Ultimo
<1> QED BY <1>2, <1>4, <1>5, <1>6 DEF Inv

\* The counter moves to where an administrator wants it.
LEMMA PasoAjustar ==
  ASSUME Inv, NEW t \in Peticiones, Ajustar(t)
  PROVE  Inv'
<1> DEFINE n == req[t].nuevo
<1>1. /\ cContador = Nadie
      /\ contador' = [existe |-> TRUE, ultimo |-> n - 1]
      /\ primero' = IF Usada THEN primero ELSE n
      /\ tardio' = (tardio \/ Usada)
      /\ Terminar(t)
      /\ UNCHANGED <<venta, cxc, salidas, obsoletas>>
  BY DEF Ajustar
<1>2. n \in 1..MaxSecuencial /\ MaxSecuencial \in Nat
  BY EmisionSupuestos DEF Inv, TypeOK, Peticion
<1>3. TypeOK'
  <2>1. n - 1 \in 0..MaxSecuencial
    BY <1>2
  <2> HIDE DEF n
  <2> QED BY <1>1, <1>2, <2>1, PasoTerminar DEF Inv, TypeOK
<1>4. ASSUME NEW u \in Peticiones PROVE EmisionBien(u, req[u])'
  <2>1. CASE u = t
    BY <2>1, <1>1, PasoTerminar, ReposoBien DEF Inv, EmisionBien, Reposo, EnVenta, SinCuenta
  <2>2. CASE u # t
    <3>1. cContador # u
      BY <1>1, EmisionSupuestos
    <3> QED BY <2>2, <3>1, <1>1, PasoTerminar, SigueBien DEF Inv
  <2> QED BY <2>1, <2>2
<1>5. UnaEmision' /\ NumeroUnico' /\ ModalidadFirme'
  BY <1>1 DEF Inv, UnaEmision, NumeroUnico, ModalidadFirme, PuntoValido
<1>6. SerieBien' /\ SinHuecos'
  <2> HIDE DEF n
  <2>1. Usada' <=> Usada
    BY <1>1 DEF Usada
  <2>2. contador'.existe /\ contador'.ultimo = n - 1
    BY <1>1
  <2> QED BY <2>1, <2>2, <1>1, <1>2 DEF SerieBien, SinHuecos, Ultimo
<1> QED BY <1>3, <1>4, <1>5, <1>6 DEF Inv

\* The sale is issued under the number after the last one.
LEMMA PasoEmitir ==
  ASSUME Inv, NEW t \in Peticiones, Emitir(t)
  PROVE  Inv'
<1> DEFINE v == req[t].venta
           n == IF req[t].leida.conPunto THEN req[t].ultimo + 1 ELSE 0
           Numeros == {venta[w].numero : w \in {x \in Ventas : venta[x].numero > 0}}
<1>1. CASE Deshacer(t)
  BY <1>1, PasoDeshacer
<1>2. CASE /\ req[t].fase = "cerrar" /\ CabeEnSerie(n) /\ (n > 0 => NumeroLibre(v, n))
           /\ venta' = [venta EXCEPT ![v] = [@ EXCEPT !.estado = "EMITIDA", !.numero = n]]
           /\ contador' = IF n > 0 THEN [existe |-> TRUE, ultimo |-> n] ELSE contador
           /\ cxc' = cxc \cup {v}
           /\ salidas' = [salidas EXCEPT ![v] = @ + 1]
           /\ obsoletas' = IF venta[v] = req[t].leida THEN obsoletas ELSE obsoletas \cup {v}
           /\ Terminar(t)
           /\ UNCHANGED <<primero, tardio>>
  <2>1. /\ v \in Ventas /\ cVenta[v] = t /\ v \notin cxc /\ Emitible(req[t].leida)
        /\ req[t].leida.conPunto = venta[v].conPunto
        /\ req[t].leida.conPunto => cContador = t /\ req[t].ultimo = Ultimo
    BY <1>2 DEF Inv, EmisionBien, EnVenta, SinCuenta, Fases
  <2>2. salidas[v] = 0 /\ venta[v].numero = 0
    BY <2>1 DEF Inv, TypeOK, Venta, UnaEmision
  <2>3. /\ n \in 0..MaxSecuencial /\ venta[v].conPunto \in BOOLEAN
        /\ venta[v].conPunto => n = Ultimo + 1 /\ n > 0
        /\ ~venta[v].conPunto => n = 0
    <3>1. req[t].ultimo \in Nat /\ venta[v].conPunto \in BOOLEAN /\ MaxSecuencial \in Nat
      BY <2>1, EmisionSupuestos DEF Inv, TypeOK, Peticion, Venta
    <3> QED BY <1>2, <2>1, <3>1 DEF CabeEnSerie
  <2> HIDE DEF v, n
  <2>4. \A w \in Ventas : /\ venta'[w].conPunto = venta[w].conPunto
                          /\ venta'[w].tipo = venta[w].tipo
                          /\ w # v => venta'[w] = venta[w]
                          /\ venta'[v].estado = "EMITIDA" /\ venta'[v].numero = n
    BY <1>2, <2>1 DEF Inv, TypeOK, Venta
  <2>5. TypeOK'
    <3> DEFINE nueva == [venta[v] EXCEPT !.estado = "EMITIDA", !.numero = n]
    <3>0. nueva \in Venta
      <4>1. venta[v] \in Venta
        BY <2>1 DEF Inv, TypeOK
      <4>2. n \in 0..MaxSecuencial
        BY <2>3
      <4> QED BY <4>1, <4>2 DEF Venta, Estados
    <3>1. venta' \in [Ventas -> Venta]
      BY <1>2, <2>1, <3>0 DEF Inv, TypeOK
    <3>2. contador' \in [existe : BOOLEAN, ultimo : 0..MaxSecuencial]
      BY <1>2, <2>3 DEF Inv, TypeOK
    <3> QED BY <1>2, <2>1, <3>1, <3>2, PasoTerminar DEF Inv, TypeOK
  <2>6. ASSUME NEW u \in Peticiones PROVE EmisionBien(u, req[u])'
    <3>1. CASE u = t
      BY <3>1, <1>2, PasoTerminar, ReposoBien DEF Inv, EmisionBien, Reposo, EnVenta, SinCuenta
    <3>2. CASE u # t
      <4>1. cContador = u => Ultimo' = Ultimo
        BY <3>2, <1>2, <2>1, <2>3 DEF Ultimo
      <4>2. \A w \in Ventas : cVenta[w] = u /\ w \in cxc' => w \in cxc
        BY <3>2, <1>2, <2>1
      <4>3. \A w \in Ventas : venta[w].estado # "NINGUNA" =>
               venta'[w].estado # "NINGUNA" /\ venta'[w].conPunto = venta[w].conPunto
        BY <2>4
      <4> QED BY <3>2, <1>2, <4>1, <4>2, <4>3, PasoTerminar, SigueBien DEF Inv
    <3> QED BY <3>1, <3>2
  <2>7. UnaEmision'
    BY <1>2, <2>1, <2>2, <2>3, <2>4 DEF Inv, TypeOK, UnaEmision
  <2>8. NumeroUnico'
    BY <1>2, <2>1, <2>4 DEF Inv, NumeroUnico, NumeroLibre
  <2>9. ModalidadFirme'
    BY <1>2, <2>1, <2>4 DEF Inv, ModalidadFirme, Emitible, PuntoValido
  <2>10. CASE ~venta[v].conPunto
    <3>1. \A w \in Ventas : venta'[w].numero = venta[w].numero
      BY <2>2, <2>3, <2>4, <2>10
    <3>2. contador' = contador
      BY <1>2, <2>3, <2>10
    <3>3. Usada' <=> Usada
      BY <3>1 DEF Usada
    <3>4. Numeros' = Numeros
      BY <3>1
    <3>5. SerieBien' /\ SinHuecos'
      BY <3>2, <3>3, <3>4, <1>2 DEF Inv, SerieBien, SinHuecos, Ultimo
    <3> QED BY <2>5, <2>6, <2>7, <2>8, <2>9, <3>5 DEF Inv
  <2>11. CASE venta[v].conPunto
    <3>1. contador'.existe /\ contador'.ultimo = n /\ n = Ultimo + 1 /\ n > 0
      BY <1>2, <2>3, <2>11
    <3>2. Usada'
      BY <2>1, <2>4, <3>1 DEF Usada
    <3>3. Numeros' = Numeros \cup {n}
      BY <2>1, <2>2, <2>4, <3>1
    <3>4. ~tardio => Numeros' = primero..n
      <4>1. SUFFICES ASSUME ~tardio PROVE Numeros' = primero..n
        OBVIOUS
      <4>2. CASE Usada
        <5>1. Numeros = primero..contador.ultimo /\ contador.existe
          BY <4>1, <4>2 DEF Inv, SinHuecos, SerieBien
        <5>2. n = contador.ultimo + 1 /\ contador.ultimo \in Nat /\ primero \in Nat
          BY <5>1, <3>1 DEF Ultimo, Inv, TypeOK
        <5>3. Numeros # {}
          BY <4>2 DEF Usada
        <5> HIDE DEF Numeros
        <5>4. primero <= contador.ultimo
          BY <5>1, <5>2, <5>3
        <5> QED BY <3>3, <5>1, <5>2, <5>4
      <4>3. CASE ~Usada
        <5>1. Numeros = {}
          BY <4>3 DEF Usada
        <5>2. n = primero /\ primero \in Nat
          BY <4>1, <4>3, <3>1 DEF Inv, TypeOK, SerieBien
        <5> HIDE DEF Numeros
        <5> QED BY <3>3, <5>1, <5>2
      <4> QED BY <4>2, <4>3
    <3>5. SerieBien' /\ SinHuecos'
      BY <3>1, <3>2, <3>4, <1>2 DEF SerieBien, SinHuecos
    <3> QED BY <2>5, <2>6, <2>7, <2>8, <2>9, <3>5 DEF Inv
  <2> QED BY <2>3, <2>10, <2>11
<1> QED BY <1>1, <1>2 DEF Emitir

\* Every step keeps the invariant.
LEMMA PasoBien == Inv /\ [Next]_vars => Inv'
<1> SUFFICES ASSUME Inv, [Next]_vars PROVE Inv'
  OBVIOUS
<1>1. CASE UNCHANGED vars
  <2>1. UNCHANGED <<filas, locks, req, historia>>
    BY <1>1 DEF vars, filas, locks, historia
  <2>2. ASSUME NEW u \in Peticiones PROVE EmisionBien(u, req[u])'
    BY <2>1, SigueBien DEF filas, locks, Ultimo
  <2>3. TypeOK'
    BY <2>1 DEF Inv, TypeOK, filas, locks, historia
  <2> QED BY <2>1, <2>2, <2>3, FilasQuietas DEF Inv
<1>2. ASSUME NEW t \in Peticiones, Avanzar(t) PROVE Inv'
  BY <1>2, PasoBloquearVenta, PasoSacarStock, PasoNumerar, PasoEmitir, PasoEditar, PasoAjustar
     DEF Avanzar
<1> QED BY <1>1, <1>2, PasoEmpezar, PasoRegistrar, PasoAnular DEF Next

-----------------------------------------------------------------------------
(* Theorems *)

\* What requests hold and know, and how numbers, counter and accounts relate, holds in
\* every reachable state.
THEOREM InvarianteInductivo == Spec => []Inv
<1> QED BY InicioBien, PasoBien, PTL DEF Spec

\* Every variable has its type: no number leaves the series.
THEOREM TiposCorrectos == Spec => []TypeOK
<1>1. Inv => TypeOK
  BY DEF Inv
<1> QED BY <1>1, InvarianteInductivo, PTL

\* emitir_venta never gives a number twice.
THEOREM NumerosUnicos == Spec => []NumeroUnico
<1>1. Inv => NumeroUnico
  BY DEF Inv
<1> QED BY <1>1, InvarianteInductivo, PTL

\* Whatever emissions fail, the numbers issued have no gap.
THEOREM SerieSinHuecos == Spec => []SinHuecos
<1>1. Inv => SinHuecos
  BY DEF Inv
<1> QED BY <1>1, InvarianteInductivo, PTL

\* A sale is issued at most once, with its stock output, its account and its number.
THEOREM EmisionUnica == Spec => []UnaEmision
<1>1. Inv => UnaEmision
  BY DEF Inv
<1> QED BY <1>1, InvarianteInductivo, PTL

\* A sale that no outdated copy touched has the modality of its series.
THEOREM ModalidadCorrecta == Spec => []ModalidadFirme
<1>1. Inv => ModalidadFirme
  BY DEF Inv
<1> QED BY <1>1, InvarianteInductivo, PTL

\* The numbers of the point are distinct and consecutive, for any requests and sales.
THEOREM SerieSiempreCorrecta == Spec => []SerieCorrecta
<1>1. NumeroUnico /\ SinHuecos => SerieCorrecta
  BY DEF SerieCorrecta
<1> QED BY <1>1, NumerosUnicos, SerieSinHuecos, PTL

\* An emission is whole, happens once, and has the modality of its series.
THEOREM EmisionSiempreCorrecta == Spec => []EmisionCorrecta
<1>1. UnaEmision /\ ModalidadFirme => EmisionCorrecta
  BY DEF EmisionCorrecta
<1> QED BY <1>1, EmisionUnica, ModalidadCorrecta, PTL

\* No step changes a number that has been given.
THEOREM NumerosFijos == Spec => NumeroFijo
<1>1. Inv /\ [Next]_vars =>
        [\A v \in Ventas : venta[v].numero > 0 => venta'[v].numero = venta[v].numero]_vars
  <2> SUFFICES ASSUME Inv, Next, NEW v \in Ventas, venta[v].numero > 0
               PROVE  venta'[v].numero = venta[v].numero
    OBVIOUS
  <2>1. ASSUME NEW t \in Peticiones, Emitir(t) PROVE venta'[v].numero = venta[v].numero
    <3>1. req[t].fase = "cerrar" => req[t].venta \in Ventas /\ req[t].venta \notin cxc
      BY DEF Inv, EmisionBien, SinCuenta, Fases
    <3>2. v \in cxc
      BY DEF Inv, UnaEmision
    <3> QED BY <2>1, <3>1, <3>2 DEF Emitir, Deshacer, filas, Inv, TypeOK
  <2>2. ASSUME NEW t \in Peticiones, NEW w \in Ventas, NEW tipo \in Tipos, NEW conPunto \in BOOLEAN,
               Registrar(t, w, tipo, conPunto)
        PROVE  venta'[v].numero = venta[v].numero
    <3>1. venta[w].estado = "NINGUNA" /\ v # w
      BY <2>2 DEF Registrar, Inv, UnaEmision
    <3> QED BY <2>2, <3>1 DEF Registrar, Inv, TypeOK
  <2>3. ASSUME NEW t \in Peticiones, Avanzar(t) PROVE venta'[v].numero = venta[v].numero
    BY <2>3, <2>1 DEF Avanzar, BloquearVenta, SacarStock, Numerar, Editar, Ajustar, Deshacer,
                      filas, Inv, TypeOK, Venta
  <2>4. ASSUME NEW w \in Ventas, Anular(w) PROVE venta'[v].numero = venta[v].numero
    BY <2>4 DEF Anular, Inv, TypeOK, Venta
  <2> QED BY <2>2, <2>3, <2>4 DEF Next, LeerParaEditar, PedirEmision, VerificarSinUso, filas
<1> QED BY <1>1, InvarianteInductivo, PTL DEF Spec, NumeroFijo
=============================================================================

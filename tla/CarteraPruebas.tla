--------------------------- MODULE CarteraPruebas ---------------------------
(***************************************************************************)
(* What Cartera guarantees for any accounts, withholdings, amounts and     *)
(* number of requests; and, in the second part, what Atributos does for    *)
(* any categories, products, definitions, snapshots and requests.  The     *)
(* parts share no state and no fact.                                       *)
(***************************************************************************)
EXTENDS Cartera, Atributos, FiniteSetTheorems, WellFoundedInduction, TLAPS

-----------------------------------------------------------------------------
(* The inductive invariant *)

\* What a request knows: the account it loaded, and the state of the withholding it has
\* locked.
PeticionBien(t, r) ==
  /\ r.fase \in {"pagar", "documento"} => r.cuenta \in Cuentas /\ r.copia \in Cuenta
  /\ r.fase \in {"aplicar", "revertir"} =>
       /\ r.ret \in Retenciones /\ r.cuenta = CuentaDe[r.ret] /\ r.cuenta \in CxC
       /\ cRet[r.ret] = t
       /\ retencion[r.ret] = IF r.fase = "aplicar" THEN "BORRADOR" ELSE "APLICADA"
  /\ r.fase = "anular" => r.cuenta \in CxC
  /\ r.fase = "emitir" => r.ret \in Retenciones /\ r.cuenta = CuentaDe[r.ret] /\ r.cuenta \in CxP

Inv ==
  /\ TypeOK
  /\ \A t \in Peticiones : PeticionBien(t, req[t])
  /\ SaldoCuadra
  /\ RetencionUnaVez
  /\ AnuladaSinCobros

-----------------------------------------------------------------------------
(* The account *)

CuentaInt == [retenido : Int, pagos : Int, saldo : Int, estado : EstadosCuenta]

\* What recalculating an account does to it.
LEMMA RecalculadaBien ==
  ASSUME NEW c \in Cuentas, NEW k \in CuentaInt, NEW movido \in Int
  PROVE  LET n == Recalculada(c, k, movido)
         IN  /\ n \in CuentaInt
             /\ n.retenido = k.retenido /\ n.pagos = k.pagos
             /\ n.saldo = Total[c] - k.retenido - k.pagos
             /\ n.estado # "ANULADA"
             /\ n.estado = "PAGADA" => n.saldo = 0
             /\ n.estado = "PARCIAL" => n.saldo # 0
<1> DEFINE s == Saldo(c, k)
           e == CASE s = 0 -> "PAGADA"
                  [] s # 0 /\ movido > 0 -> "PARCIAL"
                  [] OTHER -> "PENDIENTE"
           n == [k EXCEPT !.saldo = s, !.estado = e]
<1>1. s \in Int /\ s = Total[c] - k.retenido - k.pagos
  BY CarteraSupuestos DEF Saldo, CuentaInt
<1>2. e \in EstadosCuenta \ {"ANULADA"} /\ (e = "PAGADA" => s = 0) /\ (e = "PARCIAL" => s # 0)
  BY DEF EstadosCuenta
<1>3. n = Recalculada(c, k, movido)
  BY DEF Recalculada
<1> HIDE DEF s, e
<1>4. n \in CuentaInt /\ n.retenido = k.retenido /\ n.pagos = k.pagos /\ n.saldo = s /\ n.estado = e
  BY <1>1, <1>2 DEF CuentaInt
<1> QED BY <1>1, <1>2, <1>3, <1>4

\* An account once a withholding has been added to it, or taken from it.
LEMMA RetenidaBien ==
  ASSUME NEW c \in Cuentas, NEW k \in Cuenta, NEW importe \in Int
  PROVE  LET n == Retenida(c, k, importe)
         IN  /\ n \in CuentaInt
             /\ n.retenido = k.retenido + importe /\ n.pagos = k.pagos
             /\ n.saldo = Total[c] - n.retenido - n.pagos
             /\ n.estado # "ANULADA"
             /\ n.estado = "PAGADA" => n.saldo = 0
             /\ n.estado = "PARCIAL" => n.saldo # 0
<1> DEFINE r == k.retenido + importe
           j == [k EXCEPT !.retenido = r]
<1>1. r \in Int /\ k.pagos \in Nat
  BY DEF Cuenta
<1>2. j \in CuentaInt /\ j.retenido = r /\ j.pagos = k.pagos
  BY <1>1 DEF Cuenta, CuentaInt
<1>3. Retenida(c, k, importe) = Recalculada(c, j, r + k.pagos)
  BY DEF Retenida
<1>4. r + k.pagos \in Int
  BY <1>1
<1> HIDE DEF j
<1>5. LET n == Recalculada(c, j, r + k.pagos)
      IN  /\ n \in CuentaInt
          /\ n.retenido = j.retenido /\ n.pagos = j.pagos
          /\ n.saldo = Total[c] - j.retenido - j.pagos
          /\ n.estado # "ANULADA"
          /\ n.estado = "PAGADA" => n.saldo = 0
          /\ n.estado = "PARCIAL" => n.saldo # 0
  BY <1>2, <1>4, RecalculadaBien
<1> QED BY <1>2, <1>3, <1>5

\* An account once a payment has been added to it.
LEMMA PagadaBien ==
  ASSUME NEW c \in Cuentas, NEW k \in Cuenta, NEW monto \in Nat
  PROVE  LET n == Pagada(c, k, monto)
         IN  /\ n \in CuentaInt
             /\ n.retenido = k.retenido /\ n.pagos = k.pagos + monto
             /\ n.saldo = Total[c] - n.retenido - n.pagos
             /\ n.estado # "ANULADA"
             /\ n.estado = "PAGADA" => n.saldo = 0
             /\ n.estado = "PARCIAL" => n.saldo # 0
<1> DEFINE p == k.pagos + monto
           j == [k EXCEPT !.pagos = p]
           movido == IF c \in CxP THEN p ELSE p + k.retenido
<1>1. p \in Int /\ k.retenido \in Nat
  BY DEF Cuenta
<1>2. j \in CuentaInt /\ j.pagos = p /\ j.retenido = k.retenido
  BY <1>1 DEF Cuenta, CuentaInt
<1>3. Pagada(c, k, monto) = Recalculada(c, j, movido)
  BY DEF Pagada
<1>4. movido \in Int
  BY <1>1
<1> HIDE DEF j, movido
<1>5. LET n == Recalculada(c, j, movido)
      IN  /\ n \in CuentaInt
          /\ n.retenido = j.retenido /\ n.pagos = j.pagos
          /\ n.saldo = Total[c] - j.retenido - j.pagos
          /\ n.estado # "ANULADA"
          /\ n.estado = "PAGADA" => n.saldo = 0
          /\ n.estado = "PARCIAL" => n.saldo # 0
  BY <1>2, <1>4, RecalculadaBien
<1> QED BY <1>2, <1>3, <1>5

\* Writing the columns that changed gives a well-formed account, and the new one when the
\* copy was up to date.
LEMMA EscritaBien ==
  ASSUME NEW a \in Cuenta, NEW l \in Cuenta, NEW n \in Cuenta
  PROVE  Escrita(a, l, n) \in Cuenta /\ (a = l => Escrita(a, l, n) = n)
<1> DEFINE e == Escrita(a, l, n)
           cols == {"retenido", "pagos", "saldo", "estado"}
<1>1. DOMAIN a = cols /\ DOMAIN n = cols
  BY DEF Cuenta
<1>2. e = [col \in cols |-> IF n[col] = l[col] THEN a[col] ELSE n[col]]
  BY <1>1 DEF Escrita
<1>3. e \in Cuenta
  <2>1. /\ e.retenido \in {a.retenido, n.retenido} /\ e.pagos \in {a.pagos, n.pagos}
        /\ e.saldo \in {a.saldo, n.saldo} /\ e.estado \in {a.estado, n.estado}
    BY <1>2
  <2>2. e = [retenido |-> e.retenido, pagos |-> e.pagos, saldo |-> e.saldo, estado |-> e.estado]
    BY <1>2
  <2> HIDE DEF e
  <2> QED BY <2>1, <2>2 DEF Cuenta
<1>4. ASSUME a = l PROVE e = n
  BY <1>1, <1>2, <1>4 DEF Cuenta
<1> QED BY <1>3, <1>4

-----------------------------------------------------------------------------
(* Requests *)

\* A request at rest is well formed and knows nothing.
LEMMA ReposoBien == Reposo \in Peticion /\ \A t : PeticionBien(t, Reposo)
  BY DEF Reposo, Peticion, Fases, PeticionBien

\* The initial state is consistent.
LEMMA InicioBien == Init => Inv
<1> SUFFICES ASSUME Init PROVE Inv
  OBVIOUS
<1> USE CarteraSupuestos
<1>1. cuenta \in [Cuentas -> Cuenta]
  BY DEF Init, Abierta, Cuenta, EstadosCuenta
<1>2. TypeOK
  BY <1>1, ReposoBien DEF Init, TypeOK
<1>3. \A t \in Peticiones : PeticionBien(t, req[t])
  BY ReposoBien DEF Init
<1>4. SaldoCuadra /\ AnuladaSinCobros
  BY DEF Init, Abierta, SaldoCuadra, AnuladaSinCobros, Cuentas
<1>5. RetencionUnaVez
  BY DEF Init, RetencionUnaVez
<1> QED BY <1>2, <1>3, <1>4, <1>5 DEF Inv

\* What a request knows stays true while the withholding it has locked stays as it was.
LEMMA SigueBien ==
  ASSUME Inv, NEW u \in Peticiones, req'[u] = req[u],
         req[u].fase \in {"aplicar", "revertir"} =>
           cRet'[req[u].ret] = u /\ retencion'[req[u].ret] = retencion[req[u].ret]
  PROVE  PeticionBien(u, req[u])'
<1>1. PeticionBien(u, req[u])
  BY DEF Inv
<1> QED BY <1>1 DEF PeticionBien

\* The end of a transaction: only the locks and the request of t change.
LEMMA PasoTerminar ==
  ASSUME TypeOK, NEW t \in Peticiones, Terminar(t)
  PROVE  /\ cCuenta' \in [Cuentas -> Peticiones \cup {Nadie}]
         /\ cDoc' \in [Cuentas -> Peticiones \cup {Nadie}]
         /\ cRet' \in [Retenciones -> Peticiones \cup {Nadie}]
         /\ req' \in [Peticiones -> Peticion]
         /\ req'[t] = Reposo
         /\ \A u \in Peticiones \ {t} :
              /\ req'[u] = req[u]
              /\ \A r \in Retenciones : cRet[r] = u => cRet'[r] = u
  BY ReposoBien DEF Terminar, Soltar, TypeOK

\* The other requests after a transaction that changed at most one withholding, which they
\* had not locked.
LEMMA OtrasTrasTerminar ==
  ASSUME Inv, NEW t \in Peticiones, Terminar(t), NEW u \in Peticiones,
         \A r \in Retenciones : retencion'[r] = retencion[r] \/ cRet[r] = t \/ CuentaDe[r] \in CxP
  PROVE  PeticionBien(u, req[u])'
<1>1. CASE u = t
  BY <1>1, PasoTerminar, ReposoBien DEF Inv, PeticionBien, Reposo
<1>2. CASE u # t
  <2>1. req[u].fase \in {"aplicar", "revertir"} =>
          /\ req[u].ret \in Retenciones /\ cRet[req[u].ret] = u
          /\ CuentaDe[req[u].ret] \notin CxP
    BY CarteraSupuestos DEF Inv, PeticionBien
  <2> QED BY <1>2, <2>1, PasoTerminar, SigueBien DEF Inv
<1> QED BY <1>1, <1>2

\* A step that changes no row keeps what is said of the rows.
LEMMA FilasQuietas ==
  ASSUME Inv, UNCHANGED <<filas, historia>>
  PROVE  (SaldoCuadra /\ RetencionUnaVez /\ AnuladaSinCobros)'
  BY DEF Inv, filas, historia, SaldoCuadra, RetencionUnaVez, AnuladaSinCobros

\* A request is refused, or fails: nothing happened.
LEMMA PasoDeshacer ==
  ASSUME Inv, NEW t \in Peticiones, Deshacer(t)
  PROVE  Inv'
<1>1. Terminar(t) /\ UNCHANGED <<filas, historia>>
  BY DEF Deshacer
<1>2. TypeOK'
  BY <1>1, PasoTerminar DEF Inv, TypeOK, filas, historia
<1>3. ASSUME NEW u \in Peticiones PROVE PeticionBien(u, req[u])'
  BY <1>1, OtrasTrasTerminar DEF filas
<1> QED BY <1>1, <1>2, <1>3, FilasQuietas DEF Inv

\* A step that changes only the request of t and gives it at most a lock nobody had.
LEMMA PasoPropio ==
  ASSUME Inv, NEW t \in Peticiones, NEW p \in Peticion,
         req' = [req EXCEPT ![t] = p],
         \A c \in Cuentas : cCuenta'[c] = cCuenta[c] \/ cCuenta'[c] = t,
         \A c \in Cuentas : cDoc'[c] = cDoc[c] \/ cDoc'[c] = t,
         \A r \in Retenciones : cRet'[r] = cRet[r] \/ (cRet[r] = Nadie /\ cRet'[r] = t),
         cCuenta' = [c \in Cuentas |-> cCuenta'[c]], cDoc' = [c \in Cuentas |-> cDoc'[c]],
         cRet' = [r \in Retenciones |-> cRet'[r]],
         UNCHANGED <<filas, historia>>,
         PeticionBien(t, req[t])'
  PROVE  Inv'
<1>1. cCuenta' \in [Cuentas -> Peticiones \cup {Nadie}] /\ cDoc' \in [Cuentas -> Peticiones \cup {Nadie}]
  BY DEF Inv, TypeOK
<1>2. cRet' \in [Retenciones -> Peticiones \cup {Nadie}] /\ req' \in [Peticiones -> Peticion]
  BY DEF Inv, TypeOK
<1>3. TypeOK'
  BY <1>1, <1>2 DEF Inv, TypeOK, filas, historia
<1>4. ASSUME NEW u \in Peticiones PROVE PeticionBien(u, req[u])'
  <2>1. CASE u = t
    BY <2>1
  <2>2. CASE u # t
    <3>1. req'[u] = req[u] /\ u # Nadie
      BY <2>2, CarteraSupuestos DEF Inv, TypeOK
    <3>2. req[u].fase \in {"aplicar", "revertir"} => req[u].ret \in Retenciones /\ cRet[req[u].ret] = u
      BY DEF Inv, PeticionBien
    <3> QED BY <2>2, <3>1, <3>2, SigueBien DEF filas
  <2> QED BY <2>1, <2>2
<1> QED BY <1>3, <1>4, FilasQuietas DEF Inv

\* A request begins: a payment loads the account, the others lock or read their document.
LEMMA PasoEmpezar ==
  ASSUME Inv, NEW t \in Peticiones,
         \/ \E c \in Cuentas, monto \in Montos : PrecargarCuenta(t, c, monto)
         \/ \E r \in Retenciones : \/ BloquearRetencion(t, r, "aplicar", "BORRADOR")
                                   \/ BloquearRetencion(t, r, "revertir", "APLICADA")
                                   \/ LeerRetencion(t, r)
         \/ \E c \in CxC : BloquearVenta(t, c)
  PROVE  Inv'
<1>1. ASSUME NEW c \in Cuentas, NEW monto \in Montos, PrecargarCuenta(t, c, monto) PROVE Inv'
  <2> DEFINE p == [req[t] EXCEPT !.fase = "pagar", !.cuenta = c, !.monto = monto, !.copia = cuenta[c]]
  <2>1. cuenta[c] \in Cuenta /\ monto \in Nat /\ req[t] \in Peticion
    BY CarteraSupuestos DEF Inv, TypeOK
  <2>2. p \in Peticion /\ p.fase = "pagar" /\ p.cuenta = c /\ p.copia = cuenta[c]
    BY <2>1 DEF Peticion, Fases
  <2>3. req' = [req EXCEPT ![t] = p] /\ UNCHANGED <<filas, locks, historia>>
    BY <1>1 DEF PrecargarCuenta
  <2> HIDE DEF p
  <2>4. req'[t] = p
    BY <2>3 DEF Inv, TypeOK
  <2>5. PeticionBien(t, req[t])'
    BY <2>1, <2>2, <2>4 DEF PeticionBien
  <2> QED BY <2>2, <2>3, <2>5, PasoPropio DEF locks, Inv, TypeOK
<1>2. ASSUME NEW r \in Retenciones, NEW fase \in {"aplicar", "revertir"},
             NEW e \in {"BORRADOR", "APLICADA"}, fase = "aplicar" <=> e = "BORRADOR",
             BloquearRetencion(t, r, fase, e)
      PROVE  Inv'
  <2> DEFINE p == [req[t] EXCEPT !.fase = fase, !.ret = r, !.cuenta = CuentaDe[r]]
  <2>1. CuentaDe[r] \in CxC /\ CuentaDe[r] \in Cuentas /\ req[t] \in Peticion
    BY <1>2 DEF BloquearRetencion, Cuentas, Inv, TypeOK
  <2>2. p \in Peticion /\ p.fase = fase /\ p.ret = r /\ p.cuenta = CuentaDe[r]
    BY <2>1 DEF Peticion, Fases
  <2>3. /\ req' = [req EXCEPT ![t] = p] /\ cRet[r] = Nadie /\ cRet' = [cRet EXCEPT ![r] = t]
        /\ retencion[r] = e
        /\ UNCHANGED <<filas, cCuenta, cDoc, historia>>
    BY <1>2 DEF BloquearRetencion
  <2> HIDE DEF p
  <2>4. req'[t] = p
    BY <2>3 DEF Inv, TypeOK
  <2>5. PeticionBien(t, req[t])'
    BY <1>2, <2>1, <2>2, <2>3, <2>4 DEF PeticionBien, filas, Inv, TypeOK
  <2> QED BY <2>2, <2>3, <2>5, PasoPropio DEF Inv, TypeOK
<1>3. ASSUME NEW r \in Retenciones, LeerRetencion(t, r) PROVE Inv'
  <2> DEFINE p == [req[t] EXCEPT !.fase = "emitir", !.ret = r, !.cuenta = CuentaDe[r]]
  <2>1. CuentaDe[r] \in CxP /\ CuentaDe[r] \in Cuentas /\ req[t] \in Peticion
    BY <1>3 DEF LeerRetencion, Cuentas, Inv, TypeOK
  <2>2. p \in Peticion /\ p.fase = "emitir" /\ p.ret = r /\ p.cuenta = CuentaDe[r]
    BY <2>1 DEF Peticion, Fases
  <2>3. req' = [req EXCEPT ![t] = p] /\ UNCHANGED <<filas, locks, historia>>
    BY <1>3 DEF LeerRetencion
  <2> HIDE DEF p
  <2>4. req'[t] = p
    BY <2>3 DEF Inv, TypeOK
  <2>5. PeticionBien(t, req[t])'
    BY <2>1, <2>2, <2>4 DEF PeticionBien
  <2> QED BY <2>2, <2>3, <2>5, PasoPropio DEF locks, Inv, TypeOK
<1>4. ASSUME NEW c \in CxC, BloquearVenta(t, c) PROVE Inv'
  <2> DEFINE p == [req[t] EXCEPT !.fase = "anular", !.cuenta = c]
  <2>1. c \in Cuentas /\ req[t] \in Peticion
    BY DEF Cuentas, Inv, TypeOK
  <2>2. p \in Peticion /\ p.fase = "anular" /\ p.cuenta = c
    BY <2>1 DEF Peticion, Fases
  <2>3. /\ req' = [req EXCEPT ![t] = p] /\ cDoc' = [cDoc EXCEPT ![c] = t]
        /\ UNCHANGED <<filas, cCuenta, cRet, historia>>
    BY <1>4 DEF BloquearVenta
  <2> HIDE DEF p
  <2>4. req'[t] = p
    BY <2>3 DEF Inv, TypeOK
  <2>5. PeticionBien(t, req[t])'
    BY <2>2, <2>4 DEF PeticionBien
  <2> QED BY <2>1, <2>2, <2>3, <2>5, PasoPropio DEF Inv, TypeOK
<1> QED BY <1>1, <1>2, <1>3, <1>4

\* A payment waits for the account.
LEMMA PasoBloquearCuenta ==
  ASSUME Inv, NEW t \in Peticiones, BloquearCuenta(t)
  PROVE  Inv'
<1> DEFINE p == [req[t] EXCEPT !.fase = "documento"]
<1>1. req[t] \in Peticion /\ req[t].fase = "pagar" /\ PeticionBien(t, req[t])
  BY DEF BloquearCuenta, Inv, TypeOK
<1>2. p \in Peticion /\ p.fase = "documento" /\ p.cuenta = req[t].cuenta /\ p.copia = req[t].copia
  BY <1>1 DEF Peticion, Fases
<1>3. /\ req' = [req EXCEPT ![t] = p] /\ cCuenta' = [cCuenta EXCEPT ![req[t].cuenta] = t]
      /\ UNCHANGED <<filas, cDoc, cRet, historia>>
  BY DEF BloquearCuenta
<1> HIDE DEF p
<1>4. req'[t] = p
  BY <1>3 DEF Inv, TypeOK
<1>5. PeticionBien(t, req[t])' /\ req[t].cuenta \in Cuentas
  BY <1>1, <1>2, <1>4 DEF PeticionBien
<1> QED BY <1>2, <1>3, <1>5, PasoPropio DEF Inv, TypeOK

\* A payment is written from the copy it had.
LEMMA PasoRegistrarPago ==
  ASSUME Inv, NEW t \in Peticiones, RegistrarPago(t)
  PROVE  Inv'
<1> DEFINE c == req[t].cuenta
           leida == req[t].copia
           nueva == Pagada(c, leida, req[t].monto)
           escrita == Escrita(cuenta[c], leida, nueva)
<1>1. CASE Deshacer(t)
  BY <1>1, PasoDeshacer
<1>2. CASE /\ req[t].fase = "documento"
           /\ leida.estado # "ANULADA" /\ nueva.saldo >= 0
           /\ cuenta' = [cuenta EXCEPT ![c] = escrita]
           /\ recibido' = [recibido EXCEPT ![c] = @ + req[t].monto]
           /\ obsoletas' = IF leida = cuenta[c] THEN obsoletas ELSE obsoletas \cup {c}
           /\ Terminar(t)
           /\ UNCHANGED <<doc, retencion, efecto, directas>>
  <2>1. c \in Cuentas /\ leida \in Cuenta /\ req[t].monto \in Nat /\ cuenta[c] \in Cuenta
    BY <1>2 DEF Inv, TypeOK, PeticionBien, Peticion
  <2>2. /\ nueva \in Cuenta
        /\ nueva.retenido = leida.retenido /\ nueva.pagos = leida.pagos + req[t].monto
        /\ nueva.saldo = Total[c] - nueva.retenido - nueva.pagos
        /\ nueva.estado # "ANULADA"
        /\ nueva.estado = "PAGADA" => nueva.saldo = 0
        /\ nueva.estado = "PARCIAL" => nueva.saldo > 0
    <3> HIDE DEF c, leida
    <3>1. nueva \in CuentaInt /\ leida.retenido \in Nat /\ leida.pagos \in Nat
      BY <2>1, PagadaBien DEF Cuenta
    <3>2. /\ nueva.retenido = leida.retenido /\ nueva.pagos = leida.pagos + req[t].monto
          /\ nueva.saldo = Total[c] - nueva.retenido - nueva.pagos
          /\ nueva.estado # "ANULADA"
          /\ nueva.estado = "PAGADA" => nueva.saldo = 0
          /\ nueva.estado = "PARCIAL" => nueva.saldo # 0
      BY <2>1, PagadaBien
    <3> HIDE DEF nueva
    <3> QED BY <1>2, <2>1, <3>1, <3>2 DEF Cuenta, CuentaInt
  <2> HIDE DEF nueva, leida, c
  <2>3. escrita \in Cuenta /\ (leida = cuenta[c] => escrita = nueva)
    BY <2>1, <2>2, EscritaBien
  <2> HIDE DEF escrita
  <2>4. TypeOK'
    <3>1. cuenta' \in [Cuentas -> Cuenta] /\ recibido' \in [Cuentas -> Nat] /\ obsoletas' \in SUBSET Cuentas
      BY <1>2, <2>1, <2>3 DEF Inv, TypeOK
    <3> QED BY <1>2, <3>1, PasoTerminar DEF Inv, TypeOK
  <2>5. ASSUME NEW u \in Peticiones PROVE PeticionBien(u, req[u])'
    BY <1>2, OtrasTrasTerminar
  <2>6. \A d \in Cuentas \ obsoletas' :
           /\ d \notin obsoletas
           /\ d # c => cuenta'[d] = cuenta[d] /\ recibido'[d] = recibido[d]
           /\ d = c => /\ cuenta'[d] = nueva /\ recibido'[d] = recibido[d] + req[t].monto
                       /\ leida = cuenta[d]
    BY <1>2, <2>1, <2>3 DEF Inv, TypeOK
  <2>7. SaldoCuadra'
    BY <2>1, <2>2, <2>6 DEF Inv, SaldoCuadra
  <2>8. AnuladaSinCobros'
    BY <1>2, <2>2, <2>6 DEF Inv, AnuladaSinCobros, Cuentas
  <2>9. RetencionUnaVez'
    BY <1>2 DEF Inv, RetencionUnaVez
  <2> QED BY <2>4, <2>5, <2>7, <2>8, <2>9 DEF Inv
<1> QED BY <1>1, <1>2 DEF RegistrarPago

\* A withholding and its account change together.
LEMMA PasoAsentar ==
  ASSUME Inv, NEW t \in Peticiones, NEW c \in Cuentas, NEW r \in Retenciones, NEW k \in Cuenta,
         NEW e \in Recibidas \cup Emitidas, NEW signo \in Int,
         c = req[t].cuenta, r = req[t].ret, c = CuentaDe[r],
         Asentar(t, k, e, signo),
         k.pagos = cuenta[c].pagos, k.saldo = Total[c] - k.retenido - k.pagos,
         k.estado # "ANULADA", k.estado = "PAGADA" => k.saldo = 0,
         k.estado = "PARCIAL" => k.saldo # 0,
         c \in CxC => /\ cRet[r] = t /\ cuenta[c].estado # "ANULADA"
                      /\ r \notin directas => efecto[r] + signo = IF e = "APLICADA" THEN 1 ELSE 0
  PROVE  Inv'
<1>1. /\ cuenta' = [cuenta EXCEPT ![c] = k] /\ retencion' = [retencion EXCEPT ![r] = e]
      /\ efecto' = [efecto EXCEPT ![r] = @ + signo] /\ Terminar(t)
      /\ UNCHANGED <<doc, recibido, directas, obsoletas>>
  BY DEF Asentar
<1>2. TypeOK'
  <2>1. /\ cuenta' \in [Cuentas -> Cuenta] /\ efecto' \in [Retenciones -> Int]
        /\ retencion' \in [Retenciones -> {"LIBRE"} \cup Recibidas \cup Emitidas]
    BY <1>1 DEF Inv, TypeOK
  <2> QED BY <1>1, <2>1, PasoTerminar DEF Inv, TypeOK
<1>3. ASSUME NEW u \in Peticiones PROVE PeticionBien(u, req[u])'
  <2>1. cRet[r] = t \/ CuentaDe[r] \in CxP
    BY DEF Cuentas
  <2> QED BY <1>1, <2>1, OtrasTrasTerminar DEF Inv, TypeOK
<1>4. \A d \in Cuentas : cuenta'[d] = IF d = c THEN k ELSE cuenta[d]
  BY <1>1 DEF Inv, TypeOK
<1>5. SaldoCuadra'
  <2>1. k.saldo \in Nat
    BY DEF Cuenta
  <2> QED BY <1>1, <1>4, <2>1 DEF Inv, SaldoCuadra
<1>6. AnuladaSinCobros'
  BY <1>1, <1>4 DEF Inv, AnuladaSinCobros, Cuentas
<1>7. RetencionUnaVez'
  BY <1>1 DEF Inv, TypeOK, RetencionUnaVez
<1> QED BY <1>2, <1>3, <1>5, <1>6, <1>7 DEF Inv

\* A withholding received is applied, under the lock of its row and of the account.
LEMMA PasoAplicar ==
  ASSUME Inv, NEW t \in Peticiones, AplicarRetencion(t)
  PROVE  Inv'
<1> DEFINE c == req[t].cuenta
           r == req[t].ret
           k == Retenida(c, cuenta[c], Valor[r])
<1>1. CASE Deshacer(t)
  BY <1>1, PasoDeshacer
<1>2. CASE /\ req[t].fase = "aplicar" /\ cuenta[c].estado # "ANULADA" /\ k.saldo >= 0
           /\ Asentar(t, k, "APLICADA", 1)
  <2>1. /\ r \in Retenciones /\ c = CuentaDe[r] /\ c \in CxC /\ c \in Cuentas
        /\ cRet[r] = t /\ retencion[r] = "BORRADOR" /\ Valor[r] \in Nat /\ cuenta[c] \in Cuenta
    BY <1>2, CarteraSupuestos DEF Inv, TypeOK, PeticionBien, Cuentas
  <2>2. k \in Cuenta
    <3>1. k \in CuentaInt /\ k.retenido = cuenta[c].retenido + Valor[r] /\ k.pagos = cuenta[c].pagos
      BY <2>1, RetenidaBien
    <3>2. cuenta[c].retenido \in Nat /\ cuenta[c].pagos \in Nat
      BY <2>1 DEF Cuenta
    <3>3. k.saldo \in Int /\ k.saldo >= 0
      BY <1>2, <3>1 DEF CuentaInt
    <3> HIDE DEF k, c, r
    <3>4. k.retenido \in Nat /\ k.pagos \in Nat /\ k.saldo \in Nat
      BY <1>2, <2>1, <3>1, <3>2, <3>3
    <3> QED BY <3>1, <3>4 DEF Cuenta, CuentaInt
  <2>3. r \notin directas => efecto[r] = 0
    BY <2>1 DEF Inv, RetencionUnaVez
  <2>4. /\ k.pagos = cuenta[c].pagos /\ k.saldo = Total[c] - k.retenido - k.pagos
        /\ k.estado # "ANULADA" /\ (k.estado = "PAGADA" => k.saldo = 0)
        /\ (k.estado = "PARCIAL" => k.saldo # 0)
    BY <2>1, RetenidaBien
  <2>5. "APLICADA" \in Recibidas \cup Emitidas /\ 1 \in Int
    BY DEF Recibidas
  <2>6. Asentar(t, k, "APLICADA", 1)
    BY <1>2
  <2>7. /\ cuenta[c].estado # "ANULADA"
        /\ r \notin directas => efecto[r] + (1) = IF "APLICADA" = "APLICADA" THEN 1 ELSE 0
    BY <1>2, <2>3
  <2> HIDE DEF k, c, r
  <2>8. c = req[t].cuenta /\ r = req[t].ret
    BY DEF c, r
  <2> QED BY <2>1, <2>2, <2>4, <2>5, <2>6, <2>7, <2>8, PasoAsentar
<1> QED BY <1>1, <1>2 DEF AplicarRetencion

\* A withholding received is taken back, no more than the account has withheld.
LEMMA PasoRevertir ==
  ASSUME Inv, NEW t \in Peticiones, RevertirRetencion(t)
  PROVE  Inv'
<1> DEFINE c == req[t].cuenta
           r == req[t].ret
           k == Retenida(c, cuenta[c], 0 - Valor[r])
<1>1. CASE Deshacer(t)
  BY <1>1, PasoDeshacer
<1>2. CASE /\ req[t].fase = "revertir" /\ cuenta[c].estado # "ANULADA" /\ k.saldo >= 0
           /\ Valor[r] <= cuenta[c].retenido /\ Asentar(t, k, "ANULADA", -1)
  <2>1. /\ r \in Retenciones /\ c = CuentaDe[r] /\ c \in CxC /\ c \in Cuentas
        /\ cRet[r] = t /\ retencion[r] = "APLICADA" /\ Valor[r] \in Nat /\ cuenta[c] \in Cuenta
    BY <1>2, CarteraSupuestos DEF Inv, TypeOK, PeticionBien, Cuentas
  <2>2. k \in Cuenta
    <3>1. k \in CuentaInt /\ k.retenido = cuenta[c].retenido + (0 - Valor[r]) /\ k.pagos = cuenta[c].pagos
      BY <2>1, RetenidaBien
    <3>2. cuenta[c].retenido \in Nat /\ cuenta[c].pagos \in Nat
      BY <2>1 DEF Cuenta
    <3>3. k.saldo \in Int /\ k.saldo >= 0
      BY <1>2, <3>1 DEF CuentaInt
    <3> HIDE DEF k, c, r
    <3>4. k.retenido \in Nat /\ k.pagos \in Nat /\ k.saldo \in Nat
      BY <1>2, <2>1, <3>1, <3>2, <3>3
    <3> QED BY <3>1, <3>4 DEF Cuenta, CuentaInt
  <2>3. r \notin directas => efecto[r] = 1
    BY <2>1 DEF Inv, RetencionUnaVez
  <2>4. /\ k.pagos = cuenta[c].pagos /\ k.saldo = Total[c] - k.retenido - k.pagos
        /\ k.estado # "ANULADA" /\ (k.estado = "PAGADA" => k.saldo = 0)
        /\ (k.estado = "PARCIAL" => k.saldo # 0)
    BY <2>1, RetenidaBien
  <2>5. "ANULADA" \in Recibidas \cup Emitidas /\ -1 \in Int
    BY DEF Recibidas
  <2>6. Asentar(t, k, "ANULADA", -1)
    BY <1>2
  <2>7. /\ cuenta[c].estado # "ANULADA"
        /\ r \notin directas => efecto[r] + (-1) = IF "ANULADA" = "APLICADA" THEN 1 ELSE 0
    BY <1>2, <2>3
  <2> HIDE DEF k, c, r
  <2>8. c = req[t].cuenta /\ r = req[t].ret
    BY DEF c, r
  <2> QED BY <2>1, <2>2, <2>4, <2>5, <2>6, <2>7, <2>8, PasoAsentar
<1> QED BY <1>1, <1>2 DEF RevertirRetencion

\* A withholding issued reaches the account payable.
LEMMA PasoEmitirRetencion ==
  ASSUME Inv, NEW t \in Peticiones, EmitirRetencion(t)
  PROVE  Inv'
<1> DEFINE c == req[t].cuenta
           r == req[t].ret
           k == Retenida(c, cuenta[c], Valor[r])
<1>1. CASE Deshacer(t)
  BY <1>1, PasoDeshacer
<1>2. ASSUME NEW e \in {"EMITIDA", "ENCOLADA"}, req[t].fase = "emitir", k.saldo >= 0,
             Asentar(t, k, e, 1)
      PROVE  Inv'
  <2>1. /\ r \in Retenciones /\ c = CuentaDe[r] /\ c \notin CxC /\ c \in Cuentas
        /\ Valor[r] \in Nat /\ cuenta[c] \in Cuenta
    BY <1>2, CarteraSupuestos DEF Inv, TypeOK, PeticionBien, Cuentas
  <2>2. k \in Cuenta
    <3>1. k \in CuentaInt /\ k.retenido = cuenta[c].retenido + Valor[r] /\ k.pagos = cuenta[c].pagos
      BY <2>1, RetenidaBien
    <3>2. cuenta[c].retenido \in Nat /\ cuenta[c].pagos \in Nat
      BY <2>1 DEF Cuenta
    <3>3. k.saldo \in Int /\ k.saldo >= 0
      BY <1>2, <3>1 DEF CuentaInt
    <3> HIDE DEF k, c, r
    <3>4. k.retenido \in Nat /\ k.pagos \in Nat /\ k.saldo \in Nat
      BY <1>2, <2>1, <3>1, <3>2, <3>3
    <3> QED BY <3>1, <3>4 DEF Cuenta, CuentaInt
  <2>4. /\ k.pagos = cuenta[c].pagos /\ k.saldo = Total[c] - k.retenido - k.pagos
        /\ k.estado # "ANULADA" /\ (k.estado = "PAGADA" => k.saldo = 0)
        /\ (k.estado = "PARCIAL" => k.saldo # 0)
    BY <2>1, RetenidaBien
  <2>5. e \in Recibidas \cup Emitidas
    BY DEF Emitidas
  <2>6. Asentar(t, k, e, 1)
    BY <1>2
  <2> HIDE DEF k, c, r
  <2>7. c = req[t].cuenta /\ r = req[t].ret
    BY DEF c, r
  <2>8. 1 \in Int /\ ~(c \in CxC)
    BY <2>1
  <2> QED BY <2>1, <2>2, <2>4, <2>5, <2>6, <2>7, <2>8, PasoAsentar
<1> QED BY <1>1, <1>2 DEF EmitirRetencion

\* A sale is cancelled with an account on which nothing was received or withheld.
LEMMA PasoAnularVenta ==
  ASSUME Inv, NEW t \in Peticiones, AnularVenta(t)
  PROVE  Inv'
<1> DEFINE c == req[t].cuenta
           k == [cuenta[c] EXCEPT !.saldo = 0, !.estado = "ANULADA"]
<1>1. CASE Deshacer(t)
  BY <1>1, PasoDeshacer
<1>2. CASE /\ req[t].fase = "anular" /\ cuenta[c].pagos = 0 /\ cuenta[c].retenido = 0
           /\ cuenta' = [cuenta EXCEPT ![c] = k] /\ doc' = [doc EXCEPT ![c] = "ANULADA"]
           /\ Terminar(t) /\ UNCHANGED <<retencion, recibido, efecto, directas, obsoletas>>
  <2>1. c \in CxC /\ c \in Cuentas /\ cuenta[c] \in Cuenta
    BY <1>2 DEF Inv, TypeOK, PeticionBien, Cuentas
  <2>2. k = [retenido |-> 0, pagos |-> 0, saldo |-> 0, estado |-> "ANULADA"] /\ k \in Cuenta
    <3> HIDE DEF c
    <3>1. /\ cuenta[c] = [retenido |-> cuenta[c].retenido, pagos |-> cuenta[c].pagos,
                          saldo |-> cuenta[c].saldo, estado |-> cuenta[c].estado]
          /\ cuenta[c].retenido = 0 /\ cuenta[c].pagos = 0
      BY <1>2, <2>1 DEF Cuenta
    <3>2. k \in Cuenta /\ k.retenido = 0 /\ k.pagos = 0 /\ k.saldo = 0 /\ k.estado = "ANULADA"
      BY <3>1, <2>1 DEF Cuenta, EstadosCuenta
    <3> HIDE DEF k
    <3> QED BY <3>2 DEF Cuenta
  <2> HIDE DEF k, c
  <2>3. /\ \A d \in Cuentas : cuenta'[d] = IF d = c THEN k ELSE cuenta[d]
        /\ \A d \in Cuentas : doc'[d] = IF d = c THEN "ANULADA" ELSE doc[d]
    BY <1>2, <2>1 DEF Inv, TypeOK
  <2>4. TypeOK'
    <3>1. cuenta' \in [Cuentas -> Cuenta] /\ doc' \in [Cuentas -> {"NINGUNO", "EMITIDA", "ANULADA"}]
      BY <1>2, <2>1, <2>2 DEF Inv, TypeOK
    <3> QED BY <1>2, <3>1, PasoTerminar DEF Inv, TypeOK
  <2>5. ASSUME NEW u \in Peticiones PROVE PeticionBien(u, req[u])'
    BY <1>2, OtrasTrasTerminar
  <2>6. SaldoCuadra'
    BY <1>2, <2>1, <2>2, <2>3 DEF Inv, SaldoCuadra
  <2>7. AnuladaSinCobros'
    BY <1>2, <2>1, <2>2, <2>3 DEF Inv, AnuladaSinCobros, SaldoCuadra, Cuentas
  <2>8. RetencionUnaVez'
    BY <1>2 DEF Inv, RetencionUnaVez
  <2> QED BY <2>4, <2>5, <2>6, <2>7, <2>8 DEF Inv
<1> QED BY <1>1, <1>2 DEF AnularVenta, CerrarCuenta, historia

\* A withholding is registered, in the state the request chose.
LEMMA PasoCrear ==
  ASSUME Inv, NEW r \in Retenciones,
         CrearRetencion(r) \/ \E e \in Recibidas : CrearRetencionRecibida(r, e)
  PROVE  Inv'
<1>1. PICK e \in Recibidas \cup Emitidas :
        /\ retencion[r] = "LIBRE" /\ retencion' = [retencion EXCEPT ![r] = e]
        /\ directas' = directas \/ directas' = directas \cup {r}
        /\ CuentaDe[r] \in CxC /\ e = "APLICADA" => directas' = directas \cup {r}
        /\ UNCHANGED <<cuenta, doc, recibido, cCuenta, cDoc, cRet, req, efecto, obsoletas>>
  <2>1. CASE CrearRetencion(r)
    <3>1. CuentaDe[r] \notin CxC
      BY <2>1, CarteraSupuestos DEF CrearRetencion
    <3>2. "REGISTRADA" \in Recibidas \cup Emitidas
      BY DEF Emitidas
    <3> QED BY <2>1, <3>1, <3>2 DEF CrearRetencion, locks, historia
  <2>2. CASE \E e \in Recibidas : CrearRetencionRecibida(r, e)
    BY <2>2 DEF CrearRetencionRecibida, locks
  <2> QED BY <2>1, <2>2
<1>2. TypeOK'
  BY <1>1 DEF Inv, TypeOK
<1>3. ASSUME NEW u \in Peticiones PROVE PeticionBien(u, req[u])'
  <2>1. req[u].fase \in {"aplicar", "revertir"} => req[u].ret \in Retenciones \ {r}
    BY <1>1 DEF Inv, PeticionBien
  <2>2. PeticionBien(u, req[u])
    BY DEF Inv
  <2> QED BY <1>1, <2>1, <2>2, SigueBien DEF Inv, TypeOK, PeticionBien
<1>4. SaldoCuadra' /\ AnuladaSinCobros'
  BY <1>1 DEF Inv, SaldoCuadra, AnuladaSinCobros
<1>5. RetencionUnaVez'
  BY <1>1 DEF Inv, TypeOK, RetencionUnaVez
<1> QED BY <1>2, <1>3, <1>4, <1>5 DEF Inv

\* Every step keeps the invariant.
LEMMA PasoBien == Inv /\ [Next]_vars => Inv'
<1> SUFFICES ASSUME Inv, [Next]_vars PROVE Inv'
  OBVIOUS
<1>1. CASE UNCHANGED vars
  <2>1. UNCHANGED <<filas, locks, req, historia>>
    BY <1>1 DEF vars, filas, locks, historia
  <2>2. ASSUME NEW u \in Peticiones PROVE PeticionBien(u, req[u])'
    BY <2>1 DEF Inv, PeticionBien, filas, locks
  <2>3. TypeOK'
    BY <2>1 DEF Inv, TypeOK, filas, locks, historia
  <2> QED BY <2>1, <2>2, <2>3, FilasQuietas DEF Inv
<1>2. ASSUME NEW t \in Peticiones, Avanzar(t) PROVE Inv'
  BY <1>2, PasoBloquearCuenta, PasoRegistrarPago, PasoAplicar, PasoRevertir, PasoAnularVenta,
     PasoEmitirRetencion, PasoDeshacer DEF Avanzar, Interbloqueo
<1> QED BY <1>1, <1>2, PasoEmpezar, PasoCrear DEF Next

-----------------------------------------------------------------------------
(* Theorems *)

\* What requests know, and how accounts, documents and withholdings relate, holds in every
\* reachable state.
THEOREM InvarianteInductivo == Spec => []Inv
<1> QED BY InicioBien, PasoBien, PTL DEF Spec

\* No amount of an account is ever negative.
THEOREM TiposCorrectos == Spec => []TypeOK
<1>1. Inv => TypeOK
  BY DEF Inv
<1> QED BY <1>1, InvarianteInductivo, PTL

\* An account no outdated copy was written over balances with its payments.
THEOREM SaldosCuadran == Spec => []SaldoCuadra
<1>1. Inv => SaldoCuadra
  BY DEF Inv
<1> QED BY <1>1, InvarianteInductivo, PTL

\* A withholding received weighs on its account exactly while it is APLICADA.
THEOREM RetencionesUnaVez == Spec => []RetencionUnaVez
<1>1. Inv => RetencionUnaVez
  BY DEF Inv
<1> QED BY <1>1, InvarianteInductivo, PTL

\* A cancelled sale keeps no money.
THEOREM AnuladasSinCobros == Spec => []AnuladaSinCobros
<1>1. Inv => AnuladaSinCobros
  BY DEF Inv
<1> QED BY <1>1, InvarianteInductivo, PTL

-----------------------------------------------------------------------------
(* Sums over a finite set: induction on its parts, each time from a least counterexample *)

\* What SumFunction adds up at a set s once the sums h of smaller sets are known.
Sumado(g, h, s) ==
  IF s = {} THEN 0
  ELSE LET x == CHOOSE x \in s : TRUE IN g[x] + h[s \ {x}]

\* A nonempty set of naturals has a least element.
LEMMA MinimoNatural ==
  ASSUME NEW N \in SUBSET Nat, N # {}
  PROVE  \E n \in N : \A k \in N : n <= k
<1> DEFINE T == {1..n : n \in N}
<1>1. T \subseteq FiniteSubsetsOf(Nat) /\ T # {}
  <2>1. ASSUME NEW n \in N PROVE 1..n \in SUBSET Nat /\ IsFiniteSet(1..n)
    BY FS_Interval
  <2> QED BY <2>1 DEF FiniteSubsetsOf
<1>2. PICK u \in T : \A v \in T : ~ (<<v, u>> \in StrictSubsetOrdering(Nat))
  <2> HIDE DEF T
  <2> QED BY <1>1, FS_StrictSubsetOrderingWellFounded, WFMin
<1>3. PICK n \in N : u = 1..n
  BY <1>2
<1>4. ASSUME NEW k \in N, k < n PROVE FALSE
  <2>1. 1..k \subseteq 1..n /\ n \in 1..n /\ n \notin 1..k /\ 1..k \in T
    BY <1>4
  <2>2. <<1..k, 1..n>> \in StrictSubsetOrdering(Nat)
    BY <2>1 DEF StrictSubsetOrdering
  <2> QED BY <1>2, <1>3, <2>1, <2>2
<1> QED BY <1>4

\* The function of sums exists.
LEMMA HaySumas ==
  ASSUME NEW S, IsFiniteSet(S), NEW g \in [S -> Int]
  PROVE  \E h \in [SUBSET S -> Int] : \A s \in SUBSET S : h[s] = Sumado(g, h, s)
<1> DEFINE Hasta(n, h) == \A s \in SUBSET S : Cardinality(s) <= n => h[s] = Sumado(g, h, s)
           N == {n \in Nat : ~ \E h \in [SUBSET S -> Int] : Hasta(n, h)}
<1>1. \A s \in SUBSET S : IsFiniteSet(s) /\ Cardinality(s) \in Nat
  BY FS_Subset, FS_CardinalityType
<1>2. N = {}
  <2> SUFFICES ASSUME N # {} PROVE FALSE
    OBVIOUS
  <2>1. PICK n \in N : \A k \in N : n <= k
    <3> HIDE DEF N
    <3>1. N \subseteq Nat
      BY DEF N
    <3> QED BY <3>1, MinimoNatural
  <2>2. n # 0
    <3>1. Hasta(0, [s \in SUBSET S |-> 0])
      BY <1>1, FS_EmptySet DEF Sumado
    <3>2. [s \in SUBSET S |-> 0] \in [SUBSET S -> Int]
      OBVIOUS
    <3> HIDE DEF Hasta
    <3> QED BY <3>1, <3>2
  <2>3. n \in Nat /\ n - 1 \in Nat /\ n - 1 \notin N
    <3>1. n \in Nat
      BY <2>1
    <3> HIDE DEF N
    <3> QED BY <2>1, <2>2, <3>1
  <2>4. PICK h \in [SUBSET S -> Int] : Hasta(n - 1, h)
    BY <2>3
  <2> DEFINE k == [s \in SUBSET S |-> IF Cardinality(s) = n THEN Sumado(g, h, s) ELSE h[s]]
  <2>5. ASSUME NEW s \in SUBSET S, s # {}
        PROVE  /\ (CHOOSE x \in s : TRUE) \in s
               /\ s \ {CHOOSE x \in s : TRUE} \in SUBSET S
               /\ Cardinality(s \ {CHOOSE x \in s : TRUE}) = Cardinality(s) - 1
    <3>1. (CHOOSE x \in s : TRUE) \in s
      BY <2>5
    <3> QED BY <1>1, <3>1, FS_RemoveElement
  <2>6. \A s \in SUBSET S : Sumado(g, h, s) \in Int
    <3> SUFFICES ASSUME NEW s \in SUBSET S PROVE Sumado(g, h, s) \in Int
      OBVIOUS
    <3>1. CASE s = {}
      BY <3>1 DEF Sumado
    <3>2. CASE s # {}
      <4> DEFINE x == CHOOSE x \in s : TRUE
      <4>1. x \in S /\ s \ {x} \in SUBSET S
        BY <2>5, <3>2
      <4>2. g[x] \in Int /\ h[s \ {x}] \in Int
        BY <4>1
      <4> QED BY <3>2, <4>2 DEF Sumado
    <3> QED BY <3>1, <3>2
  <2>7. k \in [SUBSET S -> Int]
    BY <2>6
  <2>8. ASSUME NEW s \in SUBSET S, Cardinality(s) <= n
        PROVE  k[s] = Sumado(g, k, s) 
    <3>1. Sumado(g, k, s) = Sumado(g, h, s)
      <4>1. CASE s = {}
        BY <4>1 DEF Sumado
      <4>2. CASE s # {}
        <5> DEFINE u == s \ {CHOOSE x \in s : TRUE}
        <5>1. u \in SUBSET S /\ Cardinality(u) # n
          BY <1>1, <2>3, <2>5, <2>8, <4>2
        <5>2. k[u] = h[u]
          BY <5>1
        <5> QED BY <4>2, <5>2 DEF Sumado
      <4> QED BY <4>1, <4>2
    <3>2. Cardinality(s) # n => h[s] = Sumado(g, h, s)
      BY <1>1, <2>3, <2>4, <2>8
    <3> QED BY <3>1, <3>2
  <2>9. Hasta(n, k)
    BY <2>8
  <2> HIDE DEF Hasta, k
  <2> QED BY <2>1, <2>7, <2>9
<1>3. Cardinality(S) \in Nat /\ \A s \in SUBSET S : Cardinality(s) <= Cardinality(S)
  BY FS_CardinalityType, FS_Subset
<1>4. PICK h \in [SUBSET S -> Int] : Hasta(Cardinality(S), h)
  BY <1>2, <1>3
<1> QED BY <1>3, <1>4

\* SumFunction follows its recursion on every part of a finite set.
LEMMA SumaRecursiva ==
  ASSUME NEW S, IsFiniteSet(S), NEW g \in [S -> Int]
  PROVE  \E h : (\A s \in SUBSET S : h[s] = Sumado(g, h, s)) /\ SumFunction(g) = h[S]
<1> DEFINE Es(h) == h = [s \in SUBSET S |->
                           IF s = {} THEN 0
                           ELSE g[CHOOSE x \in s : TRUE] + h[s \ {CHOOSE x \in s : TRUE}]]
           h0 == CHOOSE h : Es(h)
<1>1. SumFunctionOnSet(g, S) = h0[S]
  BY DEF SumFunctionOnSet, FoldFunctionOnSet, MapThenFoldSet
<1>2. SumFunction(g) = SumFunctionOnSet(g, S)
  BY DEF SumFunction
<1>3. PICK h \in [SUBSET S -> Int] : \A s \in SUBSET S : h[s] = Sumado(g, h, s)
  BY HaySumas
<1>4. Es(h)
  BY <1>3 DEF Sumado
<1>5. Es(h0)
  <2> HIDE DEF Es
  <2> QED BY <1>4
<1>6. \A s \in SUBSET S : h0[s] = Sumado(g, h0, s)
  <2> HIDE DEF h0
  <2> QED BY <1>5 DEF Sumado
<1> HIDE DEF h0
<1> QED BY <1>1, <1>2, <1>6

\* Changing one value of a function changes its sum by as much.
LEMMA SumaCambia ==
  ASSUME NEW S, IsFiniteSet(S), NEW g \in [S -> Int], NEW k \in [S -> Int],
         NEW a \in S, \A x \in S \ {a} : k[x] = g[x]
  PROVE  /\ SumFunction(g) \in Int
         /\ SumFunction(k) = SumFunction(g) + (k[a] - g[a])
<1>1. PICK h : (\A s \in SUBSET S : h[s] = Sumado(g, h, s)) /\ SumFunction(g) = h[S]
  BY SumaRecursiva
<1>2. PICK l : (\A s \in SUBSET S : l[s] = Sumado(k, l, s)) /\ SumFunction(k) = l[S]
  BY SumaRecursiva
<1> DEFINE Bien(s) == h[s] \in Int /\ l[s] = h[s] + (IF a \in s THEN k[a] - g[a] ELSE 0)
           T == {s \in SUBSET S : ~Bien(s)}
<1>3. T = {}
  <2> SUFFICES ASSUME T # {} PROVE FALSE
    OBVIOUS
  <2>1. PICK s \in T : \A u \in T : ~ (<<u, s>> \in StrictSubsetOrdering(S))
    <3>1. T \subseteq FiniteSubsetsOf(S)
      BY FS_Subset DEF FiniteSubsetsOf
    <3> HIDE DEF T
    <3> QED BY <3>1, FS_StrictSubsetOrderingWellFounded, WFMin
  <2>2. s # {}
    BY <1>1, <1>2 DEF Sumado
  <2> DEFINE x == CHOOSE x \in s : TRUE
             u == s \ {x}
  <2>3. x \in s /\ x \in S /\ u \in SUBSET S
    BY <2>2
  <2>4. h[s] = g[x] + h[u] /\ l[s] = k[x] + l[u]
    BY <1>1, <1>2, <2>2 DEF Sumado
  <2>5. Bien(u)
    <3>1. <<u, s>> \in StrictSubsetOrdering(S)
      BY <2>3 DEF StrictSubsetOrdering
    <3> HIDE DEF u, Bien
    <3> QED BY <2>1, <2>3, <3>1
  <2>6. g[x] \in Int /\ k[x] \in Int /\ g[a] \in Int /\ k[a] \in Int
    BY <2>3
  <2>7. CASE x = a
    <3>1. a \in s /\ a \notin u
      BY <2>3, <2>7
    <3> HIDE DEF x, u
    <3> QED BY <2>1, <2>4, <2>5, <2>6, <2>7, <3>1
  <2>8. CASE x # a
    <3>1. k[x] = g[x] /\ (a \in s <=> a \in u)
      BY <2>3, <2>8
    <3> HIDE DEF x, u
    <3> QED BY <2>1, <2>4, <2>5, <2>6, <3>1
  <2> QED BY <2>7, <2>8
<1>4. Bien(S)
  BY <1>3
<1> QED BY <1>1, <1>2, <1>4

\* Nothing but zeros adds up to zero.
LEMMA SumaCeros ==
  ASSUME NEW S, IsFiniteSet(S)
  PROVE  SumFunction([x \in S |-> 0]) = 0
<1>0. PICK g : g = [x \in S |-> 0]
  OBVIOUS
<1>1. PICK h : (\A s \in SUBSET S : h[s] = Sumado(g, h, s)) /\ SumFunction(g) = h[S]
  BY <1>0, SumaRecursiva
<1> DEFINE T == {s \in SUBSET S : h[s] # 0}
<1>2. T = {}
  <2> SUFFICES ASSUME T # {} PROVE FALSE
    OBVIOUS
  <2>1. PICK s \in T : \A u \in T : ~ (<<u, s>> \in StrictSubsetOrdering(S))
    <3>1. T \subseteq FiniteSubsetsOf(S)
      BY FS_Subset DEF FiniteSubsetsOf
    <3> HIDE DEF T
    <3> QED BY <3>1, FS_StrictSubsetOrderingWellFounded, WFMin
  <2>2. s # {}
    BY <1>1 DEF Sumado
  <2> DEFINE x == CHOOSE x \in s : TRUE
             u == s \ {x}
  <2>3. x \in s /\ x \in S /\ u \in SUBSET S
    BY <2>2
  <2>4. <<u, s>> \in StrictSubsetOrdering(S)
    BY <2>3 DEF StrictSubsetOrdering
  <2>5. h[u] = 0
    <3> HIDE DEF u
    <3> QED BY <2>1, <2>3, <2>4
  <2>6. h[s] = g[x] + h[u]
    BY <1>1, <2>2 DEF Sumado
  <2> QED BY <1>0, <2>1, <2>3, <2>5, <2>6
<1> QED BY <1>0, <1>1, <1>2

-----------------------------------------------------------------------------
(* What is withheld from an account *)

\* What each withholding weighs on account c.
Pesos(c) == [r \in Retenciones |-> IF CuentaDe[r] = c THEN efecto[r] * Valor[r] ELSE 0]

\* The weights are integers.
LEMMA PesosEnteros ==
  ASSUME Inv, NEW c \in Cuentas
  PROVE  Pesos(c) \in [Retenciones -> Int]
BY CarteraSupuestos DEF Inv, TypeOK, Pesos

\* At the start nothing is withheld.
LEMMA InicioRetenido == Init => RetenidoCuadra
<1> SUFFICES ASSUME Init, NEW c \in Cuentas PROVE cuenta[c].retenido = SumFunction(Pesos(c))
  BY DEF RetenidoCuadra, Pesos
<1> USE CarteraSupuestos
<1>1. Pesos(c) = [r \in Retenciones |-> 0]
  BY DEF Init, Pesos
<1>2. SumFunction(Pesos(c)) = 0
  BY <1>1, SumaCeros
<1> QED BY <1>2 DEF Init, Abierta

\* A step that applies or reverts no withholding leaves the column alone.
LEMMA RetenidoQuieto ==
  ASSUME RetenidoCuadra, efecto' = efecto,
         \A c \in Cuentas : cuenta'[c].retenido = cuenta[c].retenido
  PROVE  RetenidoCuadra'
BY DEF RetenidoCuadra

\* A payment and a cancellation write back what the account had withheld.
LEMMA RetenidoTrasPago ==
  ASSUME Inv, RetenidoCuadra, NEW t \in Peticiones, RegistrarPago(t) \/ AnularVenta(t)
  PROVE  RetenidoCuadra'
<1> DEFINE c == req[t].cuenta
           leida == req[t].copia
           nueva == Pagada(c, leida, req[t].monto)
<1>1. CASE Deshacer(t)
  BY <1>1, RetenidoQuieto DEF Deshacer, filas, historia
<1>2. CASE /\ req[t].fase = "documento" /\ efecto' = efecto
           /\ cuenta' = [cuenta EXCEPT ![c] = Escrita(@, leida, nueva)]
  <2>1. c \in Cuentas /\ leida \in Cuenta /\ req[t].monto \in Nat /\ cuenta[c] \in Cuenta
    BY <1>2 DEF Inv, TypeOK, PeticionBien, Peticion
  <2>2. nueva.retenido = leida.retenido
    <3> HIDE DEF c, leida
    <3> QED BY <2>1, PagadaBien
  <2>3. Escrita(cuenta[c], leida, nueva).retenido = cuenta[c].retenido
    <3> HIDE DEF c, leida, nueva
    <3>1. "retenido" \in DOMAIN cuenta[c]
      BY <2>1 DEF Cuenta
    <3> QED BY <2>2, <3>1 DEF Escrita
  <2>4. \A d \in Cuentas : cuenta'[d].retenido = cuenta[d].retenido
    <3> HIDE DEF c, leida, nueva
    <3> QED BY <1>2, <2>1, <2>3 DEF Inv, TypeOK
  <2> QED BY <1>2, <2>4, RetenidoQuieto
<1>3. CASE /\ req[t].fase = "anular" /\ efecto' = efecto
           /\ cuenta' = [cuenta EXCEPT ![c] = [@ EXCEPT !.saldo = 0, !.estado = "ANULADA"]]
  <2>1. \A d \in Cuentas : cuenta'[d].retenido = cuenta[d].retenido
    <3>1. \A d \in Cuentas : cuenta[d] \in Cuenta
      BY DEF Inv, TypeOK
    <3> QED BY <1>3, <3>1 DEF Inv, TypeOK, Cuenta
  <2> QED BY <1>3, <2>1, RetenidoQuieto
<1> QED BY <1>1, <1>2, <1>3 DEF RegistrarPago, AnularVenta, CerrarCuenta, historia

\* Applying or reverting changes the account and the weight of the withholding by as much.
LEMMA RetenidoTrasAsentar ==
  ASSUME Inv, Inv', RetenidoCuadra, NEW t \in Peticiones, NEW c \in Cuentas, NEW r \in Retenciones,
         NEW k, NEW e, NEW signo \in {1, -1},
         c = req[t].cuenta, r = req[t].ret, c = CuentaDe[r], Asentar(t, k, e, signo),
         k.retenido = cuenta[c].retenido + signo * Valor[r]
  PROVE  RetenidoCuadra'
<1> USE CarteraSupuestos
<1>1. cuenta' = [cuenta EXCEPT ![c] = k] /\ efecto' = [efecto EXCEPT ![r] = @ + signo]
  BY DEF Asentar
<1>2. /\ \A d \in Cuentas : cuenta'[d] = IF d = c THEN k ELSE cuenta[d]
      /\ \A s \in Retenciones : efecto'[s] = IF s = r THEN efecto[s] + signo ELSE efecto[s]
  BY <1>1 DEF Inv, TypeOK
<1> SUFFICES ASSUME NEW d \in Cuentas PROVE cuenta'[d].retenido = SumFunction(Pesos(d)')
  BY DEF RetenidoCuadra, Pesos
<1>3. cuenta[d].retenido = SumFunction(Pesos(d)) /\ cuenta[d].retenido \in Nat
  BY DEF RetenidoCuadra, Pesos, Inv, TypeOK, Cuenta
<1>4. CASE d # c
  <2>1. Pesos(d)' = Pesos(d)
    BY <1>2, <1>4 DEF Pesos
  <2> QED BY <1>2, <1>3, <1>4, <2>1
<1>5. CASE d = c
  <2>1. PICK g \in [Retenciones -> Int] : g = Pesos(c)
    BY PesosEnteros
  <2>2. PICK h : h = Pesos(c)'
    OBVIOUS
  <2>3. \A s \in Retenciones : /\ g[s] = IF CuentaDe[s] = c THEN efecto[s] * Valor[s] ELSE 0
                               /\ h[s] = IF CuentaDe[s] = c THEN efecto'[s] * Valor[s] ELSE 0
    BY <2>1, <2>2 DEF Pesos
  <2>4. \A s \in Retenciones \ {r} : h[s] = g[s]
    BY <1>2, <2>3
  <2>5. h[r] - g[r] = signo * Valor[r] /\ h[r] \in Int
    <3>1. PICK n \in Int : n = efecto[r]
      BY DEF Inv, TypeOK
    <3>2. PICK v \in Nat : v = Valor[r]
      OBVIOUS
    <3>3. g[r] = n * v /\ h[r] = (n + signo) * v
      BY <1>2, <2>3, <3>1, <3>2
    <3>4. signo = 1 => (n + signo) * v - n * v = signo * v
      BY <3>1, <3>2
    <3>5. signo = -1 => (n + signo) * v - n * v = signo * v
      BY <3>1, <3>2
    <3>6. (n + signo) * v \in Int
      OBVIOUS
    <3> QED BY <3>2, <3>3, <3>4, <3>5, <3>6
  <2>6. h \in [Retenciones -> Int]
    <3>1. h = [s \in Retenciones |-> h[s]]
      BY <2>2 DEF Pesos
    <3>2. \A s \in Retenciones : h[s] \in Int
      BY <2>4, <2>5
    <3> QED BY <3>1, <3>2
  <2>7. SumFunction(h) = SumFunction(g) + (h[r] - g[r])
    <3>1. IsFiniteSet(Retenciones)
      OBVIOUS
    <3> QED BY ONLY <2>4, <2>6, <3>1, SumaCambia
  <2>8. cuenta'[d].retenido = cuenta[d].retenido + signo * Valor[r]
    BY <1>2, <1>5
  <2> QED BY <1>3, <1>5, <2>1, <2>2, <2>5, <2>7, <2>8
<1> QED BY <1>4, <1>5

\* A withholding received is applied or taken back, or one issued reaches its account.
LEMMA RetenidoTrasRetencion ==
  ASSUME Inv, Inv', RetenidoCuadra, NEW t \in Peticiones,
         AplicarRetencion(t) \/ RevertirRetencion(t) \/ EmitirRetencion(t)
  PROVE  RetenidoCuadra'
<1> DEFINE c == req[t].cuenta
           r == req[t].ret
<1>0. CASE Deshacer(t)
  BY <1>0, RetenidoQuieto DEF Deshacer, filas, historia
<1>1. req[t].fase \in {"aplicar", "revertir", "emitir"}
  BY DEF AplicarRetencion, RevertirRetencion, EmitirRetencion
<1>2. /\ r \in Retenciones /\ c = CuentaDe[r] /\ c \in Cuentas
      /\ Valor[r] \in Nat /\ cuenta[c] \in Cuenta
  BY <1>1, CarteraSupuestos DEF Inv, TypeOK, PeticionBien, Cuentas
<1>3. ASSUME NEW e, NEW v \in Int, NEW signo \in {1, -1}, v = signo * Valor[r],
             Asentar(t, Retenida(c, cuenta[c], v), e, signo)
      PROVE  RetenidoCuadra'
  <2>1. Retenida(c, cuenta[c], v).retenido = cuenta[c].retenido + v
    <3> HIDE DEF c
    <3> QED BY <1>2, RetenidaBien
  <2> QED BY <1>2, <1>3, <2>1, RetenidoTrasAsentar
<1>4. CASE \E e : Asentar(t, Retenida(c, cuenta[c], Valor[r]), e, 1)
  BY <1>2, <1>3, <1>4
<1>5. CASE Asentar(t, Retenida(c, cuenta[c], 0 - Valor[r]), "ANULADA", -1)
  <2>1. 0 - Valor[r] = (-1) * Valor[r] /\ 0 - Valor[r] \in Int
    BY <1>2
  <2> QED BY <1>3, <1>5, <2>1
<1>6. CASE AplicarRetencion(t)
  <2>1. Deshacer(t) \/ Asentar(t, Retenida(c, cuenta[c], Valor[r]), "APLICADA", 1)
    BY <1>6 DEF AplicarRetencion
  <2> QED BY <1>0, <1>4, <2>1
<1>7. CASE RevertirRetencion(t)
  <2>1. Deshacer(t) \/ Asentar(t, Retenida(c, cuenta[c], 0 - Valor[r]), "ANULADA", -1)
    BY <1>7 DEF RevertirRetencion
  <2> QED BY <1>0, <1>5, <2>1
<1>8. CASE EmitirRetencion(t)
  <2>1. Deshacer(t) \/ \E e : Asentar(t, Retenida(c, cuenta[c], Valor[r]), e, 1)
    BY <1>8 DEF EmitirRetencion
  <2> QED BY <1>0, <1>4, <2>1
<1> QED BY <1>6, <1>7, <1>8

\* Every step keeps the withheld column what the withholdings say.
LEMMA PasoRetenido == Inv /\ RetenidoCuadra /\ [Next]_vars => Inv' /\ RetenidoCuadra'
<1> SUFFICES ASSUME Inv, RetenidoCuadra, [Next]_vars PROVE Inv' /\ RetenidoCuadra'
  OBVIOUS
<1>0. Inv'
  BY PasoBien
<1>1. ASSUME UNCHANGED <<cuenta, efecto>> PROVE RetenidoCuadra'
  BY <1>1, RetenidoQuieto
<1>2. CASE UNCHANGED vars
  BY <1>0, <1>1, <1>2 DEF vars
<1>3. ASSUME NEW t \in Peticiones, Avanzar(t) PROVE RetenidoCuadra'
  <2>1. CASE BloquearCuenta(t) \/ Interbloqueo(t)
    BY <1>1, <2>1 DEF BloquearCuenta, Interbloqueo, Deshacer, filas, historia
  <2> QED BY <1>0, <1>3, <2>1, RetenidoTrasPago, RetenidoTrasRetencion DEF Avanzar
<1>4. ASSUME NEW r \in Retenciones,
             CrearRetencion(r) \/ \E e \in Recibidas : CrearRetencionRecibida(r, e)
      PROVE  RetenidoCuadra'
  BY <1>1, <1>4 DEF CrearRetencion, CrearRetencionRecibida, historia
<1>5. ASSUME NEW t \in Peticiones,
             \/ \E c \in Cuentas, monto \in Montos : PrecargarCuenta(t, c, monto)
             \/ \E r \in Retenciones : \/ BloquearRetencion(t, r, "aplicar", "BORRADOR")
                                       \/ BloquearRetencion(t, r, "revertir", "APLICADA")
                                       \/ LeerRetencion(t, r)
             \/ \E c \in CxC : BloquearVenta(t, c)
      PROVE  RetenidoCuadra'
  BY <1>1, <1>5 DEF PrecargarCuenta, BloquearRetencion, LeerRetencion, BloquearVenta, filas, historia
<1> QED BY <1>0, <1>2, <1>3, <1>4, <1>5 DEF Next

\* An account has withheld exactly what was applied to it and not taken back, for any number
\* of concurrent payments and withholdings, outdated copies included.
THEOREM RetenidoSiempreCuadra == Spec => []RetenidoCuadra
<1>1. Init => Inv /\ RetenidoCuadra
  BY InicioBien, InicioRetenido
<1>2. (Inv /\ RetenidoCuadra) /\ [Next]_vars => (Inv /\ RetenidoCuadra)'
  BY PasoRetenido
<1> QED BY <1>1, <1>2, PTL DEF Spec

-----------------------------------------------------------------------------
(* Second part: Atributos.  Its inductive invariant *)

\* A value in use and valid under the definition d.
ValeBajo(fila, d) == fila # Nada /\ fila.activo /\ <<fila.dato, d.forma>> \in Admite

\* The settings in force in c, as a product signs them.
FirmadaEn(efectivas, c) == CHOOSE e \in efectivas : e[1] = c

\* What the preview of a change of category shows, told from what it signs.
PrevisionFirmada(o, f) ==
  LET v        == o.dato
      fila     == f[6]
      activo   == fila # Nada /\ fila.activo
      aplica   == \E e \in f[5] : e[1] = o.categoria
      ajuste   == FirmadaEn(f[5], o.categoria)[3]
      requiere == aplica /\ ajuste.obligatorio
      legible  == ValeBajo(fila, f[1]) /\ fila.columna = Columna[f[1].forma]
      suerte   ==
        IF ~aplica THEN IF activo THEN "DESACTIVA" ELSE "NADA"
        ELSE IF v = Nulo THEN IF requiere THEN "FALTA" ELSE IF activo THEN "DESACTIVA" ELSE "NADA"
        ELSE IF v \in Datos
          THEN IF <<v, f[1].forma>> \notin Admite THEN "INCOMPATIBLE" ELSE IF activo THEN "CONSERVA" ELSE "NADA"
        ELSE IF activo THEN IF legible THEN "CONSERVA" ELSE "INCOMPATIBLE"
        ELSE IF ~requiere THEN "NADA"
        ELSE IF <<ajuste.defecto, f[1].forma>> \in Admite THEN "DEFECTO" ELSE "FALTA"
  IN [suerte |-> suerte,
      dato |-> IF suerte = "DEFECTO" THEN ajuste.defecto
               ELSE IF suerte # "CONSERVA" THEN Sin
               ELSE IF v \in Datos THEN v ELSE fila.dato]

\* Of the products f tells of, those whose value the removal deactivates: no other
\* assignment reaches their category.
QuitadosFirmados(f) ==
  {x \in f[1].afectados :
     /\ f[1].valores[x] # Nada /\ f[1].valores[x].activo
     /\ \A e \in f[3] : <<x, e[1]>> \notin f[1].productos}

\* What the preview of o shows is told by what it signs.
Cuadra(o, m, f) ==
  /\ o.que \in {"ASIGNAR", "CONFIGURAR"} =>
       /\ m.afectados = f.afectados
       /\ m.faltan = {x \in f.afectados : ~ValeBajo(f.valores[x], f.definicion)}
  /\ o.que = "CREAR" => m.afectados = f.afectados /\ m.faltan = f.afectados
  /\ o.que = "QUITAR" =>
       /\ m.desactivados = QuitadosFirmados(f)
       /\ m.conservados = {x \in f[1].afectados : f[1].valores[x] # Nada /\ f[1].valores[x].activo}
                            \ QuitadosFirmados(f)
  /\ o.que = "BAJA" =>
       /\ m.desactivados = {x \in Productos : f.valor[x] # Nada /\ f.valor[x].activo}
       /\ m.asignaciones = {c \in Categorias : f.asig[c] # Nada /\ f.asig[c].activo}
  /\ o.que = "ANOTAR" => m.desactivados = {}
  /\ o.que = "RECATEGORIZAR" => m = PrevisionFirmada(o, f)

\* What a request knows: what it saw exists for ever.
SesionBien(s) ==
  /\ s.que = "REMAPEO" => Existe /\ donde[s.producto] # Nada
  /\ s.que = "AJUSTE" => asig[s.categoria] # Nada
  /\ s.que = "VISTA" /\ s.entera => Cuadra(s.orden, s.mostrado, s.firma)

\* What the state holds, and what a snapshot may bring back: no value of a product that is
\* not there.
ValorConLugar(v) == \A x \in Productos : donde[x] = Nada => v[x] = Nada

\* The state before a change was in force, under a unit that is remembered, with the same
\* assignments; and what a deactivation left is all inactive.
CambioBien(h) ==
  /\ h.antes.definicion.activo
  /\ h.antes.definicion.unidad \in huella \cup {Sin}
  /\ ValorConLugar(h.antes.valor)
  /\ \A c \in Categorias : h.antes.asig[c] = Nada <=> h.despues.asig[c] = Nada
  /\ h.operacion = "BAJA" =>
       /\ ~h.despues.definicion.activo
       /\ \A c \in Categorias : h.despues.asig[c] # Nada => ~h.despues.asig[c].activo
       /\ \A x \in Productos : h.despues.valor[x] # Nada => ~h.despues.valor[x].activo

FilasTipadas ==
  /\ padre \in [Categorias -> Categorias \cup {Raiz}]
  /\ donde \in [Productos -> Categorias \cup {Nada}]
  /\ borrados \in SUBSET Productos
  /\ definicion \in Definiciones \cup {Nada}
  /\ asig \in [Categorias -> Asignaciones \cup {Nada}]
  /\ valor \in [Productos -> Filas \cup {Nada}]
  /\ remapeo \in [Productos -> Remapeos]
  /\ conversiones \in 0..MaxConversiones

CambiosTipados ==
  /\ cambios \in Seq(Cambios) /\ Len(cambios) <= MaxHistoria
  /\ huella \subseteq Unidades \cup {Nada}
  /\ unidades \subseteq Unidades

SesionTipada(s) ==
  IF s.que \in {"VISTA", "PRONOSTICO"} THEN s.orden \in Ordenes ELSE s \in Sesiones

\* The rows, apart from the requests.
RegistroBien ==
  /\ FilasTipadas /\ CambiosTipados
  /\ Jerarquia!SinCiclos(padre)
  /\ ~Existe => (\A c \in Categorias : asig[c] = Nada) /\ (\A x \in Productos : valor[x] = Nada)
  /\ ValorConLugar(valor)
  /\ \A i \in DOMAIN cambios : CambioBien(cambios[i])
  /\ huella \ {Nada} \subseteq unidades
  /\ Existe => Disponible(definicion.unidad)

AtrInv ==
  /\ RegistroBien
  /\ DOMAIN sesion = Solicitudes
  /\ \A t \in Solicitudes : sesion[t] # Nada => SesionTipada(sesion[t]) /\ SesionBien(sesion[t])

-----------------------------------------------------------------------------
(* The hierarchy *)

PadresBien == padre \in [Categorias -> Categorias \cup {Raiz}]

\* Ancestors are a set of categories with c itself and the parent of each of them.
LEMMA AncestrosCierran ==
  ASSUME PadresBien, NEW c \in Categorias
  PROVE  /\ Ancestros(c) \subseteq Categorias /\ c \in Ancestros(c)
         /\ \A d \in Ancestros(c) : padre[d] \in Categorias => padre[d] \in Ancestros(c)
BY DEF Ancestros, Jerarquia!Ancestros, Jerarquia!CerradoArriba

\* And the least such set.
LEMMA AncestrosMinimos ==
  ASSUME NEW c \in Categorias, NEW S \in SUBSET Categorias, c \in S,
         \A d \in S : padre[d] \in Categorias => padre[d] \in S
  PROVE  Ancestros(c) \subseteq S
BY DEF Ancestros, Jerarquia!Ancestros, Jerarquia!CerradoArriba

\* An ancestor of an ancestor is one.
LEMMA AncestrosTransitivos ==
  ASSUME PadresBien, NEW c \in Categorias, NEW d \in Ancestros(c)
  PROVE  Ancestros(d) \subseteq Ancestros(c)
<1>1. d \in Categorias
  BY AncestrosCierran
<1> QED BY <1>1, AncestrosCierran, AncestrosMinimos

\* Any other ancestor of c is one of its parent.
LEMMA AncestrosPorElPadre ==
  ASSUME PadresBien, NEW c \in Categorias, NEW d \in Ancestros(c), d # c
  PROVE  padre[c] \in Categorias /\ d \in Ancestros(padre[c])
<1> DEFINE S == {c} \cup {e \in Categorias : padre[c] \in Categorias /\ e \in Ancestros(padre[c])}
<1>1. ASSUME NEW e \in S, padre[e] \in Categorias PROVE padre[e] \in S
  BY <1>1, AncestrosCierran
<1>2. Ancestros(c) \subseteq S
  <2> HIDE DEF S
  <2>1. S \in SUBSET Categorias /\ c \in S
    BY DEF S
  <2> QED BY <1>1, <2>1, AncestrosMinimos
<1> QED BY <1>2

\* Where there are no cycles, no two categories are above each other.
LEMMA AncestrosOrdenan ==
  ASSUME PadresBien, Jerarquia!SinCiclos(padre), NEW a \in Categorias, NEW b \in Categorias,
         a \in Ancestros(b), b \in Ancestros(a)
  PROVE  a = b
<1> SUFFICES ASSUME a # b PROVE FALSE
  OBVIOUS
<1> DEFINE T == {d \in Categorias : a \in Ancestros(d) /\ d \in Ancestros(a)}
<1>1. a \in T /\ b \in T
  BY AncestrosCierran
<1>2. ASSUME NEW n \in T PROVE padre[n] \in T
  <2>1. PICK m \in {a, b} : m # n
    OBVIOUS
  <2>2. m \in Ancestros(n) /\ a \in Ancestros(m)
    BY <1>1, <2>1, AncestrosTransitivos
  <2>3. padre[n] \in Categorias /\ m \in Ancestros(padre[n])
    BY <2>1, <2>2, AncestrosPorElPadre
  <2>4. a \in Ancestros(padre[n])
    BY <2>2, <2>3, AncestrosTransitivos
  <2>5. padre[n] \in Ancestros(a)
    BY <2>3, AncestrosCierran
  <2> QED BY <2>3, <2>4, <2>5
<1> QED
  <2> HIDE DEF T
  <2>1. T \in SUBSET Categorias
    BY DEF T
  <2> QED BY <1>1, <1>2, <2>1 DEF Jerarquia!SinCiclos

\* What hangs from c is what has c above it.
LEMMA RamaEsTenerEncima ==
  ASSUME PadresBien, NEW c \in Categorias, NEW d \in Categorias
  PROVE  d \in Rama(c) <=> c \in Ancestros(d)
<1>1. ASSUME d \in Rama(c) PROVE c \in Ancestros(d)
  <2> DEFINE S == {e \in Categorias : c \in Ancestros(e)}
  <2>1. c \in S
    BY AncestrosCierran
  <2>2. ASSUME NEW e \in Categorias, padre[e] \in S PROVE e \in S
    BY <2>2, AncestrosCierran, AncestrosTransitivos
  <2>3. d \in S
    <3> HIDE DEF S
    <3>1. S \in SUBSET Categorias
      BY DEF S
    <3> QED BY <1>1, <2>1, <2>2, <3>1 DEF Rama, Jerarquia!Descendientes, Jerarquia!CerradoAbajo
  <2> QED BY <2>3
<1>2. ASSUME c \in Ancestros(d) PROVE d \in Rama(c)
  <2> SUFFICES ASSUME NEW S \in SUBSET Categorias, c \in S,
                      \A e \in Categorias : padre[e] \in S => e \in S,
                      d \notin S
               PROVE  FALSE
    BY DEF Rama, Jerarquia!Descendientes, Jerarquia!CerradoAbajo
  <2>1. Ancestros(d) \subseteq Categorias \ S
    BY AncestrosMinimos
  <2> QED BY <1>2, <2>1
<1> QED BY <1>1, <1>2

\* A category that changes its parent for one that is not below it closes no cycle.
LEMMA MoverSinCiclo ==
  ASSUME PadresBien, Jerarquia!SinCiclos(padre), NEW c \in Categorias, NEW p \in Categorias \cup {Raiz},
         p \notin Rama(c)
  PROVE  Jerarquia!SinCiclos([padre EXCEPT ![c] = p])
<1> DEFINE nuevo == [padre EXCEPT ![c] = p]
<1> SUFFICES ASSUME NEW S \in SUBSET Categorias, \A n \in S : nuevo[n] \in S, NEW n0 \in S
             PROVE  FALSE
  BY DEF Jerarquia!SinCiclos
<1>1. \A n \in Categorias : nuevo[n] = IF n = c THEN p ELSE padre[n]
  BY DEF PadresBien
<1> HIDE DEF nuevo
<1>2. ASSUME NEW T \in SUBSET Categorias, NEW n1 \in T, \A n \in T : padre[n] \in T
      PROVE  FALSE
  BY <1>2 DEF Jerarquia!SinCiclos
<1>3. c \in S /\ p \in S
  BY <1>1, <1>2
<1>4. ASSUME NEW n \in S \ Rama(c) PROVE padre[n] \in S \ Rama(c)
  <2>1. n # c
    BY <1>4, AncestrosCierran, RamaEsTenerEncima
  <2>2. padre[n] \in S
    BY <1>1, <2>1
  <2>3. padre[n] \notin Rama(c)
    BY <2>2, AncestrosCierran, AncestrosTransitivos, RamaEsTenerEncima
  <2> QED BY <2>2, <2>3
<1> QED BY <1>2, <1>3, <1>4

-----------------------------------------------------------------------------
(* The assignment in force *)

\* There is one wherever there is any above.
LEMMA HayOrigen ==
  ASSUME PadresBien, NEW S, NEW d \in Categorias, S \cap Ancestros(d) # {}
  PROVE  /\ OrigenCon(S, d) \in S \cap Ancestros(d)
         /\ \A b \in S \cap Ancestros(d) : b \in Ancestros(OrigenCon(S, d))
<1> DEFINE U == {e \in Ancestros(d) : \A b \in S \cap Ancestros(d) : b \in Ancestros(e)}
<1>1. PICK a \in U : a \in S
  <2> SUFFICES ASSUME U \cap S = {} PROVE FALSE
    OBVIOUS
  <2>1. d \in U
    BY AncestrosCierran
  <2>2. ASSUME NEW e \in U, padre[e] \in Categorias PROVE padre[e] \in U
    <3>1. e \in Categorias /\ padre[e] \in Ancestros(d)
      BY <2>2, AncestrosCierran
    <3>2. ASSUME NEW b \in S \cap Ancestros(d) PROVE b \in Ancestros(padre[e])
      BY <3>1, AncestrosPorElPadre
    <3> QED BY <3>1, <3>2
  <2>3. U \in SUBSET Categorias
    BY AncestrosCierran
  <2>4. Ancestros(d) \subseteq U
    <3> HIDE DEF U
    <3> QED BY <2>1, <2>2, <2>3, AncestrosMinimos
  <2> QED BY <2>4
<1>2. \E e \in S \cap Ancestros(d) : \A b \in S \cap Ancestros(d) : b \in Ancestros(e)
  BY <1>1
<1> QED BY <1>2 DEF OrigenCon, Jerarquia!MasCercano, Ancestros

\* And only one is the first met on the way up.
LEMMA OrigenUnico ==
  ASSUME PadresBien, Jerarquia!SinCiclos(padre), NEW S, NEW d \in Categorias,
         NEW a \in S \cap Ancestros(d), \A b \in S \cap Ancestros(d) : b \in Ancestros(a)
  PROVE  OrigenCon(S, d) = a
<1>1. /\ OrigenCon(S, d) \in S \cap Ancestros(d)
      /\ \A b \in S \cap Ancestros(d) : b \in Ancestros(OrigenCon(S, d))
  BY HayOrigen
<1> QED BY <1>1, AncestrosCierran, AncestrosOrdenan

\* An assignment taken away changes nothing where it was not in force.
LEMMA OrigenSinOtra ==
  ASSUME PadresBien, Jerarquia!SinCiclos(padre), NEW c, NEW S, NEW d \in Categorias,
         (S \cup {c}) \cap Ancestros(d) # {}, OrigenCon(S \cup {c}, d) # c
  PROVE  S \cap Ancestros(d) # {} /\ OrigenCon(S, d) = OrigenCon(S \cup {c}, d)
<1> DEFINE a == OrigenCon(S \cup {c}, d)
<1>1. a \in S \cap Ancestros(d) /\ \A b \in S \cap Ancestros(d) : b \in Ancestros(a)
  BY HayOrigen
<1> HIDE DEF a
<1>2. OrigenCon(S, d) = a
  BY <1>1, OrigenUnico
<1> QED BY <1>1, <1>2 DEF a

\* A new assignment comes into force where the one that was is further up.
LEMMA OrigenConOtra ==
  ASSUME PadresBien, Jerarquia!SinCiclos(padre), NEW c \in Categorias, NEW S, c \notin S,
         NEW d \in Categorias
  PROVE  c \in Ancestros(d) /\ OrigenCon(S \cup {c}, d) = c
           <=> d \in Rama(c) /\ (S \cap Ancestros(d) # {} => OrigenCon(S, d) \in Ancestros(c) \ {c})
<1>1. d \in Rama(c) <=> c \in Ancestros(d)
  BY RamaEsTenerEncima
<1>2. ASSUME c \in Ancestros(d), OrigenCon(S \cup {c}, d) = c, S \cap Ancestros(d) # {}
      PROVE  OrigenCon(S, d) \in Ancestros(c) \ {c}
  <2>1. OrigenCon(S, d) \in S \cap Ancestros(d)
    BY <1>2, HayOrigen
  <2>2. \A b \in (S \cup {c}) \cap Ancestros(d) : b \in Ancestros(c)
    BY <1>2, HayOrigen
  <2> QED BY <2>1, <2>2
<1>3. ASSUME c \in Ancestros(d), S \cap Ancestros(d) # {} => OrigenCon(S, d) \in Ancestros(c) \ {c}
      PROVE  OrigenCon(S \cup {c}, d) = c
  <2>1. ASSUME NEW b \in (S \cup {c}) \cap Ancestros(d) PROVE b \in Ancestros(c)
    <3>1. CASE b = c
      BY <3>1, AncestrosCierran
    <3>2. CASE b \in S
      <4>1. OrigenCon(S, d) \in Ancestros(c) /\ b \in Ancestros(OrigenCon(S, d))
        BY <1>3, <2>1, <3>2, HayOrigen
      <4> QED BY <4>1, AncestrosTransitivos
    <3> QED BY <3>1, <3>2
  <2> QED BY <1>3, <2>1, OrigenUnico
<1> QED BY <1>1, <1>2, <1>3
-----------------------------------------------------------------------------
(* What a step does to the rows *)

\* Nothing that a request has seen is gone.
Perdura ==
  /\ Existe => Existe'
  /\ \A x \in Productos : donde[x] # Nada => donde'[x] # Nada
  /\ \A c \in Categorias : asig[c] # Nada => asig'[c] # Nada

\* A definition is not the absent one; nor are an assignment or a value.
LEMMA NadaAparte == Nada \notin Categorias \cup Definiciones \cup Asignaciones \cup Filas
BY AtributosSupuestos

\* A value just written has its type.
LEMMA FilaTipo ==
  ASSUME NEW f \in Formas, NEW d \in Datos
  PROVE  Fila(d, f) \in Filas /\ [activo |-> TRUE, columna |-> Columna[f], dato |-> d] \in Filas
BY AtributosSupuestos DEF Fila, Filas

\* What can be written in a form is a datum.
LEMMA AdmiteDatos ==
  ASSUME NEW d, NEW f, <<d, f>> \in Castea \/ <<d, f>> \in Admite
  PROVE  d \in Datos /\ f \in Formas
BY AtributosSupuestos

\* A step that records no change keeps the rows right when it leaves the hierarchy and the
\* snapshots alone, gives no value to a product that is not there, and writes values and
\* assignments of an attribute that there is.
LEMMA RegistroSigue ==
  ASSUME RegistroBien, FilasTipadas', UNCHANGED <<padre, cambios, huella, unidades>>,
         \A x \in Productos : donde'[x] = Nada => donde[x] = Nada /\ valor'[x] = valor[x],
         Existe' \/ UNCHANGED <<definicion, asig, valor>>,
         Existe' => Disponible(definicion'.unidad)
  PROVE  RegistroBien'
<1>1. CambiosTipados' /\ Jerarquia!SinCiclos(padre)' /\ (huella \ {Nada} \subseteq unidades)'
  BY DEF RegistroBien, CambiosTipados, Jerarquia!SinCiclos
<1>2. ~Existe' => (\A c \in Categorias : asig'[c] = Nada) /\ (\A x \in Productos : valor'[x] = Nada)
  BY DEF RegistroBien, Existe
<1>3. ValorConLugar(valor)'
  BY DEF RegistroBien, ValorConLugar
<1>4. ASSUME NEW i \in DOMAIN cambios' PROVE CambioBien(cambios[i])'
  <2>1. CambioBien(cambios[i])
    BY <1>4 DEF RegistroBien
  <2> QED BY <2>1 DEF CambioBien, ValorConLugar
<1>5. Existe' => Disponible(definicion.unidad)'
  BY DEF Disponible
<1> QED BY <1>1, <1>2, <1>3, <1>4, <1>5 DEF RegistroBien

\* The settings of an assignment, and the backfill.
LEMMA AjustarBien ==
  ASSUME RegistroBien, NEW c \in Categorias, NEW ajuste \in Ajustes, NEW rellenar \in BOOLEAN,
         definicion' \in Definiciones, Disponible(definicion'.unidad),
         definicion' = definicion \/ ~Existe, UNCHANGED unidades,
         Ajustar(c, ajuste, rellenar, definicion'.forma)
  PROVE  RegistroBien' /\ Perdura
<1> DEFINE f == definicion'.forma
<1>1. f \in Formas
  BY DEF Definiciones
<1>2. asig' \in [Categorias -> Asignaciones \cup {Nada}] /\ \A d \in Categorias : asig[d] # Nada => asig'[d] # Nada
  <2>1. [activo |-> TRUE, ajuste |-> ajuste] \in Asignaciones
    BY DEF Asignaciones
  <2>2. [activo |-> TRUE, ajuste |-> ajuste] # Nada
    BY <2>1, NadaAparte
  <2>3. asig \in [Categorias -> Asignaciones \cup {Nada}]
    BY DEF RegistroBien, FilasTipadas
  <2> QED BY <2>1, <2>2, <2>3 DEF Ajustar
<1>3. /\ valor' \in [Productos -> Filas \cup {Nada}]
      /\ \A x \in Productos : donde[x] = Nada => valor'[x] = valor[x]
  <2>1. CASE ~rellenar
    BY <2>1 DEF Ajustar, RegistroBien, FilasTipadas
  <2>2. CASE rellenar
    <3>1. ajuste.defecto \in Datos
      BY <2>2, AdmiteDatos DEF Ajustar
    <3>2. Fila(ajuste.defecto, f) \in Filas
      BY <1>1, <3>1, FilaTipo
    <3>3. valor' = Rellenado(c, ajuste.defecto, f)
      BY <2>2 DEF Ajustar
    <3>4. ASSUME NEW x \in Productos
          PROVE  /\ Rellenado(c, ajuste.defecto, f)[x] \in Filas \cup {Nada}
                 /\ donde[x] = Nada => Rellenado(c, ajuste.defecto, f)[x] = valor[x]
      <4>1. valor[x] \in Filas \cup {Nada}
        BY DEF RegistroBien, FilasTipadas
      <4>2. valor[x] # Nada => [valor[x] EXCEPT !.activo = TRUE] \in Filas
        BY <4>1 DEF Filas
      <4>3. donde[x] = Nada => x \notin Afectados(c)'
        BY DEF Ajustar, Afectados, Vivos
      <4> QED BY <3>2, <4>1, <4>2, <4>3 DEF Rellenado
    <3> QED BY <3>3, <3>4 DEF Rellenado
  <2> QED BY <2>1, <2>2
<1>4. FilasTipadas'
  BY <1>2, <1>3 DEF RegistroBien, FilasTipadas, Ajustar
<1>5. Existe'
  BY NadaAparte DEF Existe
<1>6. UNCHANGED <<padre, cambios, huella, unidades, donde>>
  BY DEF Ajustar
<1>7. RegistroBien'
  BY <1>3, <1>4, <1>5, <1>6, RegistroSigue DEF RegistroBien
<1> QED BY <1>2, <1>5, <1>6, <1>7 DEF Perdura

\* The three writers of settings.
LEMMA CrearAtributoBien ==
  ASSUME RegistroBien, NEW d \in Definiciones, NEW c \in Categorias, NEW ajuste \in Ajustes,
         NEW rellenar \in BOOLEAN, UNCHANGED unidades, CrearAtributo(d, c, ajuste, rellenar)
  PROVE  RegistroBien' /\ Perdura
BY AjustarBien DEF CrearAtributo, Alta

\* A category gets the attribute, or other settings for it.
LEMMA AsignarBien ==
  ASSUME RegistroBien, NEW c \in Categorias, NEW ajuste \in Ajustes,
         NEW rellenar \in BOOLEAN, UNCHANGED unidades,
         Asignar(c, ajuste, rellenar) \/ Configurar(c, ajuste, rellenar)
  PROVE  RegistroBien' /\ Perdura
<1>1. Existe
  BY DEF Asignar, Configurar, ConAsignacion, Vigente, RegistroBien
<1>2. definicion' \in Definiciones /\ definicion' = definicion /\ Disponible(definicion'.unidad)
  BY <1>1 DEF Asignar, Configurar, RegistroBien, FilasTipadas, Existe
<1> QED BY <1>2, AjustarBien DEF Asignar, Configurar

\* An assignment removed.
LEMMA QuitarBien ==
  ASSUME RegistroBien, NEW c \in Categorias, UNCHANGED unidades, Quitar(c)
  PROVE  RegistroBien' /\ Perdura
<1>1. /\ asig \in [Categorias -> Asignaciones \cup {Nada}]
      /\ valor \in [Productos -> Filas \cup {Nada}]
      /\ asig[c] # Nada /\ Existe
  BY DEF Quitar, ConAsignacion, RegistroBien, FilasTipadas
<1>2. [asig[c] EXCEPT !.activo = FALSE] \in Asignaciones
  BY <1>1 DEF Asignaciones
<1>3. asig' \in [Categorias -> Asignaciones \cup {Nada}] /\ \A d \in Categorias : asig[d] # Nada => asig'[d] # Nada
  BY <1>1, <1>2, NadaAparte DEF Quitar
<1>4. ASSUME NEW x \in Productos
      PROVE  /\ valor'[x] \in Filas \cup {Nada}
             /\ donde[x] = Nada => valor'[x] = valor[x]
  <2>1. valor[x] # Nada => [valor[x] EXCEPT !.activo = FALSE] \in Filas
    BY <1>1 DEF Filas
  <2>2. x \in Desactivables(c) => valor[x] # Nada /\ donde[x] # Nada
    BY DEF Desactivables, Activo, Afectados, Vivos
  <2>3. valor'[x] = IF x \in Desactivables(c) THEN [valor[x] EXCEPT !.activo = FALSE] ELSE valor[x]
    BY DEF Quitar
  <2> QED BY <1>1, <2>1, <2>2, <2>3
<1>5. FilasTipadas'
  <2>1. valor' \in [Productos -> Filas \cup {Nada}]
    BY <1>4 DEF Quitar
  <2> QED BY <1>3, <2>1 DEF Quitar, RegistroBien, FilasTipadas
<1>6. RegistroBien'
  BY <1>1, <1>4, <1>5, RegistroSigue DEF Quitar, RegistroBien, Existe
<1> QED BY <1>3, <1>6 DEF Quitar, Perdura, Existe

\* Settings written from an older copy.
LEMMA EscribirAjusteBien ==
  ASSUME AtrInv, NEW t \in Solicitudes, NEW obligatorio \in BOOLEAN, NEW defecto \in Defectos,
         UNCHANGED unidades, EscribirAjuste(t, obligatorio, defecto)
  PROVE  RegistroBien' /\ Perdura
<1> DEFINE c     == sesion[t].categoria
           copia == sesion[t].copia
           nuevo == [obligatorio |-> IF obligatorio = copia.obligatorio THEN asig[c].ajuste.obligatorio ELSE obligatorio,
                     defecto |-> IF defecto = copia.defecto THEN asig[c].ajuste.defecto ELSE defecto]
<1>1. RegistroBien /\ sesion[t] \in Sesiones /\ sesion[t].que = "AJUSTE" /\ asig[sesion[t].categoria] # Nada
  BY DEF AtrInv, EscribirAjuste, SesionTipada, SesionBien
<1>2. c \in Categorias /\ copia \in Ajustes
  BY <1>1 DEF Sesiones
<1>3. asig \in [Categorias -> Asignaciones \cup {Nada}] /\ asig[c] \in Asignaciones /\ Existe
  BY <1>1, <1>2 DEF RegistroBien, FilasTipadas
<1>4. nuevo \in Ajustes
  BY <1>3 DEF Asignaciones, Ajustes
<1>5. asig' = [asig EXCEPT ![c] = [asig[c] EXCEPT !.ajuste = nuevo]]
  BY <1>2, <1>3 DEF EscribirAjuste
<1>6. [asig[c] EXCEPT !.ajuste = nuevo] \in Asignaciones
  <2> HIDE DEF nuevo
  <2> QED BY <1>3, <1>4 DEF Asignaciones
<1> HIDE DEF nuevo, c
<1>7. asig' \in [Categorias -> Asignaciones \cup {Nada}] /\ \A d \in Categorias : asig[d] # Nada => asig'[d] # Nada
  BY <1>3, <1>5, <1>6, NadaAparte
<1>8. UNCHANGED <<padre, donde, borrados, definicion, valor, remapeo, conversiones, cambios, huella>>
  BY DEF EscribirAjuste
<1>9. FilasTipadas'
  BY <1>1, <1>7, <1>8 DEF RegistroBien, FilasTipadas
<1>10. Existe' /\ (Existe' => Disponible(definicion'.unidad))
  BY <1>1, <1>3, <1>8 DEF RegistroBien, Existe
<1>11. RegistroBien'
  BY <1>1, <1>8, <1>9, <1>10, RegistroSigue
<1> QED BY <1>7, <1>8, <1>10, <1>11 DEF Perdura

\* A remap resolved late.
LEMMA ResolverRemapeoBien ==
  ASSUME AtrInv, NEW t \in Solicitudes, NEW d \in Datos, UNCHANGED unidades, ResolverRemapeo(t, d)
  PROVE  RegistroBien' /\ Perdura
<1> DEFINE x == sesion[t].producto
<1>1. RegistroBien /\ sesion[t] \in Sesiones /\ sesion[t].que = "REMAPEO" /\ donde[sesion[t].producto] # Nada /\ Existe
  BY DEF AtrInv, ResolverRemapeo, SesionTipada, SesionBien
<1>2. x \in Productos /\ sesion[t].forma \in Formas
  BY <1>1 DEF Sesiones
<1>3. /\ valor \in [Productos -> Filas \cup {Nada}]
      /\ remapeo \in [Productos -> Remapeos]
  BY <1>1 DEF RegistroBien, FilasTipadas
<1>4. [activo |-> TRUE, columna |-> Columna[sesion[t].forma], dato |-> d] \in Filas
  BY <1>2, FilaTipo
<1>5. /\ valor' \in [Productos -> Filas \cup {Nada}]
      /\ \A y \in Productos : y # x => valor'[y] = valor[y]
  BY <1>3, <1>4 DEF ResolverRemapeo
<1>6. remapeo' \in [Productos -> Remapeos]
  <2> DEFINE b == remapeo[x].activo /\ remapeo[x].n # sesion[t].n
  <2>1. remapeo' = [remapeo EXCEPT ![x] = [remapeo[x] EXCEPT !.activo = b]]
    BY <1>3 DEF ResolverRemapeo
  <2>2. remapeo[x] \in Remapeos /\ b \in BOOLEAN /\ (b => remapeo[x].activo)
    BY <1>2, <1>3
  <2> HIDE DEF b
  <2>3. [remapeo[x] EXCEPT !.activo = b] \in Remapeos
    BY <2>2 DEF Remapeos
  <2> QED BY <1>3, <2>1, <2>3
<1>7. UNCHANGED <<padre, donde, borrados, definicion, asig, conversiones, cambios, huella>>
  BY DEF ResolverRemapeo
<1>8. FilasTipadas'
  BY <1>1, <1>5, <1>6, <1>7 DEF RegistroBien, FilasTipadas
<1>9. Existe' /\ (Existe' => Disponible(definicion'.unidad))
  BY <1>1, <1>7 DEF RegistroBien, Existe
<1>10. RegistroBien'
  BY <1>1, <1>5, <1>7, <1>8, <1>9, RegistroSigue
<1> QED BY <1>7, <1>9, <1>10 DEF Perdura

-----------------------------------------------------------------------------
(* Products and the hierarchy *)

\* A default that serves is a datum, and an attribute that applies exists.
LEMMA AplicaExiste ==
  ASSUME NEW c, AplicaEn(c) \/ RequiereEn(c)
  PROVE  Existe /\ AplicaEn(c) /\ definicion.activo
BY DEF AplicaEn, AplicaCon, RequiereEn, RequiereCon, Vigente

\* A row deactivated, or the absent one, has its type.
LEMMA FilaInactiva ==
  ASSUME NEW r \in Filas
  PROVE  [r EXCEPT !.activo = FALSE] \in Filas
BY DEF Filas

\* A write of the value of one product.
LEMMA ValorBien ==
  ASSUME RegistroBien, NEW x \in Productos, NEW r \in Filas \cup {Nada},
         valor' = [valor EXCEPT ![x] = r],
         donde' \in [Productos -> Categorias \cup {Nada}], borrados' \in SUBSET Productos,
         \A y \in Productos : donde'[y] = Nada => donde[y] = Nada /\ y # x,
         Existe \/ r = valor[x],
         UNCHANGED <<padre, definicion, asig, remapeo, conversiones, cambios, huella, unidades>>
  PROVE  RegistroBien' /\ Perdura
<1>1. FilasTipadas'
  BY DEF RegistroBien, FilasTipadas
<1>2. \A y \in Productos : donde'[y] = Nada => donde[y] = Nada /\ valor'[y] = valor[y]
  BY DEF RegistroBien, FilasTipadas
<1>3. Existe' \/ UNCHANGED <<definicion, asig, valor>>
  BY DEF Existe, RegistroBien, FilasTipadas
<1>4. Existe' => Disponible(definicion'.unidad)
  BY DEF Existe, RegistroBien
<1>5. RegistroBien'
  BY <1>1, <1>2, <1>3, <1>4, RegistroSigue
<1> QED BY <1>5 DEF Perdura, Existe

\* A product created, with the value sent, the default or none.
LEMMA CrearProductoBien ==
  ASSUME RegistroBien, NEW x \in Productos, NEW c \in Categorias, NEW v \in Datos \cup {Igual},
         UNCHANGED unidades, CrearProducto(x, c, v)
  PROVE  RegistroBien' /\ Perdura
<1> DEFINE r == IF v # Igual THEN Fila(v, definicion.forma)
                ELSE IF RequiereEn(c) THEN Fila(DefectoEn(c), definicion.forma) ELSE valor[x]
<1>1. /\ donde \in [Productos -> Categorias \cup {Nada}] /\ valor \in [Productos -> Filas \cup {Nada}]
      /\ definicion \in Definiciones \cup {Nada}
  BY DEF RegistroBien, FilasTipadas
<1>2. v # Igual \/ RequiereEn(c) => r \in Filas /\ Existe
  <2>1. CASE v # Igual
    <3>1. v \in Datos /\ definicion.forma \in Formas
      BY <2>1, AdmiteDatos DEF CrearProducto
    <3> QED BY <2>1, <3>1, FilaTipo, AplicaExiste DEF CrearProducto
  <2>2. CASE v = Igual /\ RequiereEn(c)
    <3>1. DefectoEn(c) \in Datos /\ definicion.forma \in Formas
      BY <2>2, AdmiteDatos DEF CrearProducto, DefectoSirve
    <3> QED BY <2>2, <3>1, FilaTipo, AplicaExiste
  <2> QED BY <2>1, <2>2
<1>3. r \in Filas \cup {Nada} /\ (Existe \/ r = valor[x])
  BY <1>1, <1>2
<1>4. valor' = [valor EXCEPT ![x] = r]
  BY <1>1 DEF CrearProducto
<1> HIDE DEF r
<1>5. /\ donde' \in [Productos -> Categorias \cup {Nada}] /\ borrados' \in SUBSET Productos
      /\ \A y \in Productos : donde'[y] = Nada => donde[y] = Nada /\ y # x
  BY <1>1, NadaAparte DEF CrearProducto, RegistroBien, FilasTipadas
<1>6. UNCHANGED <<padre, definicion, asig, remapeo, conversiones, cambios, huella, unidades>>
  BY DEF CrearProducto
<1> QED BY <1>3, <1>4, <1>5, <1>6, ValorBien

\* A product edited in its category.
LEMMA EditarProductoBien ==
  ASSUME RegistroBien, NEW x \in Productos, NEW v \in Datos \cup {Igual, Nulo},
         UNCHANGED unidades, EditarProducto(x, v)
  PROVE  RegistroBien' /\ Perdura
<1> DEFINE r == IF v \in Datos THEN Fila(v, definicion.forma)
                ELSE IF v = Nulo /\ Activo(x) THEN [valor[x] EXCEPT !.activo = FALSE]
                ELSE IF v = Igual /\ ~Activo(x) /\ RequiereEn(donde[x])
                THEN Fila(DefectoEn(donde[x]), definicion.forma)
                ELSE valor[x]
<1>1. /\ donde \in [Productos -> Categorias \cup {Nada}] /\ valor \in [Productos -> Filas \cup {Nada}]
      /\ donde[x] # Nada
  BY DEF RegistroBien, FilasTipadas, EditarProducto, Vivos
<1>2. r \in Filas \cup {Nada} /\ (Existe \/ r = valor[x])
  <2>1. CASE v \in Datos
    <3>1. v # Igual /\ definicion.forma \in Formas
      BY <2>1, AtributosSupuestos, AdmiteDatos DEF EditarProducto
    <3> QED BY <2>1, <3>1, FilaTipo, AplicaExiste DEF EditarProducto
  <2>2. CASE v \notin Datos /\ v = Nulo /\ Activo(x)
    <3>1. valor[x] \in Filas /\ Existe
      BY <1>1, <2>2 DEF Activo, RegistroBien
    <3> QED BY <2>2, <3>1, FilaInactiva
  <2>3. CASE v = Igual /\ ~Activo(x) /\ RequiereEn(donde[x])
    <3>1. DefectoEn(donde[x]) \in Datos /\ definicion.forma \in Formas /\ v \notin Datos /\ v # Nulo
      BY <2>3, AdmiteDatos, AtributosSupuestos DEF EditarProducto, DefectoSirve
    <3> QED BY <2>3, <3>1, FilaTipo, AplicaExiste
  <2>4. CASE /\ v \notin Datos /\ ~(v = Nulo /\ Activo(x))
             /\ ~(v = Igual /\ ~Activo(x) /\ RequiereEn(donde[x]))
    BY <1>1, <2>4
  <2> QED BY <2>1, <2>2, <2>3, <2>4
<1>3. valor' = [valor EXCEPT ![x] = r]
  BY <1>1 DEF EditarProducto
<1> HIDE DEF r
<1>4. /\ donde' \in [Productos -> Categorias \cup {Nada}] /\ borrados' \in SUBSET Productos
      /\ \A y \in Productos : donde'[y] = Nada => donde[y] = Nada /\ y # x
  BY <1>1 DEF EditarProducto, RegistroBien, FilasTipadas
<1>5. UNCHANGED <<padre, definicion, asig, remapeo, conversiones, cambios, huella, unidades>>
  BY DEF EditarProducto
<1> QED BY <1>2, <1>3, <1>4, <1>5, ValorBien

\* What becomes of a value, case by case.
LEMMA SuerteDice ==
  ASSUME NEW x, NEW c, NEW v \in Datos \cup {Igual, Nulo}
  PROVE  /\ ~AplicaEn(c) => Suerte(x, c, v) = IF Activo(x) THEN "DESACTIVA" ELSE "NADA"
         /\ AplicaEn(c) /\ v = Nulo =>
              Suerte(x, c, v) = IF RequiereEn(c) THEN "FALTA" ELSE IF Activo(x) THEN "DESACTIVA" ELSE "NADA"
         /\ AplicaEn(c) /\ v \in Datos =>
              Suerte(x, c, v) = IF <<v, definicion.forma>> \notin Admite THEN "INCOMPATIBLE"
                                ELSE IF Activo(x) THEN "CONSERVA" ELSE "NADA"
         /\ AplicaEn(c) /\ v = Igual /\ Activo(x) =>
              Suerte(x, c, v) = IF Legible(x) THEN "CONSERVA" ELSE "INCOMPATIBLE"
         /\ AplicaEn(c) /\ v = Igual /\ ~Activo(x) =>
              Suerte(x, c, v) = IF ~RequiereEn(c) THEN "NADA"
                                ELSE IF DefectoSirve(c) THEN "DEFECTO" ELSE "FALTA"
BY AtributosSupuestos DEF Suerte

\* A product taken to another category, with what becomes of its value there.
LEMMA RecategorizarBien ==
  ASSUME RegistroBien, NEW x \in Productos, NEW c \in Categorias, NEW v \in Datos \cup {Igual, Nulo},
         UNCHANGED unidades, Recategorizar(x, c, v)
  PROVE  RegistroBien' /\ Perdura
<1> DEFINE r == IF v \in Datos THEN Fila(v, definicion.forma)
                ELSE IF Suerte(x, c, v) = "DEFECTO" THEN Fila(DefectoEn(c), definicion.forma)
                ELSE IF Suerte(x, c, v) = "DESACTIVA" THEN [valor[x] EXCEPT !.activo = FALSE]
                ELSE valor[x]
<1>1. /\ donde \in [Productos -> Categorias \cup {Nada}] /\ valor \in [Productos -> Filas \cup {Nada}]
      /\ donde[x] # Nada
  BY DEF RegistroBien, FilasTipadas, Recategorizar, Vivos
<1>2. r \in Filas \cup {Nada} /\ (Existe \/ r = valor[x])
  <2>1. CASE v \in Datos
    <3>1. AplicaEn(c) /\ <<v, definicion.forma>> \in Admite
      BY <2>1, AtributosSupuestos, SuerteDice DEF Recategorizar
    <3> QED BY <2>1, <3>1, AdmiteDatos, FilaTipo, AplicaExiste
  <2>2. CASE v \notin Datos /\ Suerte(x, c, v) = "DEFECTO"
    <3>1. AplicaEn(c) /\ DefectoSirve(c)
      BY <2>2, SuerteDice
    <3> QED BY <2>2, <3>1, AdmiteDatos, FilaTipo, AplicaExiste DEF DefectoSirve
  <2>3. CASE v \notin Datos /\ Suerte(x, c, v) = "DESACTIVA"
    <3>1. Activo(x)
      BY <2>3, SuerteDice
    <3>2. valor[x] \in Filas /\ Existe
      BY <1>1, <3>1 DEF Activo, RegistroBien
    <3> QED BY <2>3, <3>2, FilaInactiva
  <2>4. CASE v \notin Datos /\ Suerte(x, c, v) \notin {"DEFECTO", "DESACTIVA"}
    BY <1>1, <2>4
  <2> QED BY <2>1, <2>2, <2>3, <2>4
<1>3. valor' = [valor EXCEPT ![x] = r]
  BY <1>1 DEF Recategorizar
<1> HIDE DEF r
<1>4. /\ donde' \in [Productos -> Categorias \cup {Nada}] /\ borrados' \in SUBSET Productos
      /\ \A y \in Productos : donde'[y] = Nada => donde[y] = Nada /\ y # x
  BY <1>1, NadaAparte DEF Recategorizar, RegistroBien, FilasTipadas
<1>5. UNCHANGED <<padre, definicion, asig, remapeo, conversiones, cambios, huella, unidades>>
  BY DEF Recategorizar
<1> QED BY <1>2, <1>3, <1>4, <1>5, ValorBien

\* A product deactivated.
LEMMA BorrarProductoBien ==
  ASSUME RegistroBien, NEW x \in Productos, UNCHANGED unidades, BorrarProducto(x)
  PROVE  RegistroBien' /\ Perdura
<1> DEFINE r == IF valor[x] = Nada THEN Nada ELSE [valor[x] EXCEPT !.activo = FALSE]
<1>1. /\ donde \in [Productos -> Categorias \cup {Nada}] /\ valor \in [Productos -> Filas \cup {Nada}]
      /\ donde[x] # Nada /\ borrados \in SUBSET Productos
  BY DEF RegistroBien, FilasTipadas, BorrarProducto, Vivos
<1>2. r \in Filas \cup {Nada} /\ (Existe \/ r = valor[x])
  BY <1>1, FilaInactiva DEF RegistroBien
<1>3. valor' = [valor EXCEPT ![x] = r]
  BY <1>1 DEF BorrarProducto
<1> HIDE DEF r
<1> QED BY <1>1, <1>2, <1>3, ValorBien DEF BorrarProducto

\* A category moved.
LEMMA MoverCategoriaBien ==
  ASSUME RegistroBien, NEW c \in Categorias, NEW p \in Categorias \cup {Raiz},
         UNCHANGED unidades, MoverCategoria(c, p)
  PROVE  RegistroBien' /\ Perdura
<1>1. PadresBien /\ Jerarquia!SinCiclos(padre) /\ p \notin Rama(c)
  BY DEF RegistroBien, FilasTipadas, PadresBien, MoverCategoria, Rama
<1>2. Jerarquia!SinCiclos([padre EXCEPT ![c] = p])
  BY <1>1, MoverSinCiclo
<1>3. Jerarquia!SinCiclos(padre)'
  BY <1>2 DEF MoverCategoria, Jerarquia!SinCiclos
<1>4. FilasTipadas' /\ CambiosTipados'
  BY DEF RegistroBien, FilasTipadas, CambiosTipados, MoverCategoria
<1>5. UNCHANGED <<donde, definicion, asig, valor, cambios, huella, unidades>>
  BY DEF MoverCategoria
<1>6. \A i \in DOMAIN cambios' : CambioBien(cambios[i])'
  BY <1>5 DEF RegistroBien, CambioBien, ValorConLugar
<1>7. Perdura
  BY <1>5 DEF Perdura, Existe
<1> QED BY <1>3, <1>4, <1>5, <1>6, <1>7 DEF RegistroBien, Existe, Disponible, ValorConLugar

-----------------------------------------------------------------------------
(* Changes of the definition, and their reversal *)

\* A snapshot of an attribute has its type.
LEMMA FotoTipo ==
  ASSUME FilasTipadas, Existe
  PROVE  Foto \in Fotos
BY DEF FilasTipadas, Existe, Foto, Fotos

\* A change that is recorded: it starts from an attribute in force, keeps the units it
\* names in use and the rows of its assignments, and a deactivation leaves all inactive.
LEMMA FotografiarBien ==
  ASSUME RegistroBien, Vigente, FilasTipadas', Existe', UNCHANGED <<padre, donde, unidades>>,
         NEW operacion \in {"ACTUALIZAR", "ANOTAR", "BAJA"}, Fotografiar(operacion),
         Disponible(definicion'.unidad),
         \A c \in Categorias : asig[c] = Nada <=> asig'[c] = Nada,
         \A x \in Productos : valor[x] = Nada <=> valor'[x] = Nada,
         operacion = "BAJA" =>
           /\ ~definicion'.activo
           /\ \A c \in Categorias : asig'[c] # Nada => ~asig'[c].activo
           /\ \A x \in Productos : valor'[x] # Nada => ~valor'[x].activo
  PROVE  RegistroBien' /\ Perdura
<1> DEFINE h == [operacion |-> operacion, antes |-> Foto, despues |-> Foto']
<1>1. Foto \in Fotos /\ Foto' \in Fotos
  <2>1. Foto \in Fotos
    BY FotoTipo DEF RegistroBien, Vigente
  <2>2. (FilasTipadas /\ Existe)' => (Foto \in Fotos)'
    BY FotoTipo, PTL
  <2> QED BY <2>1, <2>2 DEF Fotos
<1>2. h \in Cambios
  BY <1>1 DEF Cambios
<1>3. Disponible(definicion.unidad) /\ definicion.unidad \in Unidades \cup {Sin} /\ definicion'.unidad \in Unidades \cup {Sin}
  BY DEF RegistroBien, Vigente, Existe, FilasTipadas, Definiciones
<1>4. huella' = huella \cup ({definicion.unidad, definicion'.unidad} \ {Sin})
                       \cup (IF Deja(Foto) \/ Deja(Foto') THEN {Nada} ELSE {})
  BY DEF Fotografiar
<1>5. cambios' = Append(cambios, h) /\ Len(cambios) < MaxHistoria
  BY DEF Fotografiar
<1>6. /\ h.antes.definicion = definicion /\ h.antes.asig = asig /\ h.antes.valor = valor
      /\ h.despues.definicion = definicion' /\ h.despues.asig = asig' /\ h.despues.valor = valor'
      /\ h.operacion = operacion
  BY DEF Foto
<1> HIDE DEF h
<1>7. CambiosTipados'
  <2>1. cambios \in Seq(Cambios) /\ Len(cambios) \in Nat
    BY DEF RegistroBien, CambiosTipados
  <2>2. cambios' \in Seq(Cambios) /\ Len(cambios') = Len(cambios) + 1
    BY <1>2, <1>5, <2>1
  <2>3. Len(cambios') <= MaxHistoria
    BY <1>5, <2>1, <2>2, AtributosSupuestos
  <2> QED BY <1>3, <1>4, <2>2, <2>3 DEF CambiosTipados, RegistroBien
<1>8. (huella \ {Nada} \subseteq unidades)' /\ huella \subseteq huella' /\ definicion.unidad \in huella' \cup {Sin}
  BY <1>3, <1>4 DEF Disponible, RegistroBien
<1>9. ASSUME NEW i \in DOMAIN cambios' PROVE CambioBien(cambios[i])'
  <2>1. cambios \in Seq(Cambios)
    BY DEF RegistroBien, CambiosTipados
  <2>2. (i \in DOMAIN cambios /\ cambios'[i] = cambios[i]) \/ cambios'[i] = h
    BY <1>5, <2>1
  <2>3. CASE i \in DOMAIN cambios /\ cambios'[i] = cambios[i]
    <3>1. CambioBien(cambios[i])
      BY <2>3 DEF RegistroBien
    <3> QED BY <1>8, <2>3, <3>1 DEF CambioBien, ValorConLugar
  <2>4. CASE cambios'[i] = h
    <3>1. definicion.activo /\ ValorConLugar(valor)
      BY DEF Vigente, RegistroBien
    <3> QED BY <1>6, <1>8, <2>4, <3>1 DEF CambioBien, ValorConLugar
  <2> QED BY <2>2, <2>3, <2>4
<1>10. Jerarquia!SinCiclos(padre)' /\ ValorConLugar(valor)'
  BY DEF RegistroBien, Jerarquia!SinCiclos, ValorConLugar
<1>11. (Existe => Disponible(definicion.unidad))'
  BY DEF Disponible
<1> QED BY <1>7, <1>8, <1>9, <1>10, <1>11 DEF RegistroBien, Perdura

\* What a conversion leaves: rows where there were rows, and remaps with their number.
LEMMA ConvertirBien ==
  ASSUME FilasTipadas, NEW f \in Formas, ConvertirValores(f)
  PROVE  /\ valor' \in [Productos -> Filas \cup {Nada}]
         /\ remapeo' \in [Productos -> Remapeos]
         /\ conversiones' \in 0..MaxConversiones
         /\ \A x \in Productos : valor[x] = Nada <=> valor'[x] = Nada
<1>1. ASSUME NEW x \in Productos
      PROVE  valor'[x] \in Filas \cup {Nada} /\ (valor[x] = Nada <=> valor'[x] = Nada)
  <2>1. valor[x] \in Filas \cup {Nada} /\ Columna[f] \in Columnas
    BY AtributosSupuestos DEF FilasTipadas
  <2>2. valor[x] # Nada => [valor[x] EXCEPT !.columna = Columna[f]] \in Filas
    BY <2>1 DEF Filas
  <2>3. valor'[x] = IF Activo(x) /\ Convertible(x, f) THEN [valor[x] EXCEPT !.columna = Columna[f]] ELSE valor[x]
    BY DEF ConvertirValores
  <2> QED BY <2>1, <2>2, <2>3, NadaAparte DEF Activo
<1>2. remapeo' \in [Productos -> Remapeos] /\ conversiones' \in 0..MaxConversiones
  <2>1. CASE Inconvertibles(f) = {}
    BY <2>1 DEF ConvertirValores, FilasTipadas
  <2>2. CASE Inconvertibles(f) # {}
    <3>1. conversiones \in Nat /\ conversiones < MaxConversiones /\ MaxConversiones \in Nat
      BY <2>2, AtributosSupuestos DEF ConvertirValores, FilasTipadas
    <3>2. [n |-> conversiones + 1, activo |-> TRUE] \in Remapeos
      BY <3>1 DEF Remapeos
    <3>3. remapeo' = [x \in Productos |-> IF x \in Inconvertibles(f)
                                          THEN [n |-> conversiones + 1, activo |-> TRUE] ELSE remapeo[x]]
      BY <2>2 DEF ConvertirValores
    <3>4. remapeo' \in [Productos -> Remapeos]
      BY <3>2, <3>3 DEF FilasTipadas
    <3>5. conversiones' = conversiones + 1
      BY <2>2 DEF ConvertirValores
    <3> QED BY <3>1, <3>4, <3>5
  <2> QED BY <2>1, <2>2
<1> QED BY <1>1, <1>2 DEF ConvertirValores

\* A definition edited, with its conversion and its snapshot.
LEMMA ActualizarBien ==
  ASSUME RegistroBien, NEW f \in Formas, NEW u \in Unidades \cup {Sin}, UNCHANGED unidades, Actualizar(f, u)
  PROVE  RegistroBien' /\ Perdura
<1>1. definicion \in Definiciones /\ Vigente
  BY DEF Actualizar, Vigente, Existe, RegistroBien, FilasTipadas
<1>2. definicion' \in Definiciones /\ definicion'.unidad = u /\ Disponible(u) /\ definicion'.forma = f
  BY <1>1 DEF Actualizar, Definiciones
<1>3. /\ valor' \in [Productos -> Filas \cup {Nada}]
      /\ remapeo' \in [Productos -> Remapeos]
      /\ conversiones' \in 0..MaxConversiones
      /\ \A x \in Productos : valor[x] = Nada <=> valor'[x] = Nada
  <2>1. CASE f = definicion.forma
    BY <2>1 DEF Actualizar, RegistroBien, FilasTipadas
  <2>2. CASE f # definicion.forma
    BY <2>2, ConvertirBien DEF Actualizar, RegistroBien
  <2> QED BY <2>1, <2>2
<1>4. FilasTipadas' /\ Existe'
  BY <1>2, <1>3, NadaAparte DEF Actualizar, RegistroBien, FilasTipadas, Existe
<1>5. PICK op \in {"ACTUALIZAR", "ANOTAR"} : Fotografiar(op)
  BY DEF Actualizar
<1> QED BY <1>1, <1>2, <1>3, <1>4, <1>5, FotografiarBien DEF Actualizar

\* A unit given to the values there are.
LEMMA AnotarBien ==
  ASSUME RegistroBien, NEW u \in Unidades, UNCHANGED unidades, Anotar(u)
  PROVE  RegistroBien' /\ Perdura
<1>1. definicion \in Definiciones /\ Vigente
  BY DEF Anotar, Vigente, Existe, RegistroBien, FilasTipadas
<1>2. definicion' \in Definiciones /\ definicion'.unidad = u /\ Disponible(u)
  BY <1>1 DEF Anotar, Definiciones, Normal
<1>3. FilasTipadas' /\ Existe'
  BY <1>2, NadaAparte DEF Anotar, RegistroBien, FilasTipadas, Existe
<1> QED BY <1>1, <1>2, <1>3, FotografiarBien DEF Anotar

\* A deactivation, whose snapshot is all inactive.
LEMMA DarDeBajaBien ==
  ASSUME RegistroBien, UNCHANGED unidades, DarDeBaja
  PROVE  RegistroBien' /\ Perdura
<1>1. definicion \in Definiciones /\ Vigente /\ Disponible(definicion.unidad)
  BY DEF DarDeBaja, Vigente, Existe, RegistroBien, FilasTipadas
<1>2. definicion' \in Definiciones /\ definicion'.unidad = definicion.unidad /\ ~definicion'.activo
  BY <1>1 DEF DarDeBaja, Definiciones
<1>3. ASSUME NEW c \in Categorias
      PROVE  /\ asig'[c] \in Asignaciones \cup {Nada}
             /\ asig[c] = Nada <=> asig'[c] = Nada
             /\ asig'[c] # Nada => ~asig'[c].activo
  <2>1. asig[c] \in Asignaciones \cup {Nada}
    BY DEF RegistroBien, FilasTipadas
  <2>2. asig[c] # Nada => /\ [asig[c] EXCEPT !.activo = FALSE] \in Asignaciones
                          /\ ~[asig[c] EXCEPT !.activo = FALSE].activo
    BY <2>1 DEF Asignaciones
  <2>3. asig'[c] = IF asig[c] = Nada THEN Nada ELSE [asig[c] EXCEPT !.activo = FALSE]
    BY DEF DarDeBaja
  <2> QED BY <2>1, <2>2, <2>3, NadaAparte
<1>4. ASSUME NEW x \in Productos
      PROVE  /\ valor'[x] \in Filas \cup {Nada}
             /\ valor[x] = Nada <=> valor'[x] = Nada
             /\ valor'[x] # Nada => ~valor'[x].activo
  <2>1. valor[x] \in Filas \cup {Nada}
    BY DEF RegistroBien, FilasTipadas
  <2>2. valor[x] # Nada => /\ [valor[x] EXCEPT !.activo = FALSE] \in Filas
                           /\ ~[valor[x] EXCEPT !.activo = FALSE].activo
    BY <2>1 DEF Filas
  <2>3. valor'[x] = IF valor[x] = Nada THEN Nada ELSE [valor[x] EXCEPT !.activo = FALSE]
    BY DEF DarDeBaja
  <2> QED BY <2>1, <2>2, <2>3, NadaAparte
<1>5. FilasTipadas' /\ Existe'
  <2>1. asig' \in [Categorias -> Asignaciones \cup {Nada}] /\ valor' \in [Productos -> Filas \cup {Nada}]
    BY <1>3, <1>4 DEF DarDeBaja
  <2> QED BY <1>2, <2>1, NadaAparte DEF DarDeBaja, RegistroBien, FilasTipadas, Existe
<1>6. UNCHANGED <<padre, donde>> /\ Fotografiar("BAJA") /\ Disponible(definicion'.unidad)
  BY <1>1, <1>2 DEF DarDeBaja
<1> QED BY <1>1, <1>2, <1>3, <1>4, <1>5, <1>6, FotografiarBien

\* The last change, and what its reversal finds.
LEMMA UltimaBien ==
  ASSUME RegistroBien, cambios # <<>>
  PROVE  /\ Len(cambios) \in DOMAIN cambios /\ Ultima \in Cambios /\ CambioBien(Ultima)
         /\ Ultima.antes \in Fotos /\ Ultima.despues \in Fotos
<1>1. cambios \in Seq(Cambios) /\ Len(cambios) \in DOMAIN cambios
  BY DEF RegistroBien, CambiosTipados
<1>2. Ultima \in Cambios
  BY <1>1 DEF Ultima
<1> QED BY <1>1, <1>2 DEF Ultima, Cambios, RegistroBien

\* An undo: what the snapshot brings back is right, under a unit that is in use.
LEMMA RevertirBien ==
  ASSUME RegistroBien, UNCHANGED unidades, Revertir
  PROVE  RegistroBien' /\ Perdura
<1> DEFINE a == Ultima.antes
<1>1. /\ cambios \in Seq(Cambios) /\ cambios # <<>> /\ Len(cambios) <= MaxHistoria
      /\ Foto = Ultima.despues
  BY DEF Revertir, Intacta, RegistroBien, CambiosTipados
<1>2. CambioBien(Ultima) /\ Ultima.antes \in Fotos
  BY <1>1, UltimaBien
<1>3. /\ definicion' \in Definiciones /\ asig' \in [Categorias -> Asignaciones \cup {Nada}]
      /\ valor' \in [Productos -> Filas \cup {Nada}] /\ remapeo' \in [Productos -> Remapeos]
  BY <1>2 DEF Revertir, Restaurar, Fotos
<1>4. FilasTipadas' /\ Existe'
  BY <1>3, NadaAparte DEF Revertir, RegistroBien, FilasTipadas, Existe
<1>5. /\ cambios' \in Seq(Cambios) /\ Len(cambios') <= MaxHistoria
      /\ \A i \in DOMAIN cambios' : i \in DOMAIN cambios /\ cambios'[i] = cambios[i]
  <2>1. cambios' = SubSeq(cambios, 1, Len(cambios) - 1)
    BY DEF Revertir
  <2>2. Len(cambios) \in Nat \ {0} /\ MaxHistoria \in Nat
    BY <1>1, AtributosSupuestos
  <2> QED BY <1>1, <2>1, <2>2
<1>6. CambiosTipados' /\ Jerarquia!SinCiclos(padre)' /\ (huella \ {Nada} \subseteq unidades)'
  BY <1>5 DEF Revertir, RegistroBien, CambiosTipados, Jerarquia!SinCiclos
<1>7. ASSUME NEW i \in DOMAIN cambios' PROVE CambioBien(cambios[i])'
  <2>1. CambioBien(cambios[i])
    BY <1>5, <1>7 DEF RegistroBien
  <2>2. UNCHANGED <<donde, huella>>
    BY DEF Revertir
  <2> QED BY <1>5, <1>7, <2>1, <2>2 DEF CambioBien, ValorConLugar
<1>8. ValorConLugar(valor)' /\ Disponible(definicion.unidad)'
  <2>1. ValorConLugar(valor)'
    BY <1>2 DEF Revertir, Restaurar, CambioBien, ValorConLugar
  <2>2. definicion'.unidad \in huella \cup {Sin} /\ UNCHANGED unidades
    BY <1>2 DEF Revertir, Restaurar, CambioBien
  <2>3. definicion'.unidad \in Unidades \cup {Sin}
    BY <1>3 DEF Definiciones
  <2>4. definicion'.unidad \in unidades \cup {Sin}
    BY <2>2, <2>3, AtributosSupuestos DEF RegistroBien
  <2> QED BY <2>1, <2>2, <2>4 DEF Disponible
<1>9. \A c \in Categorias : asig[c] = Nada <=> asig'[c] = Nada
  BY <1>1, <1>2 DEF Revertir, Restaurar, CambioBien, Foto
<1>10. Perdura
  BY <1>4, <1>9 DEF Revertir, Perdura
<1> QED BY <1>4, <1>6, <1>7, <1>8, <1>10 DEF RegistroBien

\* A unit is taken out of use where nothing has it, and put back.
LEMMA UnidadBien ==
  ASSUME RegistroBien, NEW u \in Unidades, DesactivarUnidad(u) \/ ReactivarUnidad(u)
  PROVE  RegistroBien' /\ Perdura
<1>1. UNCHANGED <<padre, donde, borrados, definicion, asig, valor, remapeo, conversiones, cambios, huella>>
  BY DEF DesactivarUnidad, ReactivarUnidad
<1>2. /\ unidades' \subseteq Unidades
      /\ huella \ {Nada} \subseteq unidades'
      /\ Existe => definicion.unidad \in unidades' \cup {Sin}
  BY DEF RegistroBien, CambiosTipados, DesactivarUnidad, ReactivarUnidad, EnUso, Disponible
<1>3. FilasTipadas' /\ CambiosTipados' /\ Jerarquia!SinCiclos(padre)' /\ ValorConLugar(valor)'
  BY <1>1, <1>2 DEF RegistroBien, FilasTipadas, CambiosTipados, Jerarquia!SinCiclos, ValorConLugar
<1>4. \A i \in DOMAIN cambios' : CambioBien(cambios[i])'
  BY <1>1 DEF RegistroBien, CambioBien, ValorConLugar
<1>5. (Existe => Disponible(definicion.unidad))'
  BY <1>1, <1>2 DEF Existe, Disponible
<1> QED BY <1>1, <1>2, <1>3, <1>4, <1>5 DEF RegistroBien, Existe, Perdura

\* A step that changes no row.
LEMMA QuietoBien ==
  ASSUME RegistroBien,
         UNCHANGED <<padre, donde, borrados, definicion, asig, valor, remapeo, conversiones, cambios, huella, unidades>>
  PROVE  RegistroBien' /\ Perdura
BY DEF RegistroBien, FilasTipadas, CambiosTipados, Jerarquia!SinCiclos, Existe, ValorConLugar,
       CambioBien, Disponible, Perdura

-----------------------------------------------------------------------------
(* What a preview shows is told by what it signs *)

\* The kind of an order says which one it is.
LEMMA OrdenDice ==
  ASSUME NEW o
  PROVE  /\ o \in DeAsignar => o \in Previstas /\ o.que = "ASIGNAR"
         /\ o \in DeConfigurar => o \in Previstas /\ o.que = "CONFIGURAR"
         /\ o \in Previstas => /\ o.que \in {"ASIGNAR", "CONFIGURAR"} /\ o.categoria \in Categorias
                               /\ o.ajuste \in Ajustes /\ o.rellenar \in BOOLEAN
         /\ o \in DeCrear => /\ o.que = "CREAR" /\ o.categoria \in Categorias /\ o.ajuste \in Ajustes
                             /\ o.rellenar \in BOOLEAN /\ o.definicion \in Definiciones
         /\ o \in DeQuitar => o.que = "QUITAR" /\ o.categoria \in Categorias
         /\ o \in DeBaja => o.que = "BAJA"
         /\ o \in DeAnotar => o.que = "ANOTAR" /\ o.unidad \in Unidades
         /\ o \in DeMudar => /\ o.que = "RECATEGORIZAR" /\ o.producto \in Productos /\ o.categoria \in Categorias
                             /\ o.dato \in Datos \cup {Igual, Nulo}
<1>1. o \in Previstas => /\ o.que \in {"ASIGNAR", "CONFIGURAR"} /\ o.categoria \in Categorias
                         /\ o.ajuste \in Ajustes /\ o.rellenar \in BOOLEAN
  BY DEF Previstas
<1>2. o \in DeAsignar => o \in Previstas /\ o.que = "ASIGNAR"
  BY DEF DeAsignar
<1>3. o \in DeConfigurar => o \in Previstas /\ o.que = "CONFIGURAR"
  BY <1>1 DEF DeConfigurar, DeAsignar
<1>4. o \in DeCrear => /\ o.que = "CREAR" /\ o.categoria \in Categorias /\ o.ajuste \in Ajustes
                       /\ o.rellenar \in BOOLEAN /\ o.definicion \in Definiciones
  BY DEF DeCrear
<1>5. /\ o \in DeQuitar => o.que = "QUITAR" /\ o.categoria \in Categorias
      /\ o \in DeBaja => o.que = "BAJA"
      /\ o \in DeAnotar => o.que = "ANOTAR" /\ o.unidad \in Unidades
      /\ o \in DeMudar => /\ o.que = "RECATEGORIZAR" /\ o.producto \in Productos /\ o.categoria \in Categorias
                          /\ o.dato \in Datos \cup {Igual, Nulo}
  BY DEF DeQuitar, DeBaja, DeAnotar, DeMudar
<1> QED BY <1>1, <1>2, <1>3, <1>4, <1>5

\* What each kind signs.
LEMMA FirmaDice ==
  ASSUME NEW o
  PROVE  /\ o \in Previstas \cup DeCrear => Firma(o) = Impacto(o.categoria, Alcance(o))
         /\ o \in DeQuitar => Firma(o) = FirmaRetiro(o.categoria, Afectados(o.categoria))
         /\ o \in DeBaja => Firma(o) = Foto
         /\ o \in DeMudar => Firma(o) = FirmaProducto(o.producto, {donde[o.producto], o.categoria})
BY OrdenDice DEF Firma

\* Settings: the products they reach and those that lack a valid value.
LEMMA AjustePrevisto ==
  ASSUME NEW o \in Previstas
  PROVE  Cuadra(o, [afectados |-> Alcance(o), faltan |-> Faltos(Alcance(o))], Firma(o))
<1> DEFINE f == Impacto(o.categoria, Alcance(o))
           m == [afectados |-> Alcance(o), faltan |-> Faltos(Alcance(o))]
<1>1. f.afectados = Alcance(o) /\ f.definicion = definicion /\ f.valores = [x \in Alcance(o) |-> valor[x]]
  BY DEF Impacto
<1>2. m.faltan = {x \in f.afectados : ~ValeBajo(f.valores[x], f.definicion)}
  <2> HIDE DEF f
  <2> QED BY <1>1 DEF Faltos, Valido, Activo, ValeBajo
<1>3. o.que \in {"ASIGNAR", "CONFIGURAR"} /\ Firma(o) = f
  BY OrdenDice, FirmaDice
<1> HIDE DEF f
<1> QED BY <1>1, <1>2, <1>3 DEF Cuadra

\* A new attribute: all the products it reaches lack it.
LEMMA CreacionPrevista ==
  ASSUME NEW o \in DeCrear
  PROVE  Cuadra(o, [afectados |-> Alcance(o), faltan |-> Alcance(o)], Firma(o))
<1>1. o.que = "CREAR"
  BY OrdenDice
<1>2. Firma(o) = Impacto(o.categoria, Alcance(o))
  BY FirmaDice
<1>3. Firma(o).afectados = Alcance(o)
  BY <1>2 DEF Impacto
<1> QED BY <1>1, <1>3 DEF Cuadra

\* The products an assignment is in force for are below it.
LEMMA AfectadosDebajo ==
  ASSUME RegistroBien, NEW c \in Categorias, NEW x \in Afectados(c)
  PROVE  /\ x \in Productos /\ x \in Vivos /\ donde[x] \in Categorias /\ AplicaEn(donde[x])
         /\ OrigenDe(donde[x]) = c
         /\ c \in ConAsignacion \cap Ancestros(donde[x]) /\ donde[x] \in Rama(c)
<1>1. x \in Productos /\ x \in Vivos /\ donde[x] \in Categorias /\ AplicaEn(donde[x]) /\ OrigenDe(donde[x]) = c
  BY DEF Afectados, Vivos, RegistroBien, FilasTipadas
<1>2. PadresBien /\ ConAsignacion \cap Ancestros(donde[x]) # {}
  BY <1>1 DEF RegistroBien, FilasTipadas, PadresBien, AplicaEn, AplicaCon, Ancestros
<1>3. c \in ConAsignacion \cap Ancestros(donde[x])
  BY <1>1, <1>2, HayOrigen DEF OrigenDe
<1> QED BY <1>1, <1>2, <1>3, RamaEsTenerEncima

\* A removal: the values that no other assignment keeps.
LEMMA QuitadosFirmadosSon ==
  ASSUME RegistroBien, NEW c \in Categorias
  PROVE  LET f == FirmaRetiro(c, Afectados(c))
         IN  /\ QuitadosFirmados(f) = Desactivables(c)
             /\ f[1].afectados = Afectados(c)
             /\ \A x \in Afectados(c) : f[1].valores[x] = valor[x]
<1> DEFINE f == FirmaRetiro(c, Afectados(c))
           A == Afectados(c)
           D == {donde[x] : x \in A}
           P == {<<x, donde[x]>> : x \in {y \in Vivos : donde[y] \in Rama(c)}}
<1>1. /\ f[1].afectados = A /\ f[1].productos = P
      /\ \A x \in A : f[1].valores[x] = valor[x]
      /\ f[3] = Efectivas(D, Restantes(c))
  BY DEF FirmaRetiro, Impacto
<1>2. ASSUME NEW x \in A
      PROVE  (\E e \in f[3] : <<x, e[1]>> \in P) <=> AplicaCon(Restantes(c), donde[x])
  <2>1. ASSUME NEW e \in f[3], <<x, e[1]>> \in P PROVE AplicaCon(Restantes(c), donde[x])
    <3>1. PICK d \in D : AplicaCon(Restantes(c), d) /\ e[1] = d
      BY <1>1, <2>1 DEF Efectivas
    <3>2. e[1] = donde[x]
      BY <2>1
    <3> QED BY <3>1, <3>2
  <2>2. ASSUME AplicaCon(Restantes(c), donde[x]) PROVE \E e \in f[3] : <<x, e[1]>> \in P
    <3> DEFINE k == <<donde[x], OrigenCon(Restantes(c), donde[x]), asig[OrigenCon(Restantes(c), donde[x])].ajuste>>
    <3>1. <<x, donde[x]>> \in P
      BY AfectadosDebajo
    <3>2. k \in f[3]
      BY <1>1, <2>2 DEF Efectivas
    <3>3. k[1] = donde[x]
      OBVIOUS
    <3> QED BY <3>1, <3>2, <3>3
  <2> QED BY <2>1, <2>2
<1>3. QuitadosFirmados(f) = {x \in A : valor[x] # Nada /\ valor[x].activo /\ \A e \in f[3] : <<x, e[1]>> \notin P}
  <2> HIDE DEF f, A, P
  <2> QED BY <1>1 DEF QuitadosFirmados
<1> HIDE DEF f, A, P, D
<1>4. QuitadosFirmados(f) = {x \in A : Activo(x) /\ ~AplicaCon(Restantes(c), donde[x])}
  BY <1>2, <1>3 DEF Activo
<1> QED BY <1>1, <1>4 DEF f, A, Desactivables

\* So what the preview of a removal shows is told by what it signs.
LEMMA RetiroPrevisto ==
  ASSUME RegistroBien, NEW o \in DeQuitar
  PROVE  Cuadra(o, [desactivados |-> Desactivables(o.categoria),
                    conservados |-> {x \in Afectados(o.categoria) : Activo(x)} \ Desactivables(o.categoria)], Firma(o))
<1> DEFINE c == o.categoria
           f == FirmaRetiro(c, Afectados(c))
           m == [desactivados |-> Desactivables(c), conservados |-> {x \in Afectados(c) : Activo(x)} \ Desactivables(c)]
<1>1. o.que = "QUITAR" /\ c \in Categorias /\ Firma(o) = f
  BY OrdenDice, FirmaDice
<1>2. /\ QuitadosFirmados(f) = Desactivables(c) /\ f[1].afectados = Afectados(c)
      /\ \A x \in Afectados(c) : f[1].valores[x] = valor[x]
  BY <1>1, QuitadosFirmadosSon
<1> HIDE DEF f
<1>3. m.conservados = {x \in f[1].afectados : f[1].valores[x] # Nada /\ f[1].valores[x].activo} \ QuitadosFirmados(f)
  BY <1>2 DEF Activo
<1> QED BY <1>1, <1>2, <1>3 DEF Cuadra

\* A deactivation: the values and the assignments in use.
LEMMA BajaPrevista ==
  ASSUME RegistroBien, NEW o \in DeBaja
  PROVE  Cuadra(o, [desactivados |-> {x \in Productos : Activo(x)}, asignaciones |-> ConAsignacion], Firma(o))
<1>1. o.que = "BAJA"
  BY OrdenDice
<1>2. Firma(o) = Foto
  BY FirmaDice
<1>3. Firma(o).valor = valor /\ Firma(o).asig = asig
  BY <1>2 DEF Foto
<1> QED BY <1>1, <1>3 DEF Cuadra, Activo, ConAsignacion

\* A product in another category.
LEMMA PrevisionFirmadaEs ==
  ASSUME NEW o \in DeMudar
  PROVE  PrevisionFirmada(o, Firma(o)) = Prevision(o)
<1> DEFINE x == o.producto
           c == o.categoria
           v == o.dato
           E == Efectivas({donde[x], c}, ConAsignacion)
           k == <<c, OrigenDe(c), asig[OrigenDe(c)].ajuste>>
           f == Firma(o)
<1>1. v \in Datos \cup {Igual, Nulo}
  BY OrdenDice
<1>2. f[1] = definicion /\ f[5] = E /\ f[6] = valor[x]
  BY FirmaDice DEF FirmaProducto
<1>3. (\E e \in E : e[1] = c) <=> AplicaEn(c)
  <2>1. ASSUME AplicaEn(c) PROVE k \in E /\ k[1] = c
    BY <2>1 DEF Efectivas, AplicaEn, OrigenDe
  <2>2. ASSUME NEW e \in E, e[1] = c PROVE AplicaEn(c)
    <3>1. PICK d \in {donde[x], c} : AplicaCon(ConAsignacion, d) /\ e[1] = d
      BY <2>2 DEF Efectivas
    <3> QED BY <2>2, <3>1 DEF AplicaEn
  <2> QED BY <2>1, <2>2
<1>4. \A e \in E : e[1] = c => e = k
  BY DEF Efectivas, OrigenDe
<1>5. AplicaEn(c) => FirmadaEn(E, c) = k
  BY <1>3, <1>4 DEF FirmadaEn
<1>6. AplicaEn(c) => FirmadaEn(E, c)[3] = asig[OrigenDe(c)].ajuste
  BY <1>5
<1> DEFINE requiere == AplicaEn(c) /\ FirmadaEn(E, c)[3].obligatorio
<1>7. /\ requiere <=> RequiereEn(c)
      /\ AplicaEn(c) => FirmadaEn(E, c)[3].defecto = DefectoEn(c)
  BY <1>6 DEF RequiereEn, RequiereCon, AplicaEn, OrigenDe, DefectoEn
<1>8. ValeBajo(f[6], f[1]) /\ f[6].columna = Columna[f[1].forma] <=> Legible(x)
  BY <1>2 DEF ValeBajo, Legible, Valido, Activo
<1>9. f[6] # Nada /\ f[6].activo <=> Activo(x)
  BY <1>2 DEF Activo
<1> DEFINE suerte ==
        IF ~AplicaEn(c) THEN IF Activo(x) THEN "DESACTIVA" ELSE "NADA"
        ELSE IF v = Nulo THEN IF RequiereEn(c) THEN "FALTA" ELSE IF Activo(x) THEN "DESACTIVA" ELSE "NADA"
        ELSE IF v \in Datos
          THEN IF <<v, definicion.forma>> \notin Admite THEN "INCOMPATIBLE" ELSE IF Activo(x) THEN "CONSERVA" ELSE "NADA"
        ELSE IF Activo(x) THEN IF Legible(x) THEN "CONSERVA" ELSE "INCOMPATIBLE"
        ELSE IF ~RequiereEn(c) THEN "NADA"
        ELSE IF DefectoSirve(c) THEN "DEFECTO" ELSE "FALTA"
<1>10. Suerte(x, c, v) = suerte
  BY <1>1, SuerteDice, AtributosSupuestos
<1>11. suerte = "DEFECTO" => AplicaEn(c)
  OBVIOUS
<1>12. PrevisionFirmada(o, f) =
         [suerte |-> suerte,
          dato |-> IF suerte = "DEFECTO" THEN DefectoEn(c)
                   ELSE IF suerte # "CONSERVA" THEN Sin
                   ELSE IF v \in Datos THEN v ELSE valor[x].dato]
  <2> HIDE DEF f, E
  <2> QED BY <1>2, <1>3, <1>7, <1>8, <1>9, <1>11 DEF PrevisionFirmada, DefectoSirve
<1> HIDE DEF suerte
<1> QED BY <1>10, <1>12 DEF Prevision

-----------------------------------------------------------------------------
(* The requests *)

\* A step keeps the invariant when it keeps the rows right, loses nothing that a request has
\* seen, and leaves each request as it was, or gone, or right.
LEMMA SesionesSiguen ==
  ASSUME AtrInv, RegistroBien', Perdura, DOMAIN sesion' = Solicitudes,
         \A t \in Solicitudes :
           \/ sesion'[t] = sesion[t] \/ sesion'[t] = Nada
           \/ SesionTipada(sesion[t])' /\ SesionBien(sesion[t])'
  PROVE  AtrInv'
<1>1. ASSUME NEW t \in Solicitudes, sesion[t] # Nada, sesion'[t] = sesion[t]
      PROVE  SesionTipada(sesion[t])' /\ SesionBien(sesion[t])'
  <2>1. SesionTipada(sesion[t]) /\ SesionBien(sesion[t])
    BY <1>1 DEF AtrInv
  <2>2. sesion[t].que = "REMAPEO" => sesion[t].producto \in Productos
    BY <2>1 DEF SesionTipada, Sesiones
  <2>3. sesion[t].que = "AJUSTE" => sesion[t].categoria \in Categorias
    BY <2>1 DEF SesionTipada, Sesiones
  <2> QED BY <1>1, <2>1, <2>2, <2>3 DEF SesionTipada, SesionBien, Perdura
<1> QED BY <1>1 DEF AtrInv

\* A preview.
LEMMA EmitirBien ==
  ASSUME AtrInv, UNCHANGED unidades, NEW t \in Solicitudes, NEW o \in Ordenes, NEW m, NEW entera,
         Emitir(t, o, m, entera), entera => Cuadra(o, m, Firma(o))
  PROVE  AtrInv'
<1> DEFINE s == [que |-> "VISTA", orden |-> o, mostrado |-> m, firma |-> Firma(o), entera |-> entera]
<1>1. sesion' = [sesion EXCEPT ![t] = s]
  BY DEF Emitir
<1>2. s.que = "VISTA" /\ s.orden = o /\ s.mostrado = m /\ s.firma = Firma(o) /\ s.entera = entera
  OBVIOUS
<1> HIDE DEF s
<1>3. DOMAIN sesion' = Solicitudes /\ sesion'[t] = s /\ \A q \in Solicitudes : q # t => sesion'[q] = sesion[q]
  BY <1>1 DEF AtrInv
<1>4. SesionTipada(sesion[t])' /\ SesionBien(sesion[t])'
  BY <1>2, <1>3 DEF SesionTipada, SesionBien
<1>5. RegistroBien' /\ Perdura
  BY QuietoBien DEF AtrInv, Emitir
<1> QED BY <1>3, <1>4, <1>5, SesionesSiguen

\* The previews that show and sign one state.
LEMMA PrevisualizarBien ==
  ASSUME AtrInv, UNCHANGED unidades, NEW t \in Solicitudes
  PROVE  /\ \A o \in DeAsignar : PrevisualizarAsignacion(t, o) => AtrInv'
         /\ \A o \in DeConfigurar : PrevisualizarConfiguracion(t, o) => AtrInv'
         /\ \A o \in DeCrear : PrevisualizarCreacion(t, o) => AtrInv'
         /\ \A o \in DeQuitar : PrevisualizarRetiro(t, o) => AtrInv'
         /\ \A o \in DeBaja : PrevisualizarBaja(t, o) => AtrInv'
         /\ \A o \in DeAnotar : PrevisualizarAnotacion(t, o) => AtrInv'
<1>1. ASSUME NEW o \in Previstas, PrevisualizarAsignacion(t, o) \/ PrevisualizarConfiguracion(t, o)
      PROVE  AtrInv'
  BY <1>1, AjustePrevisto, EmitirBien DEF PrevisualizarAsignacion, PrevisualizarConfiguracion, Ordenes
<1>2. ASSUME NEW o \in DeCrear, PrevisualizarCreacion(t, o) PROVE AtrInv'
  BY <1>2, CreacionPrevista, EmitirBien DEF PrevisualizarCreacion, Ordenes
<1>3. ASSUME NEW o \in DeQuitar, PrevisualizarRetiro(t, o) PROVE AtrInv'
  <2>1. Cuadra(o, [desactivados |-> Desactivables(o.categoria),
                   conservados |-> {x \in Afectados(o.categoria) : Activo(x)} \ Desactivables(o.categoria)], Firma(o))
    BY RetiroPrevisto DEF AtrInv
  <2> QED BY <1>3, <2>1, EmitirBien DEF PrevisualizarRetiro, Ordenes
<1>4. ASSUME NEW o \in DeBaja, PrevisualizarBaja(t, o) PROVE AtrInv'
  <2>1. Cuadra(o, [desactivados |-> {x \in Productos : Activo(x)}, asignaciones |-> ConAsignacion], Firma(o))
    BY BajaPrevista DEF AtrInv
  <2> QED BY <1>4, <2>1, EmitirBien DEF PrevisualizarBaja, Ordenes
<1>5. ASSUME NEW o \in DeAnotar, PrevisualizarAnotacion(t, o) PROVE AtrInv'
  <2>1. Cuadra(o, [desactivados |-> {}], Firma(o))
    BY OrdenDice DEF Cuadra
  <2> QED BY <1>5, <2>1, EmitirBien DEF PrevisualizarAnotacion, Ordenes
<1> QED BY <1>1, <1>2, <1>3, <1>4, <1>5, OrdenDice

\* The preview of a product, whose showing and signing are two steps.
LEMMA PronosticarBien ==
  ASSUME AtrInv, UNCHANGED unidades, NEW t \in Solicitudes, NEW o \in DeMudar,
         Pronosticar(t, o) \/ FirmarPronostico(t, o)
  PROVE  AtrInv'
<1>1. CASE Pronosticar(t, o)
  <2> DEFINE s == [que |-> "PRONOSTICO", orden |-> o, mostrado |-> Prevision(o)]
  <2>1. s.que = "PRONOSTICO" /\ s.orden = o
    OBVIOUS
  <2>2. sesion' = [sesion EXCEPT ![t] = s]
    BY <1>1 DEF Pronosticar
  <2> HIDE DEF s
  <2>3. DOMAIN sesion' = Solicitudes /\ sesion'[t] = s /\ \A q \in Solicitudes : q # t => sesion'[q] = sesion[q]
    BY <2>2 DEF AtrInv
  <2>4. SesionTipada(sesion[t])' /\ SesionBien(sesion[t])'
    BY <2>1, <2>3 DEF SesionTipada, SesionBien, Ordenes
  <2>5. RegistroBien' /\ Perdura
    BY <1>1, QuietoBien DEF AtrInv, Pronosticar
  <2> QED BY <2>3, <2>4, <2>5, SesionesSiguen
<1>2. CASE FirmarPronostico(t, o)
  <2>1. o.que = "RECATEGORIZAR"
    BY OrdenDice
  <2>2. Prevision(o) = sesion[t].mostrado => Cuadra(o, sesion[t].mostrado, Firma(o))
    BY <2>1, PrevisionFirmadaEs DEF Cuadra
  <2> QED BY <1>2, <2>2, EmitirBien DEF FirmarPronostico, Ordenes
<1> QED BY <1>1, <1>2

\* What is read to be written later.
LEMMA LeerBien ==
  ASSUME AtrInv, UNCHANGED unidades, NEW t \in Solicitudes,
         \/ \E c \in Categorias : LeerAjuste(t, c)
         \/ \E x \in Productos : LeerRemapeo(t, x)
  PROVE  AtrInv'
<1>1. RegistroBien' /\ Perdura
  BY QuietoBien DEF AtrInv, LeerAjuste, LeerRemapeo
<1>2. ASSUME NEW c \in Categorias, LeerAjuste(t, c) PROVE AtrInv'
  <2> DEFINE s == [que |-> "AJUSTE", categoria |-> c, copia |-> asig[c].ajuste]
  <2>1. asig[c] \in Asignaciones /\ asig[c] # Nada /\ asig' = asig
    BY <1>2 DEF LeerAjuste, ConAsignacion, AtrInv, RegistroBien, FilasTipadas
  <2>2. s \in Sesiones
    BY <2>1 DEF Asignaciones, Sesiones
  <2>3. sesion' = [sesion EXCEPT ![t] = s] /\ s.que = "AJUSTE" /\ s.categoria = c
    BY <1>2 DEF LeerAjuste
  <2> HIDE DEF s
  <2>4. DOMAIN sesion' = Solicitudes /\ sesion'[t] = s /\ \A q \in Solicitudes : q # t => sesion'[q] = sesion[q]
    BY <2>3 DEF AtrInv
  <2>5. SesionTipada(sesion[t])' /\ SesionBien(sesion[t])'
    BY <2>1, <2>2, <2>3, <2>4 DEF SesionTipada, SesionBien
  <2> QED BY <1>1, <2>4, <2>5, SesionesSiguen
<1>3. ASSUME NEW x \in Productos, LeerRemapeo(t, x) PROVE AtrInv'
  <2> DEFINE s == [que |-> "REMAPEO", producto |-> x, n |-> remapeo[x].n, forma |-> definicion.forma]
  <2>1. /\ remapeo[x] \in Remapeos /\ remapeo[x].activo /\ donde[x] # Nada
        /\ UNCHANGED <<definicion, donde>>
    BY <1>3 DEF LeerRemapeo, Pendientes, Vivos, AtrInv, RegistroBien, FilasTipadas
  <2>2. Existe /\ definicion \in Definiciones
    BY <1>3, AplicaExiste DEF LeerRemapeo, AtrInv, RegistroBien, FilasTipadas, Existe
  <2>3. remapeo[x].n \in 1..MaxConversiones
    BY <2>1, AtributosSupuestos DEF Remapeos
  <2>4. definicion.forma \in Formas
    BY <2>2 DEF Definiciones
  <2>5. s \in Sesiones
    BY <2>3, <2>4 DEF Sesiones
  <2>6. sesion' = [sesion EXCEPT ![t] = s] /\ s.que = "REMAPEO" /\ s.producto = x
    BY <1>3 DEF LeerRemapeo
  <2> HIDE DEF s
  <2>7. DOMAIN sesion' = Solicitudes /\ sesion'[t] = s /\ \A q \in Solicitudes : q # t => sesion'[q] = sesion[q]
    BY <2>6 DEF AtrInv
  <2>8. SesionTipada(sesion[t])' /\ SesionBien(sesion[t])'
    BY <2>1, <2>2, <2>5, <2>6, <2>7 DEF SesionTipada, SesionBien, Existe
  <2> QED BY <1>1, <2>7, <2>8, SesionesSiguen
<1> QED BY <1>2, <1>3

\* A request that ends as it writes, or gives up.
LEMMA TerminarBien ==
  ASSUME AtrInv, RegistroBien', Perdura, NEW t \in Solicitudes,
         sesion' = [sesion EXCEPT ![t] = Nada] \/ sesion' = sesion
  PROVE  AtrInv'
BY SesionesSiguen DEF AtrInv

\* The confirmations.
LEMMA ConfirmarBien ==
  ASSUME AtrInv, UNCHANGED unidades, NEW t \in Solicitudes
  PROVE  /\ \A o \in DeAsignar : ConfirmarAsignacion(t, o) => AtrInv'
         /\ \A o \in DeConfigurar : ConfirmarConfiguracion(t, o) => AtrInv'
         /\ \A o \in DeCrear : ConfirmarCreacion(t, o) => AtrInv'
         /\ \A o \in DeQuitar : ConfirmarRetiro(t, o) => AtrInv'
         /\ \A o \in DeBaja : ConfirmarBaja(t, o) => AtrInv'
         /\ \A o \in DeAnotar : ConfirmarAnotacion(t, o) => AtrInv'
         /\ \A o \in DeMudar : ConfirmarPronostico(t, o) => AtrInv'
<1>1. RegistroBien
  BY DEF AtrInv
<1>2. \A o : Verificar(t, o) => sesion' = [sesion EXCEPT ![t] = Nada]
  BY DEF Verificar
<1>3. ASSUME NEW o \in Previstas, ConfirmarAsignacion(t, o) \/ ConfirmarConfiguracion(t, o) PROVE AtrInv'
  <2>1. o.categoria \in Categorias /\ o.ajuste \in Ajustes /\ o.rellenar \in BOOLEAN
    BY OrdenDice
  <2> QED BY <1>1, <1>2, <1>3, <2>1, AsignarBien, TerminarBien DEF ConfirmarAsignacion, ConfirmarConfiguracion
<1>4. ASSUME NEW o \in DeCrear, ConfirmarCreacion(t, o) PROVE AtrInv'
  <2>1. o.categoria \in Categorias /\ o.ajuste \in Ajustes /\ o.rellenar \in BOOLEAN /\ o.definicion \in Definiciones
    BY OrdenDice
  <2> QED BY <1>1, <1>2, <1>4, <2>1, CrearAtributoBien, TerminarBien DEF ConfirmarCreacion
<1>5. ASSUME NEW o \in DeQuitar, ConfirmarRetiro(t, o) PROVE AtrInv'
  <2>1. o.categoria \in Categorias
    BY OrdenDice
  <2> QED BY <1>1, <1>2, <1>5, <2>1, QuitarBien, TerminarBien DEF ConfirmarRetiro
<1>6. ASSUME NEW o, ConfirmarBaja(t, o) PROVE AtrInv'
  BY <1>1, <1>2, <1>6, DarDeBajaBien, TerminarBien DEF ConfirmarBaja
<1>7. ASSUME NEW o \in DeAnotar, ConfirmarAnotacion(t, o) PROVE AtrInv'
  <2>1. o.unidad \in Unidades
    BY OrdenDice
  <2> QED BY <1>1, <1>2, <1>7, <2>1, AnotarBien, TerminarBien DEF ConfirmarAnotacion
<1>8. ASSUME NEW o \in DeMudar, ConfirmarPronostico(t, o) PROVE AtrInv'
  <2>1. o.producto \in Productos /\ o.categoria \in Categorias /\ o.dato \in Datos \cup {Igual, Nulo}
    BY OrdenDice
  <2> QED BY <1>1, <1>2, <1>8, <2>1, RecategorizarBien, TerminarBien DEF ConfirmarPronostico
<1> QED BY <1>3, <1>4, <1>5, <1>6, <1>7, <1>8, OrdenDice

-----------------------------------------------------------------------------
(* The invariant *)

\* An attribute not yet created, and products not yet there.
LEMMA AtrInicioBien == AtrInit => AtrInv
<1> SUFFICES ASSUME AtrInit PROVE AtrInv
  OBVIOUS
<1>1. FilasTipadas
  <2>1. [n |-> 0, activo |-> FALSE] \in Remapeos /\ 0 \in 0..MaxConversiones
    BY AtributosSupuestos DEF Remapeos
  <2> QED BY <2>1 DEF AtrInit, FilasTipadas
<1>2. CambiosTipados /\ cambios = <<>>
  <2>1. <<>> \in Seq(Cambios) /\ Len(<<>>) <= MaxHistoria
    BY AtributosSupuestos
  <2> QED BY <2>1 DEF AtrInit, CambiosTipados
<1>3. Jerarquia!SinCiclos(padre)
  BY AtributosSupuestos DEF AtrInit, Jerarquia!SinCiclos
<1>4. \A i \in DOMAIN cambios : CambioBien(cambios[i])
  BY <1>2
<1> QED BY <1>1, <1>2, <1>3, <1>4 DEF AtrInit, AtrInv, RegistroBien, ValorConLugar, Existe

\* Every step keeps it.
LEMMA AtrPaso == AtrInv /\ [AtrNext]_atrVars => AtrInv'
<1> SUFFICES ASSUME AtrInv, [AtrNext]_atrVars PROVE AtrInv'
  OBVIOUS
<1>0. RegistroBien
  BY DEF AtrInv
<1>1. CASE UNCHANGED atrVars
  BY <1>0, <1>1, QuietoBien, SesionesSiguen DEF atrVars, AtrInv
<1>2. ASSUME NEW u \in Unidades, DesactivarUnidad(u) \/ ReactivarUnidad(u) PROVE AtrInv'
  <2>1. sesion' = sesion
    BY <1>2 DEF DesactivarUnidad, ReactivarUnidad
  <2> QED BY <1>0, <1>2, <2>1, UnidadBien, SesionesSiguen DEF AtrInv
<1>3. CASE SobreElAtributo /\ UNCHANGED unidades
  <2>1. ASSUME NEW f \in Formas, NEW u \in Unidades \cup {Sin}, Actualizar(f, u) PROVE AtrInv'
    <3>1. sesion' = sesion
      BY <2>1 DEF Actualizar
    <3> QED BY <1>0, <1>3, <2>1, <3>1, ActualizarBien, SesionesSiguen DEF AtrInv
  <2>2. CASE Revertir
    <3>1. sesion' = sesion
      BY <2>2 DEF Revertir
    <3> QED BY <1>0, <1>3, <2>2, <3>1, RevertirBien, SesionesSiguen DEF AtrInv
  <2>3. ASSUME NEW c \in Categorias, NEW ajuste \in SinConfirmar, UNCHANGED sesion,
               (\E d \in Definiciones : CrearAtributo(d, c, ajuste, FALSE)) \/ Asignar(c, ajuste, FALSE)
        PROVE  AtrInv'
    <3>1. ajuste \in Ajustes
      BY DEF SinConfirmar, Ajustes
    <3> QED BY <1>0, <1>3, <2>3, <3>1, CrearAtributoBien, AsignarBien, SesionesSiguen DEF AtrInv
  <2>4. ASSUME NEW t \in Solicitudes,
               \/ \E o \in DeAsignar : PrevisualizarAsignacion(t, o) \/ ConfirmarAsignacion(t, o)
               \/ \E o \in DeConfigurar : PrevisualizarConfiguracion(t, o) \/ ConfirmarConfiguracion(t, o)
               \/ \E o \in DeCrear : PrevisualizarCreacion(t, o) \/ ConfirmarCreacion(t, o)
               \/ \E o \in DeQuitar : PrevisualizarRetiro(t, o) \/ ConfirmarRetiro(t, o)
               \/ \E o \in DeBaja : PrevisualizarBaja(t, o) \/ ConfirmarBaja(t, o)
               \/ \E o \in DeAnotar : PrevisualizarAnotacion(t, o) \/ ConfirmarAnotacion(t, o)
               \/ \E o \in DeMudar : Pronosticar(t, o) \/ FirmarPronostico(t, o) \/ ConfirmarPronostico(t, o)
        PROVE  AtrInv'
    BY <1>3, <2>4, PrevisualizarBien, ConfirmarBien, PronosticarBien
  <2>5. ASSUME NEW t \in Solicitudes,
               \/ \E c \in Categorias : LeerAjuste(t, c)
               \/ \E x \in Productos : LeerRemapeo(t, x)
        PROVE  AtrInv'
    BY <1>3, <2>5, LeerBien
  <2>6. ASSUME NEW t \in Solicitudes, NEW obligatorio \in BOOLEAN, NEW defecto \in Defectos,
               EscribirAjuste(t, obligatorio, defecto)
        PROVE  AtrInv'
    <3>1. sesion' = [sesion EXCEPT ![t] = Nada]
      BY <2>6 DEF EscribirAjuste
    <3> QED BY <1>3, <2>6, <3>1, EscribirAjusteBien, TerminarBien
  <2>7. ASSUME NEW t \in Solicitudes, NEW d \in Datos, ResolverRemapeo(t, d) PROVE AtrInv'
    <3>1. sesion' = [sesion EXCEPT ![t] = Nada]
      BY <2>7 DEF ResolverRemapeo
    <3> QED BY <1>3, <2>7, <3>1, ResolverRemapeoBien, TerminarBien
  <2>8. ASSUME NEW t \in Solicitudes, Abandonar(t) PROVE AtrInv'
    BY <1>0, <1>3, <2>8, QuietoBien, TerminarBien DEF Abandonar
  <2>9. ASSUME NEW x \in Productos,
               \/ \E c \in Categorias, v \in Datos \cup {Igual} : CrearProducto(x, c, v)
               \/ \E v \in Datos \cup {Igual, Nulo} : EditarProducto(x, v)
               \/ BorrarProducto(x)
        PROVE  AtrInv'
    <3>1. sesion' = sesion
      BY <2>9 DEF CrearProducto, EditarProducto, BorrarProducto
    <3> QED BY <1>0, <1>3, <2>9, <3>1, CrearProductoBien, EditarProductoBien, BorrarProductoBien,
               SesionesSiguen DEF AtrInv
  <2>10. ASSUME NEW c \in Categorias, NEW p \in Categorias \cup {Raiz}, MoverCategoria(c, p) PROVE AtrInv'
    <3>1. sesion' = sesion
      BY <2>10 DEF MoverCategoria
    <3> QED BY <1>0, <1>3, <2>10, <3>1, MoverCategoriaBien, SesionesSiguen DEF AtrInv
  <2> QED BY <1>3, <2>1, <2>2, <2>3, <2>4, <2>5, <2>6, <2>7, <2>8, <2>9, <2>10 DEF SobreElAtributo
<1> QED BY <1>1, <1>2, <1>3 DEF AtrNext

\* The invariant holds in every state.
THEOREM AtrInvariante == AtrSpec => []AtrInv
<1> QED BY AtrInicioBien, AtrPaso, PTL DEF AtrSpec

\* Every row of Atributos has its type.
THEOREM AtrTiposCorrectos == AtrSpec => []AtrTypeOK
<1>1. AtrInv => AtrTypeOK
  BY DEF AtrInv, RegistroBien, FilasTipadas, CambiosTipados, SesionTipada, AtrTypeOK
<1> QED BY <1>1, AtrInvariante, PTL

-----------------------------------------------------------------------------
(* The steps, by who writes *)

\* A step that writes no row but those of units and the requests.
SinEscribir == UNCHANGED <<padre, donde, borrados, definicion, asig, valor, remapeo, cambios>>

Escribe ==
  \/ SinEscribir
  \/ \E f \in Formas, u \in Unidades \cup {Sin} : Actualizar(f, u)
  \/ \E u \in Unidades : Anotar(u)
  \/ DarDeBaja
  \/ Revertir
  \/ \E d \in Definiciones, c \in Categorias, ajuste \in Ajustes, rellenar \in BOOLEAN :
       CrearAtributo(d, c, ajuste, rellenar)
  \/ \E c \in Categorias, ajuste \in Ajustes, rellenar \in BOOLEAN :
       Asignar(c, ajuste, rellenar) \/ Configurar(c, ajuste, rellenar)
  \/ \E c \in Categorias : Quitar(c)
  \/ \E t \in Solicitudes, obligatorio \in BOOLEAN, defecto \in Defectos : EscribirAjuste(t, obligatorio, defecto)
  \/ \E t \in Solicitudes, d \in Datos : ResolverRemapeo(t, d)
  \/ \E x \in Productos, c \in Categorias, v \in Datos \cup {Igual} : CrearProducto(x, c, v)
  \/ \E x \in Productos, v \in Datos \cup {Igual, Nulo} : EditarProducto(x, v)
  \/ \E x \in Productos, c \in Categorias, v \in Datos \cup {Igual, Nulo} : Recategorizar(x, c, v)
  \/ \E x \in Productos : BorrarProducto(x)
  \/ \E c \in Categorias, p \in Categorias \cup {Raiz} : MoverCategoria(c, p)

\* Every step is a write of one of them.
LEMMA PasoEscribe ==
  ASSUME AtrNext PROVE Escribe
<1>1. ASSUME NEW u \in Unidades, DesactivarUnidad(u) \/ ReactivarUnidad(u) PROVE SinEscribir
  BY <1>1 DEF DesactivarUnidad, ReactivarUnidad, SinEscribir
<1>2. ASSUME NEW c \in Categorias, NEW ajuste \in SinConfirmar,
             (\E d \in Definiciones : CrearAtributo(d, c, ajuste, FALSE)) \/ Asignar(c, ajuste, FALSE)
      PROVE  Escribe
  <2>1. ajuste \in Ajustes
    BY DEF SinConfirmar, Ajustes
  <2> QED BY <1>2, <2>1 DEF Escribe
<1>3. ASSUME NEW t \in Solicitudes, NEW o,
             \/ o \in DeAsignar /\ PrevisualizarAsignacion(t, o)
             \/ o \in DeConfigurar /\ PrevisualizarConfiguracion(t, o)
             \/ o \in DeCrear /\ PrevisualizarCreacion(t, o)
             \/ o \in DeQuitar /\ PrevisualizarRetiro(t, o)
             \/ o \in DeBaja /\ PrevisualizarBaja(t, o)
             \/ o \in DeAnotar /\ PrevisualizarAnotacion(t, o)
             \/ o \in DeMudar /\ (Pronosticar(t, o) \/ FirmarPronostico(t, o))
      PROVE  SinEscribir
  BY <1>3 DEF PrevisualizarAsignacion, PrevisualizarConfiguracion, PrevisualizarCreacion, PrevisualizarRetiro,
              PrevisualizarBaja, PrevisualizarAnotacion, Pronosticar, FirmarPronostico, Emitir, SinEscribir
<1>4. ASSUME NEW t \in Solicitudes, NEW o,
             \/ o \in DeAsignar /\ ConfirmarAsignacion(t, o)
             \/ o \in DeConfigurar /\ ConfirmarConfiguracion(t, o)
             \/ o \in DeCrear /\ ConfirmarCreacion(t, o)
             \/ o \in DeQuitar /\ ConfirmarRetiro(t, o)
             \/ o \in DeBaja /\ ConfirmarBaja(t, o)
             \/ o \in DeAnotar /\ ConfirmarAnotacion(t, o)
             \/ o \in DeMudar /\ ConfirmarPronostico(t, o)
      PROVE  Escribe
  BY <1>4, OrdenDice DEF ConfirmarAsignacion, ConfirmarConfiguracion, ConfirmarCreacion, ConfirmarRetiro,
              ConfirmarBaja, ConfirmarAnotacion, ConfirmarPronostico, Escribe
<1>5. ASSUME NEW t \in Solicitudes,
             \/ \E c \in Categorias : LeerAjuste(t, c)
             \/ \E x \in Productos : LeerRemapeo(t, x)
             \/ Abandonar(t)
      PROVE  SinEscribir
  BY <1>5 DEF LeerAjuste, LeerRemapeo, Abandonar, SinEscribir
<1>6. SinEscribir => Escribe
  BY DEF Escribe
<1>7. CASE SobreElAtributo
  <2>1. ASSUME NEW t \in Solicitudes,
               \/ \E o \in DeAsignar : PrevisualizarAsignacion(t, o) \/ ConfirmarAsignacion(t, o)
               \/ \E o \in DeConfigurar : PrevisualizarConfiguracion(t, o) \/ ConfirmarConfiguracion(t, o)
               \/ \E o \in DeCrear : PrevisualizarCreacion(t, o) \/ ConfirmarCreacion(t, o)
               \/ \E o \in DeQuitar : PrevisualizarRetiro(t, o) \/ ConfirmarRetiro(t, o)
               \/ \E o \in DeBaja : PrevisualizarBaja(t, o) \/ ConfirmarBaja(t, o)
               \/ \E o \in DeAnotar : PrevisualizarAnotacion(t, o) \/ ConfirmarAnotacion(t, o)
               \/ \E o \in DeMudar : Pronosticar(t, o) \/ FirmarPronostico(t, o) \/ ConfirmarPronostico(t, o)
        PROVE  Escribe
    BY <2>1, <1>3, <1>4, <1>6
  <2>2. ASSUME NEW t \in Solicitudes,
               \/ \E obligatorio \in BOOLEAN, defecto \in Defectos : EscribirAjuste(t, obligatorio, defecto)
               \/ \E d \in Datos : ResolverRemapeo(t, d)
        PROVE  Escribe
    BY <2>2 DEF Escribe
  <2>3. ASSUME \/ \E f \in Formas, u \in Unidades \cup {Sin} : Actualizar(f, u)
               \/ Revertir
               \/ \E x \in Productos :
                    \/ \E c \in Categorias, v \in Datos \cup {Igual} : CrearProducto(x, c, v)
                    \/ \E v \in Datos \cup {Igual, Nulo} : EditarProducto(x, v)
                    \/ BorrarProducto(x)
               \/ \E c \in Categorias, p \in Categorias \cup {Raiz} : MoverCategoria(c, p)
        PROVE  Escribe
    BY <2>3 DEF Escribe
  <2> QED BY <1>2, <1>5, <1>6, <1>7, <2>1, <2>2, <2>3 DEF SobreElAtributo
<1> QED BY <1>1, <1>6, <1>7 DEF AtrNext

-----------------------------------------------------------------------------
(* Units *)

\* Every unit that is in force, or may be brought back, is in use.
LEMMA UnidadesDisponibles == AtrInv => UnidadDisponible
<1> SUFFICES ASSUME AtrInv PROVE UnidadDisponible
  OBVIOUS
<1>1. RegistroBien
  BY DEF AtrInv
<1>2. ASSUME NEW i \in DOMAIN cambios PROVE Disponible(cambios[i].antes.definicion.unidad)
  <2>1. CambioBien(cambios[i]) /\ cambios[i] \in Cambios
    BY <1>1 DEF RegistroBien, CambiosTipados
  <2>2. cambios[i].antes.definicion \in Definiciones
    BY <2>1 DEF Cambios, Fotos
  <2>3. cambios[i].antes.definicion.unidad \in Unidades \cup {Sin}
    BY <2>2 DEF Definiciones
  <2> QED BY <1>1, <2>1, <2>3, AtributosSupuestos DEF CambioBien, RegistroBien, Disponible
<1> QED BY <1>1, <1>2 DEF RegistroBien, UnidadDisponible

\* A step changes the unit over values only from none, or as it undoes a change.
LEMMA UnidadSeguraPaso ==
  ASSUME AtrInv, AtrNext, Existe, NEW x \in Productos, valor[x] # Nada, definicion'.unidad # definicion.unidad
  PROVE  definicion.unidad = Sin \/ (Deshace /\ valor = Ultima.despues.valor)
<1>1. Escribe
  BY PasoEscribe
<1>2. ASSUME NEW f \in Formas, NEW u \in Unidades \cup {Sin}, Actualizar(f, u)
      PROVE  FALSE
  <2>1. definicion \in Definiciones
    BY DEF AtrInv, RegistroBien, FilasTipadas, Existe
  <2>2. definicion'.unidad = u
    BY <1>2, <2>1 DEF Actualizar, Definiciones
  <2>3. Deja(Foto)
    BY DEF Deja, Foto
  <2> QED BY <1>2, <2>2, <2>3 DEF Actualizar, UnidadCambiable, ConHistoria
<1>3. CASE Revertir
  <2>1. cambios \in Seq(Cambios) /\ cambios # <<>> /\ cambios' = SubSeq(cambios, 1, Len(cambios) - 1)
    BY <1>3 DEF Revertir, Intacta, AtrInv, RegistroBien, CambiosTipados
  <2>2. Deshace
    BY <2>1 DEF Deshace
  <2> QED BY <1>3, <2>2 DEF Revertir, Intacta, Foto
<1>4. DarDeBaja => definicion'.unidad = definicion.unidad
  BY DEF DarDeBaja, AtrInv, RegistroBien, FilasTipadas, Existe, Definiciones
<1> QED BY <1>1, <1>2, <1>3, <1>4
        DEF Escribe, SinEscribir, Anotar, CrearAtributo, Alta, Asignar, Configurar, Quitar, EscribirAjuste,
            ResolverRemapeo, CrearProducto, EditarProducto, Recategorizar, BorrarProducto, MoverCategoria

\* A value written in one unit is never read in another, nor in one no longer in use.
THEOREM UnidadesSeguras == AtrSpec => UnidadSegura
<1>1. AtrInv /\ AtrInv' /\ [AtrNext]_atrVars
        => [/\ UnidadDisponible'
            /\ Existe /\ (\E x \in Productos : valor[x] # Nada) /\ definicion'.unidad # definicion.unidad
                 => definicion.unidad = Sin \/ (Deshace /\ valor = Ultima.despues.valor)]_atrVars
  <2>1. (AtrInv => UnidadDisponible)'
    BY UnidadesDisponibles, PTL
  <2>2. AtrInv' => UnidadDisponible'
    BY <2>1
  <2> QED BY <2>2, UnidadSeguraPaso
<1> QED BY <1>1, AtrInvariante, PTL DEF AtrSpec, UnidadSegura

-----------------------------------------------------------------------------
(* Values stay readable, or somebody is asked for another *)

\* A row in use that is put in use, or one out of use that is taken out, is the same row.
LEMMA FilaIgual ==
  ASSUME NEW r \in Filas
  PROVE  /\ r.activo => [r EXCEPT !.activo = TRUE] = r
         /\ ~r.activo => [r EXCEPT !.activo = FALSE] = r
         /\ ~[r EXCEPT !.activo = FALSE].activo
         /\ [r EXCEPT !.activo = TRUE].activo
         /\ [r EXCEPT !.activo = TRUE].dato = r.dato
         /\ \A k : [r EXCEPT !.columna = k].columna = k /\ [r EXCEPT !.columna = k].dato = r.dato
BY DEF Filas

\* One in use that is taken out is not the same.
LEMMA FilaCambia ==
  ASSUME NEW r \in Filas, r.activo PROVE [r EXCEPT !.activo = FALSE] # r
BY FilaIgual

\* The backfill changes no value in use.
LEMMA AjustarRespeta ==
  ASSUME RegistroBien, NEW c, NEW ajuste, NEW rellenar, NEW f, Ajustar(c, ajuste, rellenar, f),
         NEW x \in Productos, valor'[x] # valor[x]
  PROVE  /\ ~Activo(x) /\ rellenar /\ x \in Afectados(c)'
         /\ \/ valor[x] = Nada /\ valor'[x] = Fila(ajuste.defecto, f)
            \/ /\ valor[x] # Nada /\ <<valor[x].dato, f>> \in Admite
               /\ valor'[x] = [valor[x] EXCEPT !.activo = TRUE]
<1>1. valor[x] \in Filas \cup {Nada}
  BY DEF RegistroBien, FilasTipadas
<1>2. rellenar /\ valor' = Rellenado(c, ajuste.defecto, f)
  BY DEF Ajustar
<1>3. valor'[x] = IF x \notin Afectados(c)' THEN valor[x]
                  ELSE IF valor[x] = Nada THEN Fila(ajuste.defecto, f)
                  ELSE IF <<valor[x].dato, f>> \in Admite THEN [valor[x] EXCEPT !.activo = TRUE]
                  ELSE valor[x]
  BY <1>2 DEF Rellenado
<1> QED BY <1>1, <1>2, <1>3, FilaIgual DEF Activo

\* A value that is kept, under the same form and with the same remap, is as it was.
LEMMA AtendidoIgual ==
  ASSUME NEW x \in Productos, Atendido(x), definicion'.forma = definicion.forma,
         valor'[x] = valor[x], remapeo'[x] = remapeo[x]
  PROVE  Atendido(x)'
BY DEF Atendido, Legible, Valido, Activo

\* One just written with a datum that the form admits is readable.
LEMMA FilaLegible ==
  ASSUME NEW x \in Productos, NEW d, <<d, definicion'.forma>> \in Admite,
         valor'[x] = Fila(d, definicion'.forma)
  PROVE  Legible(x)' /\ Valido(x)' /\ Activo(x)' /\ valor'[x].dato = d
<1>1. d \in Datos /\ definicion'.forma \in Formas
  BY AdmiteDatos
<1>2. Fila(d, definicion'.forma) \in Filas
  BY <1>1, FilaTipo
<1>3. valor'[x] \in Filas
  BY <1>2
<1>4. valor'[x].activo /\ valor'[x].dato = d /\ valor'[x].columna = Columna[definicion'.forma]
  BY DEF Fila
<1>5. Activo(x)'
  BY <1>3, <1>4, NadaAparte DEF Activo
<1> QED BY <1>4, <1>5 DEF Legible, Valido

\* What was readable, and is converted, still is; and what was being remapped is not converted.
LEMMA ActualizarAtiende ==
  ASSUME RegistroBien, NEW f \in Formas, NEW u \in Unidades \cup {Sin}, Actualizar(f, u),
         NEW x \in Productos, Activo(x), Atendido(x)
  PROVE  Atendido(x)'
<1>1. definicion'.forma = f
  BY DEF Actualizar, Vigente, Existe, RegistroBien, FilasTipadas, Definiciones
<1>2. CASE f = definicion.forma
  BY <1>1, <1>2, AtendidoIgual DEF Actualizar
<1>3. CASE f # definicion.forma
  <2>1. ConvertirValores(f)
    BY <1>3 DEF Actualizar
  <2>2. valor[x] \in Filas
    BY DEF Activo, RegistroBien, FilasTipadas
  <2>3. CASE Convertible(x, f)
    <3>1. valor'[x] = [valor[x] EXCEPT !.columna = Columna[f]]
      BY <2>1, <2>3 DEF ConvertirValores
    <3>2. valor'[x] \in Filas /\ valor'[x].activo /\ valor'[x].dato = valor[x].dato /\ valor'[x].columna = Columna[f]
      BY <2>2, <3>1, AtributosSupuestos DEF Filas, Activo
    <3>3. Legible(x)'
      BY <1>1, <2>3, <3>2, NadaAparte DEF Legible, Valido, Activo, Convertible
    <3> QED BY <3>3 DEF Atendido
  <2>4. CASE ~Convertible(x, f)
    <3>1. x \in Inconvertibles(f)
      BY <2>4 DEF Inconvertibles
    <3>2. remapeo'[x] = [n |-> conversiones + 1, activo |-> TRUE]
      BY <2>1, <3>1 DEF ConvertirValores
    <3> QED BY <3>2 DEF Atendido
  <2> QED BY <2>3, <2>4
<1> QED BY <1>2, <1>3

\* A remap answered in time leaves a readable value in force.
LEMMA ResolverATiempo ==
  ASSUME AtrInv, NEW t \in Solicitudes, NEW d \in Datos, ResolverRemapeo(t, d), ~AlguienTarde,
         NEW x, x = sesion[t].producto
  PROVE  /\ x \in Productos /\ x \in Vivos /\ AplicaEn(donde[x])
         /\ Legible(x)' /\ Valido(x)'
         /\ \A y \in Productos : y # x => valor'[y] = valor[y] /\ remapeo'[y] = remapeo[y]
<1>1. sesion[t] \in Sesiones /\ sesion[t].que = "REMAPEO"
  BY DEF AtrInv, ResolverRemapeo, SesionTipada
<1>2. x \in Productos /\ sesion[t].forma \in Formas
  BY <1>1 DEF Sesiones
<1>3. sesion[t] # Nada /\ sesion'[t] = Nada
  BY DEF ResolverRemapeo, AtrInv
<1>4. x \in Vivos /\ AplicaEn(donde[x]) /\ sesion[t].forma = definicion.forma
  BY <1>1, <1>3 DEF AlguienTarde, Tardia
<1>5. /\ valor'[x] = Fila(d, definicion'.forma)
      /\ \A y \in Productos : y # x => valor'[y] = valor[y] /\ remapeo'[y] = remapeo[y]
  BY <1>2, <1>4 DEF ResolverRemapeo, AtrInv, RegistroBien, FilasTipadas, Fila
<1>6. <<d, definicion'.forma>> \in Admite
  BY <1>4 DEF ResolverRemapeo
<1> QED BY <1>2, <1>4, <1>5, <1>6, FilaLegible

\* No step loses sight of a value in use.
LEMMA ValoresAtendidosPaso ==
  ASSUME AtrInv, AtrNext, NEW x \in Productos, x \in Vivos, Activo(x), Atendido(x), Activo(x)', ~Deshace, ~AlguienTarde
  PROVE  Atendido(x)'
<1>0. RegistroBien /\ Escribe /\ valor[x] \in Filas /\ Existe
  BY PasoEscribe DEF AtrInv, RegistroBien, FilasTipadas, Activo
<1>1. SinEscribir => Atendido(x)'
  BY AtendidoIgual DEF SinEscribir
<1>2. ASSUME NEW u, Anotar(u) PROVE Atendido(x)'
  <2>1. definicion'.forma = definicion.forma
    BY <1>0, <1>2 DEF Anotar, Existe, RegistroBien, FilasTipadas, Definiciones
  <2> QED BY <1>2, <2>1, AtendidoIgual DEF Anotar
<1>3. ~DarDeBaja
  <2> SUFFICES ASSUME DarDeBaja PROVE FALSE
    OBVIOUS
  <2>1. valor'[x] = [valor[x] EXCEPT !.activo = FALSE]
    BY DEF DarDeBaja, Activo
  <2> QED BY <1>0, <2>1, FilaIgual DEF Activo
<1>4. ~Revertir
  <2> SUFFICES ASSUME Revertir PROVE FALSE
    OBVIOUS
  <2>1. cambios \in Seq(Cambios) /\ cambios # <<>> /\ cambios' = SubSeq(cambios, 1, Len(cambios) - 1)
    BY <1>0 DEF Revertir, Intacta, RegistroBien, CambiosTipados
  <2> QED BY <2>1 DEF Deshace
<1>5. ASSUME NEW c, NEW ajuste, NEW rellenar, Asignar(c, ajuste, rellenar) \/ Configurar(c, ajuste, rellenar)
      PROVE  Atendido(x)'
  <2>1. Ajustar(c, ajuste, rellenar, definicion.forma) /\ definicion' = definicion
    BY <1>5 DEF Asignar, Configurar
  <2>2. valor'[x] = valor[x] /\ remapeo' = remapeo
    BY <1>0, <2>1, AjustarRespeta DEF Ajustar
  <2> QED BY <2>1, <2>2, AtendidoIgual
<1>6. ASSUME NEW c, Quitar(c) PROVE Atendido(x)'
  <2>1. valor'[x] = IF x \in Desactivables(c) THEN [valor[x] EXCEPT !.activo = FALSE] ELSE valor[x]
    BY <1>6 DEF Quitar
  <2>2. valor'[x] = valor[x]
    BY <1>0, <2>1, FilaIgual DEF Activo
  <2> QED BY <1>6, <2>2, AtendidoIgual DEF Quitar
<1>7. ASSUME NEW t, NEW b, NEW d, EscribirAjuste(t, b, d) PROVE Atendido(x)'
  BY <1>7, AtendidoIgual DEF EscribirAjuste
<1>8. ASSUME NEW t \in Solicitudes, NEW d \in Datos, ResolverRemapeo(t, d) PROVE Atendido(x)'
  <2>1. CASE x = sesion[t].producto
    <3>1. Legible(x)'
      BY <1>8, <2>1, ResolverATiempo
    <3> QED BY <3>1 DEF Atendido
  <2>2. CASE x # sesion[t].producto
    <3>1. valor'[x] = valor[x] /\ remapeo'[x] = remapeo[x]
      BY <1>8, <2>2, ResolverATiempo DEF AtrInv
    <3> QED BY <1>8, <3>1, AtendidoIgual DEF ResolverRemapeo
  <2> QED BY <2>1, <2>2
<1>9. ASSUME NEW y, NEW c, NEW v, CrearProducto(y, c, v) PROVE Atendido(x)'
  <2>1. y # x
    BY <1>9 DEF CrearProducto, Vivos
  <2> QED BY <1>0, <1>9, <2>1, AtendidoIgual DEF CrearProducto, RegistroBien, FilasTipadas
<1>10. ASSUME NEW y, NEW v \in Datos \cup {Igual, Nulo}, EditarProducto(y, v) PROVE Atendido(x)'
  <2>1. CASE y = x /\ v \in Datos
    <3>1. valor'[x] = Fila(v, definicion'.forma) /\ <<v, definicion'.forma>> \in Admite
      BY <1>0, <1>10, <2>1 DEF EditarProducto, RegistroBien, FilasTipadas
    <3> QED BY <3>1, FilaLegible DEF Atendido
  <2>2. CASE y = x /\ v = Nulo
    <3>1. valor'[x] = [valor[x] EXCEPT !.activo = FALSE]
      BY <1>0, <1>10, <2>2, AtributosSupuestos DEF EditarProducto, RegistroBien, FilasTipadas
    <3> QED BY <1>0, <3>1, FilaIgual DEF Activo
  <2>3. CASE y # x \/ v = Igual
    <3>1. valor'[x] = valor[x]
      BY <1>0, <1>10, <2>3, AtributosSupuestos DEF EditarProducto, RegistroBien, FilasTipadas
    <3> QED BY <1>10, <3>1, AtendidoIgual DEF EditarProducto
  <2> QED BY <2>1, <2>2, <2>3
<1>11. ASSUME NEW y, NEW c, NEW v \in Datos \cup {Igual, Nulo}, Recategorizar(y, c, v) PROVE Atendido(x)'
  <2>0. valor \in [Productos -> Filas \cup {Nada}]
    BY <1>0 DEF RegistroBien, FilasTipadas
  <2>1. CASE y = x /\ v \in Datos
    <3>1. AplicaEn(c) /\ <<v, definicion.forma>> \in Admite
      BY <1>11, <2>1, AtributosSupuestos, SuerteDice DEF Recategorizar
    <3>2. valor'[x] = Fila(v, definicion'.forma) /\ <<v, definicion'.forma>> \in Admite
      BY <2>0, <1>11, <2>1, <3>1 DEF Recategorizar
    <3> QED BY <3>2, FilaLegible DEF Atendido
  <2>2. CASE y = x /\ v \notin Datos /\ Suerte(x, c, v) = "DESACTIVA"
    <3>1. valor'[x] = [valor[x] EXCEPT !.activo = FALSE]
      BY <2>0, <1>11, <2>2 DEF Recategorizar
    <3> QED BY <1>0, <3>1, FilaIgual DEF Activo
  <2>3. CASE y # x \/ (v \notin Datos /\ Suerte(x, c, v) # "DESACTIVA")
    <3>1. Suerte(x, c, v) # "DEFECTO"
      BY SuerteDice, AtributosSupuestos
    <3>2. valor'[x] = valor[x]
      BY <2>0, <1>11, <2>3, <3>1 DEF Recategorizar
    <3> QED BY <1>11, <3>2, AtendidoIgual DEF Recategorizar
  <2> QED BY <2>1, <2>2, <2>3
<1>12. ASSUME NEW y, BorrarProducto(y) PROVE Atendido(x)'
  <2>1. valor'[x] = valor[x] \/ valor'[x] = [valor[x] EXCEPT !.activo = FALSE]
    BY <1>0, <1>12 DEF BorrarProducto, RegistroBien, FilasTipadas
  <2>2. valor'[x] = valor[x]
    BY <1>0, <2>1, FilaIgual DEF Activo
  <2> QED BY <1>12, <2>2, AtendidoIgual DEF BorrarProducto
<1>13. ASSUME NEW c, NEW p, MoverCategoria(c, p) PROVE Atendido(x)'
  BY <1>13, AtendidoIgual DEF MoverCategoria
<1>14. ASSUME NEW d, NEW c, NEW ajuste, NEW rellenar, CrearAtributo(d, c, ajuste, rellenar) PROVE FALSE
  BY <1>0, <1>14 DEF CrearAtributo, Alta
<1> QED BY <1>0, <1>1, <1>2, <1>3, <1>4, <1>5, <1>6, <1>7, <1>8, <1>9, <1>10, <1>11, <1>12, <1>13, <1>14,
           ActualizarAtiende DEF Escribe

\* No step but an undo and a late answer leaves a value in use unreadable and unattended.
THEOREM ValoresSiempreAtendidos == AtrSpec => SinValoresPerdidos
<1>1. AtrInv /\ [AtrNext]_atrVars
        => [\A x \in Vivos : Activo(x) /\ Atendido(x) /\ ~Atendido(x)' /\ Activo(x)'
              => Deshace \/ AlguienTarde]_atrVars
  <2>1. \A x \in Vivos : x \in Productos
    BY DEF Vivos
  <2> QED BY <2>1, ValoresAtendidosPaso
<1> QED BY <1>1, AtrInvariante, PTL DEF AtrSpec, SinValoresPerdidos

-----------------------------------------------------------------------------
(* What was deactivated can be reactivated *)

\* Nothing applies while the attribute is inactive, and a deactivation leaves nothing active.
LEMMA BajaInerte ==
  ASSUME RegistroBien, Reactivable, ~definicion.activo
  PROVE  /\ ConAsignacion = {} /\ \A c : ~AplicaEn(c) /\ ~RequiereEn(c)
         /\ \A x \in Productos : valor[x] \in Filas \cup {Nada} /\ ~Activo(x)
<1>1. Foto = Ultima.despues /\ CambioBien(Ultima) /\ Ultima.operacion = "BAJA"
  BY UltimaBien DEF Reactivable, Intacta
<1>2. asig = Ultima.despues.asig /\ valor = Ultima.despues.valor
  BY <1>1 DEF Foto
<1>3. ConAsignacion = {} /\ \A x \in Productos : ~Activo(x)
  BY <1>1, <1>2 DEF CambioBien, ConAsignacion, Activo
<1> QED BY <1>3 DEF AplicaEn, AplicaCon, RequiereEn, RequiereCon, Vigente, RegistroBien, FilasTipadas

\* So no step that leaves it inactive writes a row, but for late answers.
LEMMA BajaSigue ==
  ASSUME AtrInv, AtrNext, Existe, ~definicion.activo, ~definicion'.activo, Reactivable, ~AlguienTarde
  PROVE  Reactivable'
<1>0. RegistroBien /\ Escribe /\ valor \in [Productos -> Filas \cup {Nada}]
  BY PasoEscribe DEF AtrInv, RegistroBien, FilasTipadas
<1>1. SUFFICES UNCHANGED <<definicion, asig, valor, remapeo, cambios>>
  BY DEF Reactivable, Intacta, Ultima, Foto
<1>2. /\ ConAsignacion = {} /\ \A c : ~AplicaEn(c) /\ ~RequiereEn(c)
      /\ \A x \in Productos : valor[x] \in Filas \cup {Nada} /\ ~Activo(x)
  BY <1>0, BajaInerte
<1>3. ~Revertir
  <2>1. CambioBien(Ultima)
    BY <1>0, UltimaBien DEF Reactivable, Intacta
  <2> QED BY <2>1 DEF Revertir, Restaurar, CambioBien
<1>4. ASSUME NEW f, NEW u, NEW d, NEW c, NEW ajuste, NEW rellenar
      PROVE  /\ ~Actualizar(f, u) /\ ~Anotar(u) /\ ~DarDeBaja /\ ~CrearAtributo(d, c, ajuste, rellenar)
             /\ ~Asignar(c, ajuste, rellenar) /\ ~Configurar(c, ajuste, rellenar) /\ ~Quitar(c)
  BY <1>2 DEF Actualizar, Anotar, DarDeBaja, CrearAtributo, Alta, Asignar, Configurar, Quitar, Vigente
<1>5. ASSUME NEW t \in Solicitudes, NEW b, NEW d, EscribirAjuste(t, b, d) PROVE FALSE
  <2>1. sesion[t] \in Sesiones /\ sesion[t].que = "AJUSTE" /\ sesion[t] # Nada /\ sesion'[t] = Nada
    BY <1>5 DEF AtrInv, EscribirAjuste, SesionTipada
  <2>2. sesion[t].categoria \in Categorias
    BY <2>1 DEF Sesiones
  <2>3. asig[sesion[t].categoria] # [activo |-> TRUE, ajuste |-> sesion[t].copia]
    <3> SUFFICES ASSUME asig[sesion[t].categoria] = [activo |-> TRUE, ajuste |-> sesion[t].copia] PROVE FALSE
      OBVIOUS
    <3>1. asig[sesion[t].categoria] # Nada
      BY <2>1 DEF AtrInv, SesionBien
    <3> QED BY <1>2, <2>2, <3>1 DEF ConAsignacion
  <2> QED BY <2>1, <2>3 DEF AlguienTarde, Tardia
<1>6. ASSUME NEW t \in Solicitudes, NEW d \in Datos, ResolverRemapeo(t, d) PROVE FALSE
  BY <1>2, <1>6, ResolverATiempo
<1>7. ASSUME NEW x \in Productos, NEW c, NEW v, CrearProducto(x, c, v) PROVE valor' = valor
  BY <1>0, <1>2, <1>7 DEF CrearProducto
<1>8. ASSUME NEW x \in Productos, NEW v \in Datos \cup {Igual, Nulo}, EditarProducto(x, v) PROVE valor' = valor
  <2>1. v = Igual /\ v \notin Datos
    BY <1>2, <1>8, AtributosSupuestos DEF EditarProducto
  <2> QED BY <1>0, <1>2, <1>8, <2>1 DEF EditarProducto
<1>9. ASSUME NEW x \in Productos, NEW c \in Categorias, NEW v \in Datos \cup {Igual, Nulo}, Recategorizar(x, c, v)
      PROVE  valor' = valor
  <2>1. v = Igual /\ v \notin Datos
    BY <1>2, <1>9, AtributosSupuestos DEF Recategorizar
  <2>2. Suerte(x, c, v) = "NADA"
    <3>1. ~AplicaEn(c) /\ ~Activo(x)
      BY <1>2
    <3>2. ~AplicaEn(c) => Suerte(x, c, v) = IF Activo(x) THEN "DESACTIVA" ELSE "NADA"
      BY SuerteDice
    <3> QED BY <3>1, <3>2
  <2> QED BY <1>0, <1>9, <2>1, <2>2 DEF Recategorizar
<1>10. ASSUME NEW x \in Productos, BorrarProducto(x) PROVE valor' = valor
  <2>1. valor[x] # Nada => [valor[x] EXCEPT !.activo = FALSE] = valor[x]
    BY <1>2, FilaIgual DEF Activo
  <2>2. valor' = [valor EXCEPT ![x] = valor[x]]
    BY <1>0, <1>10, <2>1 DEF BorrarProducto
  <2> QED BY <1>0, <2>2
<1>11. CASE SinEscribir
  BY <1>11 DEF SinEscribir
<1>12. ASSUME NEW x \in Productos, NEW c \in Categorias, NEW v \in Datos \cup {Igual, Nulo},
              CrearProducto(x, c, v) \/ EditarProducto(x, v) \/ Recategorizar(x, c, v) \/ BorrarProducto(x)
       PROVE  UNCHANGED <<definicion, asig, valor, remapeo, cambios>>
  BY <1>7, <1>8, <1>9, <1>10, <1>12 DEF CrearProducto, EditarProducto, Recategorizar, BorrarProducto
<1>13. ASSUME NEW c, NEW p, MoverCategoria(c, p) PROVE UNCHANGED <<definicion, asig, valor, remapeo, cambios>>
  BY <1>13 DEF MoverCategoria
<1>14. ASSUME NEW x \in Productos, NEW v \in Datos \cup {Igual, Nulo}, EditarProducto(x, v) \/ BorrarProducto(x)
       PROVE  UNCHANGED <<definicion, asig, valor, remapeo, cambios>>
  BY <1>8, <1>10, <1>14 DEF EditarProducto, BorrarProducto
<1>15. \/ SinEscribir
       \/ \E x \in Productos, c \in Categorias, v \in Datos \cup {Igual} : CrearProducto(x, c, v)
       \/ \E x \in Productos, v \in Datos \cup {Igual, Nulo} : EditarProducto(x, v)
       \/ \E x \in Productos, c \in Categorias, v \in Datos \cup {Igual, Nulo} : Recategorizar(x, c, v)
       \/ \E x \in Productos : BorrarProducto(x)
       \/ \E c \in Categorias, p \in Categorias \cup {Raiz} : MoverCategoria(c, p)
  BY <1>0, <1>3, <1>4, <1>5, <1>6 DEF Escribe
<1> QED BY <1>11, <1>12, <1>13, <1>14, <1>15

\* The step that deactivates it leaves the snapshot that its reactivation will look for.
LEMMA BajaEmpieza ==
  ASSUME AtrInv, AtrNext, Existe, definicion.activo, ~definicion'.activo
  PROVE  Reactivable'
<1>0. RegistroBien /\ Escribe /\ definicion \in Definiciones /\ cambios \in Seq(Cambios)
  BY PasoEscribe DEF AtrInv, RegistroBien, FilasTipadas, CambiosTipados, Existe
<1>1. DarDeBaja
  <2>1. ASSUME NEW f, NEW u, Actualizar(f, u) PROVE FALSE
    BY <1>0, <2>1 DEF Actualizar, Definiciones
  <2>2. ASSUME NEW u, Anotar(u) PROVE FALSE
    BY <1>0, <2>2 DEF Anotar, Definiciones
  <2>3. ASSUME Revertir PROVE FALSE
    <3>1. CambioBien(Ultima)
      BY <1>0, <2>3, UltimaBien DEF Revertir, Intacta
    <3> QED BY <2>3, <3>1 DEF Revertir, Restaurar, CambioBien
  <2> QED BY <1>0, <2>1, <2>2, <2>3
          DEF Escribe, SinEscribir, CrearAtributo, Alta, Asignar, Configurar, Quitar, EscribirAjuste,
              ResolverRemapeo, CrearProducto, EditarProducto, Recategorizar, BorrarProducto, MoverCategoria
<1> DEFINE h == [operacion |-> "BAJA", antes |-> Foto, despues |-> Foto']
<1>2. cambios' = Append(cambios, h) /\ h.operacion = "BAJA" /\ h.despues = Foto'
  BY <1>1 DEF DarDeBaja, Fotografiar
<1> HIDE DEF h
<1>3. cambios'[Len(cambios')] = h /\ cambios' # <<>>
  BY <1>0, <1>2
<1> QED BY <1>2, <1>3 DEF Reactivable, Intacta, Ultima

\* A deactivated attribute can be reactivated, but for late answers.
THEOREM BajaSiempreReversible == AtrSpec => BajaReversible
<1>1. AtrInv /\ [AtrNext]_atrVars
        => [Existe /\ ~definicion'.activo /\ (definicion.activo \/ Reactivable) => Reactivable' \/ AlguienTarde]_atrVars
  BY BajaEmpieza, BajaSigue
<1> QED BY <1>1, AtrInvariante, PTL DEF AtrSpec, BajaReversible

-----------------------------------------------------------------------------
(* What is confirmed is what was shown *)

\* Where the hierarchy stays, what is in force after a step is told by the assignments.
LEMMA AplicaTras ==
  ASSUME padre' = padre, NEW d
  PROVE  /\ AplicaEn(d)' <=> Vigente' /\ ConAsignacion' \cap Ancestros(d) # {}
         /\ OrigenDe(d)' = OrigenCon(ConAsignacion', d)
BY DEF AplicaEn, AplicaCon, Ancestros, OrigenDe, OrigenCon, Vigente, Existe

\* The assignment that is written is there afterwards, with the others as they were.
LEMMA AjustarAsigna ==
  ASSUME RegistroBien, NEW c \in Categorias, NEW ajuste, NEW rellenar, NEW f, Ajustar(c, ajuste, rellenar, f),
         ajuste \in Ajustes
  PROVE  /\ ConAsignacion' = ConAsignacion \cup {c}
         /\ asig'[c].ajuste = ajuste /\ \A d \in Categorias : d # c => asig'[d] = asig[d]
<1>1. asig \in [Categorias -> Asignaciones \cup {Nada}]
  BY DEF RegistroBien, FilasTipadas
<1>2. asig' = [asig EXCEPT ![c] = [activo |-> TRUE, ajuste |-> ajuste]]
  BY DEF Ajustar
<1>3. [activo |-> TRUE, ajuste |-> ajuste] \in Asignaciones
  BY DEF Asignaciones
<1>4. asig'[c] = [activo |-> TRUE, ajuste |-> ajuste] /\ asig'[c] # Nada
  BY <1>1, <1>2, <1>3, NadaAparte
<1>5. \A d \in Categorias : d # c => asig'[d] = asig[d]
  BY <1>1, <1>2
<1> QED BY <1>4, <1>5 DEF ConAsignacion

\* A new assignment comes into force for the products that the preview said it would reach,
\* and changes nothing for the others.
LEMMA AsignarAlcanza ==
  ASSUME RegistroBien, NEW c \in Categorias, NEW ajuste \in Ajustes, NEW rellenar, NEW f,
         Ajustar(c, ajuste, rellenar, f), c \notin ConAsignacion, Vigente', Vigente \/ ConAsignacion = {}
  PROVE  /\ Afectados(c)' = Alcanzables(c)
         /\ \A d \in Categorias : AplicaEn(d)' => OrigenDe(d)' = c \/ (AplicaEn(d) /\ OrigenDe(d)' = OrigenDe(d))
<1>1. PadresBien /\ Jerarquia!SinCiclos(padre) /\ padre' = padre /\ Vivos' = Vivos /\ donde' = donde
  BY DEF RegistroBien, FilasTipadas, PadresBien, Ajustar, Vivos
<1>2. ConAsignacion' = ConAsignacion \cup {c}
  BY AjustarAsigna
<1>3. ASSUME NEW d \in Categorias
      PROVE  AplicaEn(d) <=> ConAsignacion \cap Ancestros(d) # {}
  BY DEF AplicaEn, AplicaCon, Ancestros
<1>4. ASSUME NEW d \in Categorias
      PROVE  /\ AplicaEn(d)' <=> (ConAsignacion \cup {c}) \cap Ancestros(d) # {}
             /\ OrigenDe(d)' = OrigenCon(ConAsignacion \cup {c}, d)
  BY <1>1, <1>2, AplicaTras
<1>5. ASSUME NEW d \in Categorias
      PROVE  AplicaEn(d)' /\ OrigenDe(d)' = c
               <=> d \in Rama(c) /\ (AplicaEn(d) => OrigenDe(d) \in Ancestros(c) \ {c})
  <2>1. AplicaEn(d)' /\ OrigenDe(d)' = c <=> c \in Ancestros(d) /\ OrigenCon(ConAsignacion \cup {c}, d) = c
    BY <1>1, <1>4, HayOrigen
  <2> QED BY <2>1, <1>1, <1>3, OrigenConOtra DEF OrigenDe
<1>6. \A x \in Vivos : donde[x] \in Categorias
  BY DEF Vivos, RegistroBien, FilasTipadas
<1>7. Afectados(c)' = Alcanzables(c)
  BY <1>1, <1>5, <1>6 DEF Afectados, Alcanzables
<1>8. ASSUME NEW d \in Categorias, AplicaEn(d)', OrigenDe(d)' # c
      PROVE  AplicaEn(d) /\ OrigenDe(d)' = OrigenDe(d)
  <2>1. /\ (ConAsignacion \cup {c}) \cap Ancestros(d) # {} /\ OrigenCon(ConAsignacion \cup {c}, d) # c
        /\ OrigenDe(d)' = OrigenCon(ConAsignacion \cup {c}, d)
    BY <1>4, <1>8
  <2>2. /\ ConAsignacion \cap Ancestros(d) # {}
        /\ OrigenCon(ConAsignacion, d) = OrigenCon(ConAsignacion \cup {c}, d)
    BY <1>1, <2>1, OrigenSinOtra
  <2> QED BY <1>3, <2>1, <2>2 DEF OrigenDe
<1> QED BY <1>7, <1>8

\* Settings reconfigured are in force for the same products.
LEMMA ConfigurarAlcanza ==
  ASSUME RegistroBien, NEW c \in Categorias, NEW ajuste \in Ajustes, NEW rellenar, Configurar(c, ajuste, rellenar)
  PROVE  /\ Afectados(c)' = Afectados(c)
         /\ \A d \in Categorias : (AplicaEn(d)' <=> AplicaEn(d)) /\ OrigenDe(d)' = OrigenDe(d)
<1>1. padre' = padre /\ Vivos' = Vivos /\ donde' = donde /\ (Vigente' <=> Vigente)
  BY DEF Configurar, Ajustar, Vivos, Vigente, Existe
<1>2. ConAsignacion' = ConAsignacion
  BY AjustarAsigna DEF Configurar
<1>3. \A d : (AplicaEn(d)' <=> AplicaEn(d)) /\ OrigenDe(d)' = OrigenDe(d)
  BY <1>1, <1>2, AplicaTras DEF AplicaEn, AplicaCon, OrigenDe, Ancestros
<1> QED BY <1>1, <1>3 DEF Afectados

\* The removed assignment is out, and the others as they were.
LEMMA QuitarQuita ==
  ASSUME RegistroBien, NEW c \in Categorias, Quitar(c)
  PROVE  /\ ConAsignacion' = Restantes(c)
         /\ \A d \in Categorias : asig'[d] = asig[d] \/ d = c
         /\ \A d \in Categorias : /\ AplicaEn(d)' <=> AplicaCon(Restantes(c), d)
                                  /\ OrigenDe(d)' = OrigenCon(Restantes(c), d)
<1>1. asig \in [Categorias -> Asignaciones \cup {Nada}] /\ asig[c] \in Asignaciones
  BY DEF RegistroBien, FilasTipadas, Quitar, ConAsignacion
<1>2. asig' = [asig EXCEPT ![c].activo = FALSE] /\ padre' = padre /\ definicion' = definicion
  BY DEF Quitar
<1>3. ~asig'[c].activo
  BY <1>1, <1>2 DEF Asignaciones
<1>4. \A d \in Categorias : d # c => asig'[d] = asig[d]
  BY <1>1, <1>2
<1>5. ConAsignacion' = Restantes(c)
  BY <1>3, <1>4 DEF ConAsignacion, Restantes
<1>6. \A d : (AplicaEn(d)' <=> AplicaCon(Restantes(c), d)) /\ OrigenDe(d)' = OrigenCon(Restantes(c), d)
  BY <1>2, <1>5, AplicaTras DEF AplicaCon, Ancestros, Vigente, Existe
<1> QED BY <1>4, <1>5, <1>6

\* A confirmation is the write of its order, over the state that its preview signed.
LEMMA ConfirmadaEs ==
  ASSUME AtrInv, AtrNext, NEW t \in Solicitudes, Confirmada(t)
  PROVE  \E o \in Ordenes :
           /\ sesion[t].orden = o /\ sesion[t].firma = Firma(o)
           /\ \/ o \in DeAsignar /\ Asignar(o.categoria, o.ajuste, o.rellenar)
              \/ o \in DeConfigurar /\ Configurar(o.categoria, o.ajuste, o.rellenar)
              \/ o \in DeCrear /\ CrearAtributo(o.definicion, o.categoria, o.ajuste, o.rellenar)
              \/ o \in DeQuitar /\ Quitar(o.categoria)
              \/ o \in DeBaja /\ DarDeBaja
              \/ o \in DeAnotar /\ Anotar(o.unidad)
              \/ o \in DeMudar /\ Recategorizar(o.producto, o.categoria, o.dato)
<1>1. /\ sesion[t] # Nada /\ sesion[t].que = "VISTA" /\ sesion'[t] = Nada
      /\ ~UNCHANGED <<donde, definicion, asig, valor>> /\ DOMAIN sesion = Solicitudes
  BY DEF Confirmada, AtrInv
<1>2. sesion' # sesion
  BY <1>1
<1>3. PICK q \in Solicitudes :
         \/ \E o \in DeAsignar : PrevisualizarAsignacion(q, o) \/ ConfirmarAsignacion(q, o)
         \/ \E o \in DeConfigurar : PrevisualizarConfiguracion(q, o) \/ ConfirmarConfiguracion(q, o)
         \/ \E o \in DeCrear : PrevisualizarCreacion(q, o) \/ ConfirmarCreacion(q, o)
         \/ \E o \in DeQuitar : PrevisualizarRetiro(q, o) \/ ConfirmarRetiro(q, o)
         \/ \E o \in DeBaja : PrevisualizarBaja(q, o) \/ ConfirmarBaja(q, o)
         \/ \E o \in DeAnotar : PrevisualizarAnotacion(q, o) \/ ConfirmarAnotacion(q, o)
         \/ \E o \in DeMudar : Pronosticar(q, o) \/ FirmarPronostico(q, o) \/ ConfirmarPronostico(q, o)
         \/ \E c \in Categorias : LeerAjuste(q, c)
         \/ \E obligatorio \in BOOLEAN, defecto \in Defectos : EscribirAjuste(q, obligatorio, defecto)
         \/ \E x \in Productos : LeerRemapeo(q, x)
         \/ \E d \in Datos : ResolverRemapeo(q, d)
         \/ Abandonar(q)
  <2>1. ASSUME NEW u, DesactivarUnidad(u) \/ ReactivarUnidad(u) PROVE FALSE
    BY <1>2, <2>1 DEF DesactivarUnidad, ReactivarUnidad
  <2>2. ASSUME NEW f, NEW u, NEW c, NEW p, Actualizar(f, u) \/ Revertir \/ MoverCategoria(c, p) PROVE FALSE
    BY <1>2, <2>2 DEF Actualizar, Revertir, MoverCategoria
  <2>3. ASSUME NEW x, NEW c, NEW v, CrearProducto(x, c, v) \/ EditarProducto(x, v) \/ BorrarProducto(x) PROVE FALSE
    BY <1>2, <2>3 DEF CrearProducto, EditarProducto, BorrarProducto
  <2>4. ASSUME NEW f, NEW u, Actualizar(f, u) \/ Revertir PROVE FALSE
    BY <1>2, <2>4 DEF Actualizar, Revertir
  <2>5. ASSUME NEW x, NEW v, EditarProducto(x, v) \/ BorrarProducto(x) PROVE FALSE
    BY <1>2, <2>5 DEF EditarProducto, BorrarProducto
  <2>6. SobreElAtributo
    BY <2>1 DEF AtrNext
  <2> QED BY <1>2, <2>2, <2>3, <2>4, <2>5, <2>6 DEF SobreElAtributo
<1>4. ASSUME NEW o, \/ PrevisualizarAsignacion(q, o) \/ PrevisualizarConfiguracion(q, o) \/ PrevisualizarCreacion(q, o)
                    \/ PrevisualizarRetiro(q, o) \/ PrevisualizarBaja(q, o) \/ PrevisualizarAnotacion(q, o)
                    \/ Pronosticar(q, o) \/ FirmarPronostico(q, o)
      PROVE  FALSE
  BY <1>1, <1>4 DEF PrevisualizarAsignacion, PrevisualizarConfiguracion, PrevisualizarCreacion, PrevisualizarRetiro,
                    PrevisualizarBaja, PrevisualizarAnotacion, Pronosticar, FirmarPronostico, Emitir
<1>5. ASSUME \/ \E c \in Categorias : LeerAjuste(q, c)
             \/ \E x \in Productos : LeerRemapeo(q, x)
             \/ Abandonar(q)
      PROVE  FALSE
  BY <1>1, <1>5 DEF LeerAjuste, LeerRemapeo, Abandonar
<1>6. ASSUME \/ \E obligatorio \in BOOLEAN, defecto \in Defectos : EscribirAjuste(q, obligatorio, defecto)
             \/ \E d \in Datos : ResolverRemapeo(q, d)
      PROVE  FALSE
  <2>1. sesion' = [sesion EXCEPT ![q] = Nada] /\ sesion[q].que \in {"AJUSTE", "REMAPEO"}
    BY <1>6 DEF EscribirAjuste, ResolverRemapeo
  <2>2. q = t
    BY <1>1, <2>1
  <2> QED BY <1>1, <2>1, <2>2
<1>7. ASSUME NEW o, Verificar(q, o) PROVE sesion[t].orden = o /\ sesion[t].firma = Firma(o)
  <2>1. q = t
    BY <1>1, <1>7 DEF Verificar
  <2> QED BY <1>7, <2>1 DEF Verificar
<1>8. PICK o : Verificar(q, o) /\
           \/ o \in DeAsignar /\ Asignar(o.categoria, o.ajuste, o.rellenar)
           \/ o \in DeConfigurar /\ Configurar(o.categoria, o.ajuste, o.rellenar)
           \/ o \in DeCrear /\ CrearAtributo(o.definicion, o.categoria, o.ajuste, o.rellenar)
           \/ o \in DeQuitar /\ Quitar(o.categoria)
           \/ o \in DeBaja /\ DarDeBaja
           \/ o \in DeAnotar /\ Anotar(o.unidad)
           \/ o \in DeMudar /\ Recategorizar(o.producto, o.categoria, o.dato)
  BY <1>3, <1>4, <1>5, <1>6 DEF ConfirmarAsignacion, ConfirmarConfiguracion, ConfirmarCreacion, ConfirmarRetiro,
              ConfirmarBaja, ConfirmarAnotacion, ConfirmarPronostico
<1>9. o \in Ordenes
  BY <1>8, OrdenDice DEF Ordenes
<1> QED BY <1>7, <1>8, <1>9

\* Read back: what the preview of settings showed.
LEMMA AjusteLeido ==
  ASSUME NEW o \in Previstas \cup DeCrear, NEW m, Cuadra(o, m, Firma(o))
  PROVE  /\ m.afectados = Alcance(o)
         /\ Faltos(Alcance(o)) \subseteq m.faltan
<1> DEFINE f == Impacto(o.categoria, Alcance(o))
<1>1. f.afectados = Alcance(o) /\ f.definicion = definicion /\ f.valores = [x \in Alcance(o) |-> valor[x]]
  BY DEF Impacto
<1>2. Firma(o) = f /\ o.que \in {"ASIGNAR", "CONFIGURAR", "CREAR"}
  BY FirmaDice, OrdenDice
<1> HIDE DEF f
<1>3. CASE o.que \in {"ASIGNAR", "CONFIGURAR"}
  <2>1. m.afectados = f.afectados /\ m.faltan = {x \in f.afectados : ~ValeBajo(f.valores[x], f.definicion)}
    BY <1>2, <1>3 DEF Cuadra
  <2> QED BY <1>1, <2>1 DEF Faltos, Valido, Activo, ValeBajo
<1>4. CASE o.que = "CREAR"
  <2>1. m.afectados = f.afectados /\ m.faltan = f.afectados
    BY <1>2, <1>4 DEF Cuadra
  <2> QED BY <1>1, <2>1 DEF Faltos
<1> QED BY <1>2, <1>3, <1>4

\* Settings: the products that get them are those that were shown, and the values filled are
\* among those that lacked one.
LEMMA AjusteComoSeVio ==
  ASSUME RegistroBien, NEW o \in Previstas \cup DeCrear, NEW m, Cuadra(o, m, Firma(o)),
         \/ o \in DeAsignar /\ Asignar(o.categoria, o.ajuste, o.rellenar)
         \/ o \in DeConfigurar /\ Configurar(o.categoria, o.ajuste, o.rellenar)
         \/ o \in DeCrear /\ CrearAtributo(o.definicion, o.categoria, o.ajuste, o.rellenar)
  PROVE  Cambiados \subseteq m.faltan /\ Afectados(o.categoria)' = m.afectados
<1> DEFINE c == o.categoria
<1>1. c \in Categorias /\ o.ajuste \in Ajustes
  BY OrdenDice
<1>2. m.afectados = Alcance(o) /\ Faltos(Alcance(o)) \subseteq m.faltan
  BY AjusteLeido
<1>3. PICK f : Ajustar(c, o.ajuste, o.rellenar, f)
  BY DEF Asignar, Configurar, CrearAtributo
<1> SUFFICES ASSUME NEW k \in Categorias, k = c PROVE Cambiados \subseteq m.faltan /\ Afectados(k)' = m.afectados
  BY <1>1
<1>4. Afectados(k)' = Alcance(o)
  <2>1. CASE o \in DeAsignar
    <3>1. Asignar(c, o.ajuste, o.rellenar) /\ o.que = "ASIGNAR"
      BY <2>1, OrdenDice
    <3>2. k \notin ConAsignacion /\ Vigente /\ Vigente'
      BY <3>1 DEF Asignar, Vigente, Existe
    <3>3. Afectados(k)' = Alcanzables(k)
      BY <1>1, <1>3, <3>2, AsignarAlcanza
    <3> QED BY <3>1, <3>3 DEF Alcance
  <2>2. CASE o \in DeConfigurar
    <3>1. Configurar(c, o.ajuste, o.rellenar) /\ o.que = "CONFIGURAR"
      BY <2>2, OrdenDice
    <3>2. Afectados(k)' = Afectados(k)
      BY <1>1, <3>1, ConfigurarAlcanza
    <3> QED BY <3>1, <3>2 DEF Alcance
  <2>3. CASE o \in DeCrear
    <3>1. CrearAtributo(o.definicion, c, o.ajuste, o.rellenar) /\ o.que = "CREAR" /\ o.definicion \in Definiciones
      BY <2>3, OrdenDice
    <3>2. ConAsignacion = {} /\ Vigente'
      BY <3>1, NadaAparte DEF CrearAtributo, Alta, ConAsignacion, RegistroBien, Vigente, Existe
    <3>3. Afectados(k)' = Alcanzables(k)
      BY <1>1, <1>3, <3>2, AsignarAlcanza
    <3> QED BY <3>1, <3>3 DEF Alcance
  <2> QED BY <2>1, <2>2, <2>3
<1>5. Cambiados \subseteq Faltos(Alcance(o))
  <2> SUFFICES ASSUME NEW x \in Productos, valor'[x] # valor[x] PROVE x \in Faltos(Alcance(o))
    BY DEF Cambiados
  <2>1. ~Activo(x) /\ x \in Afectados(k)'
    BY <1>3, AjustarRespeta
  <2> QED BY <1>4, <2>1 DEF Faltos, Valido
<1> QED BY <1>2, <1>4, <1>5

\* A removal: the values shown to go, go, and those shown to stay are in force.
LEMMA RetiroComoSeVio ==
  ASSUME RegistroBien, NEW o \in DeQuitar, NEW m, Cuadra(o, m, Firma(o)), Quitar(o.categoria)
  PROVE  Cambiados = m.desactivados /\ \A x \in m.conservados : AplicaEn(donde[x])'
<1> DEFINE f == FirmaRetiro(o.categoria, Afectados(o.categoria))
<1>1. PICK c \in Categorias : c = o.categoria /\ o.que = "QUITAR" /\ Firma(o) = f
  BY OrdenDice, FirmaDice
<1>2. /\ QuitadosFirmados(f) = Desactivables(c) /\ f[1].afectados = Afectados(c)
      /\ \A x \in Afectados(c) : f[1].valores[x] = valor[x]
  BY <1>1, QuitadosFirmadosSon
<1> HIDE DEF f
<1>3. /\ m.desactivados = Desactivables(c)
      /\ m.conservados = {x \in Afectados(c) : Activo(x)} \ Desactivables(c)
  BY <1>1, <1>2 DEF Cuadra, Activo
<1>4. ASSUME NEW x \in Productos PROVE valor'[x] # valor[x] <=> x \in Desactivables(c)
  <2>1. valor'[x] = IF x \in Desactivables(c) THEN [valor[x] EXCEPT !.activo = FALSE] ELSE valor[x]
    BY <1>1 DEF Quitar
  <2>2. x \in Desactivables(c) => valor[x] \in Filas /\ valor[x].activo
    BY DEF Desactivables, Activo, RegistroBien, FilasTipadas
  <2>3. x \in Desactivables(c) => [valor[x] EXCEPT !.activo = FALSE] # valor[x]
    BY <2>2, FilaCambia
  <2> QED BY <2>1, <2>3
<1>5. Desactivables(c) \subseteq Productos
  BY DEF Desactivables, Afectados, Vivos
<1>6. Cambiados = m.desactivados
  BY <1>3, <1>4, <1>5 DEF Cambiados
<1>7. ASSUME NEW x \in m.conservados PROVE AplicaEn(donde[x])'
  <2>1. x \in Afectados(c) /\ AplicaCon(Restantes(c), donde[x])
    BY <1>3 DEF Desactivables
  <2>2. donde[x] \in Categorias /\ donde' = donde
    BY <1>1, <2>1, AfectadosDebajo DEF Quitar
  <2> QED BY <1>1, <2>1, <2>2, QuitarQuita
<1> QED BY <1>6, <1>7

\* A deactivation: the values and the assignments shown.
LEMMA BajaComoSeVio ==
  ASSUME RegistroBien, NEW o \in DeBaja, NEW m, Cuadra(o, m, Firma(o)), DarDeBaja
  PROVE  Cambiados = m.desactivados /\ {c \in Categorias : asig'[c] # asig[c]} = m.asignaciones
<1>1. o.que = "BAJA" /\ Firma(o) = Foto
  BY OrdenDice, FirmaDice
<1>2. Firma(o).valor = valor /\ Firma(o).asig = asig
  BY <1>1 DEF Foto
<1>3. m.desactivados = {x \in Productos : Activo(x)} /\ m.asignaciones = ConAsignacion
  BY <1>1, <1>2 DEF Cuadra, Activo, ConAsignacion
<1>4. ASSUME NEW x \in Productos PROVE valor'[x] # valor[x] <=> Activo(x)
  <2>1. valor'[x] = IF valor[x] = Nada THEN Nada ELSE [valor[x] EXCEPT !.activo = FALSE]
    BY DEF DarDeBaja
  <2>2. valor[x] \in Filas \cup {Nada}
    BY DEF RegistroBien, FilasTipadas
  <2>3. Activo(x) => [valor[x] EXCEPT !.activo = FALSE] # valor[x]
    BY <2>2, FilaCambia DEF Activo
  <2>4. valor[x] # Nada /\ ~Activo(x) => [valor[x] EXCEPT !.activo = FALSE] = valor[x]
    BY <2>2, FilaIgual DEF Activo
  <2> QED BY <2>1, <2>3, <2>4 DEF Activo
<1>5. ASSUME NEW c \in Categorias PROVE asig'[c] # asig[c] <=> c \in ConAsignacion
  <2>1. asig'[c] = IF asig[c] = Nada THEN Nada ELSE [asig[c] EXCEPT !.activo = FALSE]
    BY DEF DarDeBaja
  <2>2. asig[c] \in Asignaciones \cup {Nada}
    BY DEF RegistroBien, FilasTipadas
  <2> QED BY <2>1, <2>2 DEF ConAsignacion, Asignaciones
<1>6. ConAsignacion \subseteq Categorias
  BY DEF ConAsignacion
<1> QED BY <1>3, <1>4, <1>5, <1>6 DEF Cambiados

\* A change of category: the value of the product meets the fate that was shown.
LEMMA MudanzaComoSeVio ==
  ASSUME RegistroBien, NEW o \in DeMudar, NEW m, Cuadra(o, m, Firma(o)),
         Recategorizar(o.producto, o.categoria, o.dato), NEW x, x = o.producto
  PROVE  /\ Cambiados \subseteq {x}
         /\ m.suerte = "DESACTIVA" => ~Activo(x)'
         /\ m.suerte \in {"CONSERVA", "DEFECTO"} => Activo(x)' /\ valor'[x].dato = m.dato
         /\ m.suerte = "NADA" => valor'[x] = valor[x] \/ o.dato \in Datos
<1> DEFINE c == o.categoria
           v == o.dato
           s == Suerte(x, c, v)
<1>1. x \in Productos /\ c \in Categorias /\ v \in Datos \cup {Igual, Nulo} /\ o.que = "RECATEGORIZAR"
  BY OrdenDice
<1>2. m = Prevision(o)
  BY <1>1, PrevisionFirmadaEs DEF Cuadra
<1>3. m.suerte = s /\ m.dato = IF s = "DEFECTO" THEN DefectoEn(c) ELSE IF s # "CONSERVA" THEN Sin
                               ELSE IF v \in Datos THEN v ELSE valor[x].dato
  BY <1>2 DEF Prevision
<1>4. valor \in [Productos -> Filas \cup {Nada}]
  BY DEF RegistroBien, FilasTipadas
<1>5. /\ valor'[x] = IF v \in Datos THEN Fila(v, definicion.forma)
                     ELSE IF s = "DEFECTO" THEN Fila(DefectoEn(c), definicion.forma)
                     ELSE IF s = "DESACTIVA" THEN [valor[x] EXCEPT !.activo = FALSE]
                     ELSE valor[x]
      /\ \A y \in Productos : y # x => valor'[y] = valor[y]
      /\ v # Igual => AplicaEn(c)
      /\ definicion' = definicion
  BY <1>1, <1>4 DEF Recategorizar
<1>6. /\ s = "DESACTIVA" => v \notin Datos /\ Activo(x)
      /\ s = "DEFECTO" => v \notin Datos /\ DefectoSirve(c)
      /\ s = "CONSERVA" => (v \in Datos /\ <<v, definicion.forma>> \in Admite) \/ (v \notin Datos /\ Activo(x))
  BY <1>1, <1>5, SuerteDice, AtributosSupuestos
<1>7. Cambiados \subseteq {x}
  BY <1>5 DEF Cambiados
<1> HIDE DEF s
<1>8. s = "DESACTIVA" => ~Activo(x)'
  <2> SUFFICES ASSUME s = "DESACTIVA" PROVE ~Activo(x)'
    OBVIOUS
  <2>1. valor[x] \in Filas /\ valor'[x] = [valor[x] EXCEPT !.activo = FALSE]
    BY <1>1, <1>4, <1>5, <1>6 DEF Activo
  <2> QED BY <2>1, FilaIgual DEF Activo
<1>9. s = "DEFECTO" => Activo(x)' /\ valor'[x].dato = DefectoEn(c)
  <2> SUFFICES ASSUME s = "DEFECTO" PROVE Activo(x)' /\ valor'[x].dato = DefectoEn(c)
    OBVIOUS
  <2> DEFINE d == DefectoEn(c)
  <2>1. <<d, definicion'.forma>> \in Admite /\ valor'[x] = Fila(d, definicion'.forma)
    BY <1>5, <1>6 DEF DefectoSirve
  <2> HIDE DEF d
  <2>2. Activo(x)' /\ valor'[x].dato = d
    BY <1>1, <2>1, FilaLegible
  <2> QED BY <2>2 DEF d
<1>10. s = "CONSERVA" => Activo(x)' /\ valor'[x].dato = IF v \in Datos THEN v ELSE valor[x].dato
  <2> SUFFICES ASSUME s = "CONSERVA" PROVE Activo(x)' /\ valor'[x].dato = IF v \in Datos THEN v ELSE valor[x].dato
    OBVIOUS
  <2>1. CASE v \in Datos
    <3>1. <<v, definicion'.forma>> \in Admite /\ valor'[x] = Fila(v, definicion'.forma)
      BY <1>5, <1>6, <2>1
    <3>2. Activo(x)' /\ valor'[x].dato = v
      BY <1>1, <3>1, FilaLegible
    <3> QED BY <2>1, <3>2
  <2>2. CASE v \notin Datos
    <3>1. valor'[x] = valor[x] /\ Activo(x)
      BY <1>5, <1>6, <2>2
    <3> QED BY <2>2, <3>1 DEF Activo
  <2> QED BY <2>1, <2>2
<1>11. s = "NADA" => valor'[x] = valor[x] \/ v \in Datos
  BY <1>5
<1>12. m.suerte = "DESACTIVA" => ~Activo(x)'
  BY <1>3, <1>8
<1>13. m.suerte \in {"CONSERVA", "DEFECTO"} => Activo(x)' /\ valor'[x].dato = m.dato
  BY <1>3, <1>9, <1>10
<1> QED BY <1>3, <1>7, <1>11, <1>12, <1>13

\* A confirmation does what its preview told.
LEMMA LoVistoPaso ==
  ASSUME AtrInv, AtrNext, NEW t \in Solicitudes, Confirmada(t), sesion[t].entera,
         NEW o, o = sesion[t].orden, NEW m, m = sesion[t].mostrado
  PROVE  HizoLoVisto(o, m)
<1>1. RegistroBien /\ Cuadra(o, m, sesion[t].firma)
  BY DEF AtrInv, Confirmada, SesionBien
<1>2. /\ o \in Ordenes /\ sesion[t].firma = Firma(o)
      /\ \/ o \in DeAsignar /\ Asignar(o.categoria, o.ajuste, o.rellenar)
         \/ o \in DeConfigurar /\ Configurar(o.categoria, o.ajuste, o.rellenar)
         \/ o \in DeCrear /\ CrearAtributo(o.definicion, o.categoria, o.ajuste, o.rellenar)
         \/ o \in DeQuitar /\ Quitar(o.categoria)
         \/ o \in DeBaja /\ DarDeBaja
         \/ o \in DeAnotar /\ Anotar(o.unidad)
         \/ o \in DeMudar /\ Recategorizar(o.producto, o.categoria, o.dato)
  BY ConfirmadaEs
<1>3. Cuadra(o, m, Firma(o))
  BY <1>1, <1>2
<1>4. /\ o \in Previstas \cup DeCrear => o.que \in {"ASIGNAR", "CONFIGURAR", "CREAR"}
      /\ o \in DeQuitar => o.que = "QUITAR"
      /\ o \in DeBaja => o.que = "BAJA"
      /\ o \in DeAnotar => o.que = "ANOTAR"
      /\ o \in DeMudar => o.que = "RECATEGORIZAR"
      /\ o \in DeAsignar \/ o \in DeConfigurar => o \in Previstas
  BY OrdenDice
<1>5. CASE \/ o \in DeAsignar /\ Asignar(o.categoria, o.ajuste, o.rellenar)
           \/ o \in DeConfigurar /\ Configurar(o.categoria, o.ajuste, o.rellenar)
           \/ o \in DeCrear /\ CrearAtributo(o.definicion, o.categoria, o.ajuste, o.rellenar)
  <2>1. o \in Previstas \cup DeCrear
    BY <1>4, <1>5
  <2>2. Cambiados \subseteq m.faltan /\ Afectados(o.categoria)' = m.afectados
    BY <1>1, <1>3, <1>5, <2>1, AjusteComoSeVio
  <2> QED BY <1>4, <2>1, <2>2 DEF HizoLoVisto
<1>6. CASE o \in DeQuitar /\ Quitar(o.categoria)
  BY <1>1, <1>3, <1>4, <1>6, RetiroComoSeVio DEF HizoLoVisto
<1>7. CASE o \in DeBaja /\ DarDeBaja
  BY <1>1, <1>3, <1>4, <1>7, BajaComoSeVio DEF HizoLoVisto
<1>8. CASE o \in DeAnotar /\ Anotar(o.unidad)
  <2>1. Cambiados = {} /\ m.desactivados = {}
    BY <1>3, <1>4, <1>8 DEF Cuadra, Anotar, Cambiados
  <2> QED BY <1>4, <1>8, <2>1 DEF HizoLoVisto
<1>9. CASE o \in DeMudar /\ Recategorizar(o.producto, o.categoria, o.dato)
  <2> DEFINE x == o.producto
  <2>1. /\ Cambiados \subseteq {x}
        /\ m.suerte = "DESACTIVA" => ~Activo(x)'
        /\ m.suerte \in {"CONSERVA", "DEFECTO"} => Activo(x)' /\ valor'[x].dato = m.dato
        /\ m.suerte = "NADA" => valor'[x] = valor[x] \/ o.dato \in Datos
    BY <1>1, <1>3, <1>9, MudanzaComoSeVio
  <2>2. o \in DeMudar /\ o \notin Previstas \cup DeCrear /\ o \notin DeQuitar /\ o \notin DeBaja /\ o \notin DeAnotar
    BY <1>4, <1>9
  <2> QED BY <2>1, <2>2 DEF HizoLoVisto
<1> QED BY <1>2, <1>5, <1>6, <1>7, <1>8, <1>9

\* What is confirmed is what was shown, whatever happened between.
THEOREM SiempreLoVistoEsLoHecho == AtrSpec => LoVistoEsLoHecho
<1>1. AtrInv /\ [AtrNext]_atrVars
        => [\A t \in Solicitudes :
              Confirmada(t) /\ sesion[t].entera
                => \A o \in {sesion[t].orden}, m \in {sesion[t].mostrado} : HizoLoVisto(o, m)]_atrVars
  BY LoVistoPaso
<1> QED BY <1>1, AtrInvariante, PTL DEF AtrSpec, LoVistoEsLoHecho

-----------------------------------------------------------------------------
(* What is required is there, and what does not apply is not *)

\* Where the hierarchy, the assignments and the attribute stay, so does what is in force.
LEMMA AplicaIgual ==
  ASSUME UNCHANGED <<padre, asig>>, Vigente' <=> Vigente, NEW d
  PROVE  (AplicaEn(d)' <=> AplicaEn(d)) /\ (RequiereEn(d)' <=> RequiereEn(d)) /\ OrigenDe(d)' = OrigenDe(d)
BY DEF AplicaEn, AplicaCon, RequiereEn, RequiereCon, OrigenDe, OrigenCon, ConAsignacion

\* And a value that is kept lacks, or is too many, as before.
LEMMA DesajusteIgual ==
  ASSUME UNCHANGED <<padre, asig>>, Vigente' <=> Vigente, NEW x \in Productos,
         donde'[x] = donde[x], x \in Vivos' <=> x \in Vivos, valor'[x] = valor[x],
         definicion'.forma = definicion.forma
  PROVE  (Falta(x)' <=> Falta(x)) /\ (Sobra(x)' <=> Sobra(x))
<1>1. (Valido(x)' <=> Valido(x)) /\ (Activo(x)' <=> Activo(x))
  BY DEF Valido, Activo
<1>2. (AplicaEn(donde[x])' <=> AplicaEn(donde[x])) /\ (RequiereEn(donde[x])' <=> RequiereEn(donde[x]))
  BY AplicaIgual
<1> QED BY <1>1, <1>2 DEF Falta, Sobra

\* Where a value is required, an assignment that requires it is in force.
LEMMA RequiereDice ==
  ASSUME NEW d
  PROVE  RequiereEn(d) <=> AplicaEn(d) /\ asig[OrigenDe(d)].ajuste.obligatorio
BY DEF RequiereEn, RequiereCon, AplicaEn, OrigenDe

\* The same, of what is required after a step.
LEMMA RequiereDiceDespues ==
  ASSUME NEW d
  PROVE  RequiereEn(d)' <=> AplicaEn(d)' /\ asig'[OrigenDe(d)'].ajuste.obligatorio
BY DEF RequiereEn, RequiereCon, AplicaEn, OrigenDe

\* What is in force comes from an assignment in force.
LEMMA OrigenVigente ==
  ASSUME RegistroBien, NEW d \in Categorias, AplicaEn(d)
  PROVE  OrigenDe(d) \in ConAsignacion /\ OrigenDe(d) \in Categorias
BY HayOrigen, AncestrosCierran DEF AplicaEn, AplicaCon, OrigenDe, Ancestros, ConAsignacion, RegistroBien, FilasTipadas, PadresBien

\* A conversion loses no required value.
LEMMA ActualizarNoDesajusta ==
  ASSUME RegistroBien, NEW f \in Formas, NEW u, Actualizar(f, u), NEW x \in Productos
  PROVE  (Falta(x)' => Falta(x)) /\ (Sobra(x)' => Sobra(x))
<1>1. definicion \in Definiciones /\ valor[x] \in Filas \cup {Nada}
  BY DEF Actualizar, Vigente, Existe, RegistroBien, FilasTipadas
<1>2. /\ definicion'.forma = f /\ definicion'.activo = definicion.activo /\ definicion'.unidad = u
      /\ UNCHANGED <<padre, donde, borrados, asig>> /\ Vigente
  BY <1>1 DEF Actualizar, Definiciones
<1>3. definicion' # Nada
  <2>1. u \in Unidades \cup {Sin}
    BY DEF Actualizar, Disponible, RegistroBien, CambiosTipados
  <2>2. definicion' \in Definiciones
    BY <1>1, <2>1 DEF Actualizar, Definiciones
  <2> QED BY <2>2, NadaAparte
<1>4. Vigente' /\ Vivos' = Vivos
  BY <1>2, <1>3 DEF Vigente, Existe, Vivos
<1>5. CASE f = definicion.forma
  <2>1. valor'[x] = valor[x]
    BY <1>5 DEF Actualizar
  <2> QED BY <1>2, <1>4, <1>5, <2>1, DesajusteIgual
<1>6. CASE f # definicion.forma
  <2>1. /\ \A c \in ExigidaEn : Afectados(c) \cap Inconvertibles(f) = {}
        /\ valor'[x] = IF Activo(x) /\ Convertible(x, f) THEN [valor[x] EXCEPT !.columna = Columna[f]] ELSE valor[x]
    BY <1>6 DEF Actualizar, ConvertirValores
  <2>2. (AplicaEn(donde[x])' <=> AplicaEn(donde[x])) /\ (RequiereEn(donde[x])' <=> RequiereEn(donde[x]))
    BY <1>2, <1>4, AplicaIgual
  <2>3. CASE Activo(x) /\ Convertible(x, f)
    <3>1. valor'[x] = [valor[x] EXCEPT !.columna = Columna[f]] /\ valor[x] \in Filas /\ valor[x].activo
      BY <1>1, <2>1, <2>3 DEF Activo
    <3>2. valor'[x] \in Filas /\ valor'[x].activo /\ valor'[x].dato = valor[x].dato
      BY <3>1, AtributosSupuestos DEF Filas
    <3>3. Activo(x)' /\ Valido(x)'
      BY <1>2, <1>4, <2>3, <3>2, NadaAparte DEF Activo, Valido, Convertible
    <3> QED BY <1>2, <1>4, <2>2, <2>3, <3>3 DEF Falta, Sobra
  <2>4. CASE ~Activo(x)
    <3>1. ~Activo(x)' /\ ~Valido(x)' /\ ~Valido(x)
      BY <2>1, <2>4 DEF Activo, Valido
    <3> QED BY <1>4, <2>2, <3>1 DEF Falta, Sobra
  <2>5. CASE Activo(x) /\ ~Convertible(x, f)
    <3>1. Activo(x)' /\ x \in Inconvertibles(f)
      BY <2>1, <2>5 DEF Activo, Inconvertibles
    <3>2. ASSUME x \in Vivos, RequiereEn(donde[x]) PROVE FALSE
      <4> DEFINE c == OrigenDe(donde[x])
      <4>1. AplicaEn(donde[x]) /\ asig[c].ajuste.obligatorio /\ x \in Afectados(c)
        BY <3>2, RequiereDice DEF Afectados
      <4>2. donde[x] \in Categorias
        BY <3>2 DEF Vivos, RegistroBien, FilasTipadas
      <4>3. c \in ConAsignacion
        BY <4>1, <4>2, HayOrigen DEF AplicaEn, AplicaCon, OrigenDe, Ancestros, RegistroBien, FilasTipadas, PadresBien
      <4> QED BY <2>1, <3>1, <4>1, <4>3 DEF ExigidaEn
    <3> QED BY <1>2, <1>4, <2>2, <2>5, <3>1, <3>2 DEF Falta, Sobra
  <2> QED BY <2>3, <2>4, <2>5
<1> QED BY <1>5, <1>6

\* Settings written leave no product that they reach without the value they require, and
\* fill none that they do not reach.
LEMMA AjustarNoDesajusta ==
  ASSUME RegistroBien, NEW c \in Categorias, NEW ajuste \in Ajustes, NEW rellenar, NEW f,
         Ajustar(c, ajuste, rellenar, f), NEW x \in Productos,
         definicion' = definicion \/ ~Existe,
         \A d \in Categorias : /\ AplicaEn(d) => AplicaEn(d)'
                               /\ AplicaEn(d)' => OrigenDe(d)' = c \/ (AplicaEn(d) /\ OrigenDe(d)' = OrigenDe(d))
  PROVE  (Falta(x)' => Falta(x)) /\ (Sobra(x)' => Sobra(x))
<1>1. /\ donde' = donde /\ Vivos' = Vivos
      /\ ajuste.obligatorio => \A y \in Afectados(c)' : Valido(y)'
      /\ valor[x] \in Filas \cup {Nada}
  BY DEF Ajustar, Vivos, RegistroBien, FilasTipadas
<1>2. x \in Vivos => donde[x] \in Categorias
  BY DEF Vivos, RegistroBien, FilasTipadas
<1>3. asig'[c].ajuste = ajuste /\ \A d \in Categorias : d # c => asig'[d] = asig[d]
  BY AjustarAsigna
<1>4. Existe => definicion' = definicion
  OBVIOUS
<1>5. Valido(x) => Valido(x)'
  <2> SUFFICES ASSUME Valido(x) PROVE Valido(x)'
    OBVIOUS
  <2>1. Activo(x) /\ Existe
    BY DEF Valido, Activo, RegistroBien
  <2>2. valor'[x] = valor[x]
    BY <2>1, AjustarRespeta
  <2> QED BY <1>4, <2>1, <2>2 DEF Valido, Activo
<1>6. ASSUME NEW d \in Categorias, d = donde[x], Falta(x)' PROVE Falta(x)
  <2>1. x \in Vivos /\ ~Valido(x)' /\ RequiereEn(d)'
    BY <1>1, <1>6 DEF Falta
  <2>2. AplicaEn(d)' /\ asig'[OrigenDe(d)'].ajuste.obligatorio
    BY <2>1, RequiereDiceDespues
  <2>3. OrigenDe(d)' # c
    <3> SUFFICES ASSUME OrigenDe(d)' = c PROVE FALSE
      OBVIOUS
    <3>1. ajuste.obligatorio
      BY <1>3, <2>2
    <3>2. x \in Afectados(c)'
      BY <1>1, <1>6, <2>1, <2>2 DEF Afectados
    <3> QED BY <1>1, <2>1, <3>1, <3>2
  <2>4. AplicaEn(d) /\ OrigenDe(d)' = OrigenDe(d)
    BY <2>2, <2>3
  <2>5. OrigenDe(d) \in Categorias
    BY <2>4, OrigenVigente
  <2>6. asig'[OrigenDe(d)] = asig[OrigenDe(d)]
    BY <1>3, <2>3, <2>4, <2>5
  <2>7. RequiereEn(d)
    BY <2>2, <2>4, <2>6, RequiereDice
  <2> QED BY <1>5, <1>6, <2>1, <2>7 DEF Falta
<1>7. ASSUME NEW d \in Categorias, d = donde[x], Sobra(x)' PROVE Sobra(x)
  <2>1. x \in Vivos /\ Activo(x)' /\ ~AplicaEn(d)' /\ ~AplicaEn(d)
    BY <1>1, <1>7 DEF Sobra
  <2>2. x \notin Afectados(c)'
    BY <1>1, <1>7, <2>1 DEF Afectados
  <2>3. valor'[x] = valor[x]
    BY <2>2, AjustarRespeta
  <2>4. Activo(x)
    BY <2>1, <2>3 DEF Activo
  <2>5. Existe
    BY <2>4 DEF RegistroBien, Activo
  <2>6. Vigente
    BY <1>4, <1>7, <2>5 DEF Sobra, Vigente, Existe
  <2> QED BY <1>7, <2>1, <2>4, <2>6 DEF Sobra
<1>8. Falta(x)' \/ Sobra(x)' => x \in Vivos
  BY <1>1 DEF Falta, Sobra
<1> QED BY <1>2, <1>6, <1>7, <1>8

\* What a removal leaves required is there, and what it leaves unreached is taken out.
LEMMA QuitarNoDesajusta ==
  ASSUME RegistroBien, NEW c \in Categorias, Quitar(c), NEW x \in Productos
  PROVE  (Falta(x)' => Falta(x)) /\ (Sobra(x)' => Sobra(x))
<1> DEFINE R == Restantes(c)
<1>1. /\ donde' = donde /\ Vivos' = Vivos /\ definicion' = definicion /\ (Vigente' <=> Vigente)
      /\ c \in ConAsignacion /\ ConAsignacion = R \cup {c} /\ PadresBien /\ Jerarquia!SinCiclos(padre)
  BY DEF Quitar, Vivos, Vigente, Existe, Restantes, RegistroBien, FilasTipadas, PadresBien
<1>2. /\ \A d \in Categorias : asig'[d] = asig[d] \/ d = c
      /\ \A d \in Categorias : (AplicaEn(d)' <=> AplicaCon(R, d)) /\ OrigenDe(d)' = OrigenCon(R, d)
  BY QuitarQuita
<1>3. /\ valor'[x] = IF x \in Desactivables(c) THEN [valor[x] EXCEPT !.activo = FALSE] ELSE valor[x]
      /\ valor[x] \in Filas \cup {Nada}
  BY DEF Quitar, RegistroBien, FilasTipadas
<1>4. ASSUME NEW d \in Categorias, AplicaCon(R, d)
      PROVE  /\ AplicaEn(d) /\ OrigenCon(R, d) \in R /\ OrigenCon(R, d) \in Categorias /\ OrigenCon(R, d) # c
             /\ RequiereEn(d)' <=> RequiereCon(R, d)
  <2>1. R \cap Ancestros(d) # {} /\ Vigente
    BY <1>4 DEF AplicaCon, Ancestros
  <2>2. OrigenCon(R, d) \in R
    BY <1>1, <2>1, HayOrigen
  <2>3. OrigenCon(R, d) \in Categorias /\ OrigenCon(R, d) # c
    BY <2>2 DEF Restantes, ConAsignacion
  <2>4. asig'[OrigenDe(d)'] = asig[OrigenCon(R, d)]
    BY <1>2, <2>3
  <2> QED BY <1>1, <1>2, <1>4, <2>1, <2>2, <2>3, <2>4, RequiereDiceDespues DEF AplicaEn, AplicaCon, RequiereCon, Ancestros
<1>5. ASSUME NEW d \in Categorias, AplicaEn(d), OrigenDe(d) # c
      PROVE  AplicaCon(R, d) /\ OrigenCon(R, d) = OrigenDe(d)
  <2>1. (R \cup {c}) \cap Ancestros(d) # {} /\ OrigenCon(R \cup {c}, d) # c /\ Vigente
    BY <1>1, <1>5 DEF AplicaEn, AplicaCon, OrigenDe, Ancestros
  <2>2. R \cap Ancestros(d) # {} /\ OrigenCon(R, d) = OrigenCon(R \cup {c}, d)
    BY <1>1, <2>1, OrigenSinOtra
  <2> QED BY <1>1, <2>1, <2>2 DEF AplicaCon, OrigenDe, Ancestros
<1> HIDE DEF R
<1>6. ASSUME NEW d \in Categorias, d = donde[x], Falta(x)' PROVE Falta(x)
  <2>1. x \in Vivos /\ ~Valido(x)' /\ RequiereEn(d)' /\ AplicaCon(R, d)
    BY <1>1, <1>2, <1>6, RequiereDiceDespues DEF Falta
  <2>2. RequiereCon(R, d) /\ AplicaEn(d)
    BY <1>4, <2>1
  <2>3. x \notin Desactivables(c)
    BY <1>6, <2>1 DEF Desactivables, R
  <2>4. ~Valido(x)
    BY <1>1, <1>3, <2>1, <2>3 DEF Valido, Activo
  <2>5. x \notin Afectados(c)
    BY <1>6, <2>2, <2>4 DEF Quitar, R
  <2>6. OrigenDe(d) # c
    BY <1>6, <2>1, <2>2, <2>5 DEF Afectados
  <2>7. RequiereEn(d)
    BY <1>5, <2>2, <2>6, RequiereDice DEF RequiereCon
  <2> QED BY <1>6, <2>1, <2>4, <2>7 DEF Falta
<1>7. ASSUME NEW d \in Categorias, d = donde[x], Sobra(x)' PROVE Sobra(x)
  <2>1. x \in Vivos /\ Vigente /\ Activo(x)' /\ ~AplicaCon(R, d)
    BY <1>1, <1>2, <1>7 DEF Sobra
  <2>2. x \notin Desactivables(c)
    <3> SUFFICES ASSUME x \in Desactivables(c) PROVE FALSE
      OBVIOUS
    <3>1. valor[x] \in Filas
      BY <1>3 DEF Desactivables, Activo
    <3> QED BY <1>3, <2>1, <3>1, FilaIgual DEF Activo
  <2>3. Activo(x)
    BY <1>3, <2>1, <2>2 DEF Activo
  <2>4. x \notin Afectados(c)
    BY <1>7, <2>1, <2>2, <2>3 DEF Desactivables, R
  <2>5. ~AplicaEn(d)
    BY <1>5, <1>7, <2>1, <2>4 DEF Afectados
  <2> QED BY <1>7, <2>1, <2>3, <2>5 DEF Sobra
<1>8. Falta(x)' \/ Sobra(x)' => x \in Vivos
  BY <1>1 DEF Falta, Sobra
<1>9. x \in Vivos => donde[x] \in Categorias
  BY DEF Vivos, RegistroBien, FilasTipadas
<1> QED BY <1>6, <1>7, <1>8, <1>9

\* Settings written over those that were read require what was found to be there.
LEMMA EscribirNoDesajusta ==
  ASSUME AtrInv, NEW t \in Solicitudes, NEW b \in BOOLEAN, NEW e \in Defectos, EscribirAjuste(t, b, e),
         ~AlguienTarde, NEW x \in Productos
  PROVE  (Falta(x)' => Falta(x)) /\ (Sobra(x)' => Sobra(x))
<1> DEFINE c == sesion[t].categoria
           copia == sesion[t].copia
<1>1. sesion[t] \in Sesiones /\ sesion[t].que = "AJUSTE" /\ sesion[t] # Nada /\ sesion'[t] = Nada
  BY DEF AtrInv, EscribirAjuste, SesionTipada
<1>2. c \in Categorias /\ copia \in Ajustes /\ asig[c] = [activo |-> TRUE, ajuste |-> copia]
  BY <1>1 DEF Sesiones, AlguienTarde, Tardia
<1>3. asig \in [Categorias -> Asignaciones \cup {Nada}] /\ asig[c] \in Asignaciones
  <2>1. [activo |-> TRUE, ajuste |-> copia] \in Asignaciones
    BY <1>2 DEF Asignaciones
  <2> QED BY <1>2, <2>1 DEF AtrInv, RegistroBien, FilasTipadas
<1>4. /\ UNCHANGED <<padre, donde, borrados, definicion, valor>>
      /\ b => \A y \in Afectados(c) : Valido(y)
      /\ asig' = [asig EXCEPT ![c].ajuste =
                    [obligatorio |-> IF b = copia.obligatorio THEN @.obligatorio ELSE b,
                     defecto |-> IF e = copia.defecto THEN @.defecto ELSE e]]
  BY DEF EscribirAjuste
<1> DEFINE nuevo == [obligatorio |-> IF b = copia.obligatorio THEN asig[c].ajuste.obligatorio ELSE b,
                     defecto |-> IF e = copia.defecto THEN asig[c].ajuste.defecto ELSE e]
<1>5. asig'[c] = [asig[c] EXCEPT !.ajuste = nuevo]
  BY <1>2, <1>3, <1>4
<1>6. asig'[c].activo /\ asig'[c].ajuste.obligatorio = b /\ asig'[c] # Nada
  <2>1. nuevo \in Ajustes /\ nuevo.obligatorio = b
    BY <1>2, <1>3 DEF Asignaciones, Ajustes
  <2> HIDE DEF nuevo
  <2>2. asig'[c] \in Asignaciones /\ asig'[c].activo /\ asig'[c].ajuste = nuevo
    <3>1. asig[c].activo = TRUE
      BY <1>2
    <3>2. \A r \in Asignaciones, n \in Ajustes :
            LET q == [r EXCEPT !.ajuste = n]
            IN  q \in Asignaciones /\ q.activo = r.activo /\ q.ajuste = n
      BY DEF Asignaciones
    <3> QED BY <1>3, <1>5, <2>1, <3>1, <3>2
  <2> QED BY <2>1, <2>2, NadaAparte
<1> HIDE DEF nuevo
<1>7. \A d \in Categorias : d # c => asig'[d] = asig[d]
  BY <1>3, <1>4
<1>8. ConAsignacion' = ConAsignacion
  BY <1>2, <1>3, <1>6, <1>7, NadaAparte DEF ConAsignacion
<1>9. \A d : (AplicaEn(d)' <=> AplicaEn(d)) /\ OrigenDe(d)' = OrigenDe(d)
  BY <1>4, <1>8, AplicaTras DEF AplicaEn, AplicaCon, OrigenDe, Ancestros, Vigente, Existe
<1>10. (Valido(x)' <=> Valido(x)) /\ (Activo(x)' <=> Activo(x)) /\ Vivos' = Vivos /\ (Vigente' <=> Vigente)
  BY <1>4 DEF Valido, Activo, Vivos, Vigente, Existe
<1> HIDE DEF c, copia
<1>11. ASSUME NEW d \in Categorias, d = donde[x], Falta(x)' PROVE Falta(x)
  <2>1. x \in Vivos /\ ~Valido(x) /\ RequiereEn(d)'
    BY <1>4, <1>10, <1>11 DEF Falta
  <2>2. AplicaEn(d) /\ asig'[OrigenDe(d)].ajuste.obligatorio
    BY <1>9, <2>1, RequiereDiceDespues
  <2>3. OrigenDe(d) \in Categorias
    BY <2>2, OrigenVigente DEF AtrInv
  <2>4. OrigenDe(d) # c
    <3> SUFFICES ASSUME OrigenDe(d) = c PROVE FALSE
      OBVIOUS
    <3>1. x \in Afectados(c)
      BY <1>11, <2>1, <2>2 DEF Afectados
    <3> QED BY <1>4, <1>6, <2>1, <2>2, <3>1
  <2>5. RequiereEn(d)
    BY <1>7, <2>2, <2>3, <2>4, RequiereDice
  <2> QED BY <1>11, <2>1, <2>5 DEF Falta
<1>12. Sobra(x)' => Sobra(x)
  BY <1>4, <1>9, <1>10 DEF Sobra
<1>13. Falta(x)' => x \in Vivos
  BY <1>10 DEF Falta
<1>14. x \in Vivos => donde[x] \in Categorias
  BY DEF Vivos, AtrInv, RegistroBien, FilasTipadas
<1> QED BY <1>11, <1>12, <1>13, <1>14

\* A product written in the category c, whether it was there or not: it is enough that it has
\* what c requires, and nothing where nothing applies.
LEMMA ProductoNoDesajusta ==
  ASSUME UNCHANGED <<padre, asig, definicion>>, NEW y, NEW c,
         \A x \in Productos : x # y => donde'[x] = donde[x] /\ (x \in Vivos' <=> x \in Vivos) /\ valor'[x] = valor[x],
         y \in Vivos' => donde'[y] = c,
         RequiereEn(c) => Valido(y)' \/ Falta(y),
         Vigente /\ ~AplicaEn(c) => ~Activo(y)' \/ Sobra(y),
         NEW x \in Productos
  PROVE  (Falta(x)' => Falta(x)) /\ (Sobra(x)' => Sobra(x))
<1>1. Vigente' <=> Vigente
  BY DEF Vigente, Existe
<1>2. CASE x # y
  BY <1>1, <1>2, DesajusteIgual
<1>3. CASE x = y
  <2>1. /\ RequiereEn(donde[x])' /\ x \in Vivos' => RequiereEn(c)
        /\ ~AplicaEn(donde[x])' /\ x \in Vivos' => ~AplicaEn(c)
    BY <1>1, <1>3, AplicaIgual
  <2> QED BY <1>1, <1>3, <2>1 DEF Falta, Sobra
<1> QED BY <1>2, <1>3

\* A product created has what its category requires, and nothing where nothing applies.
LEMMA CrearProductoNoDesajusta ==
  ASSUME RegistroBien, NEW y \in Productos, NEW c \in Categorias, NEW v \in Datos \cup {Igual},
         CrearProducto(y, c, v), NEW x \in Productos
  PROVE  (Falta(x)' => Falta(x)) /\ (Sobra(x)' => Sobra(x))
<1>1. valor \in [Productos -> Filas \cup {Nada}] /\ donde \in [Productos -> Categorias \cup {Nada}] /\ valor[y] = Nada
  BY DEF RegistroBien, FilasTipadas, ValorConLugar, CrearProducto
<1>2. UNCHANGED <<padre, asig, definicion, borrados>>
  BY DEF CrearProducto
<1>3. /\ donde'[y] = c /\ \A z \in Productos : z # y => donde'[z] = donde[z] /\ valor'[z] = valor[z]
      /\ valor'[y] = IF v # Igual THEN Fila(v, definicion.forma)
                     ELSE IF RequiereEn(c) THEN Fila(DefectoEn(c), definicion.forma) ELSE valor[y]
  BY <1>1 DEF CrearProducto
<1>4. \A z \in Productos : z # y => (z \in Vivos' <=> z \in Vivos)
  BY <1>2, <1>3 DEF Vivos
<1>5. RequiereEn(c) => Valido(y)'
  <2>1. CASE v # Igual
    <3>1. valor'[y] = Fila(v, definicion'.forma) /\ <<v, definicion'.forma>> \in Admite
      BY <1>2, <1>3, <2>1 DEF CrearProducto
    <3> QED BY <3>1, FilaLegible
  <2>2. CASE v = Igual /\ RequiereEn(c)
    <3> DEFINE d == DefectoEn(c)
    <3>1. valor'[y] = Fila(d, definicion'.forma) /\ <<d, definicion'.forma>> \in Admite
      BY <1>2, <1>3, <2>2 DEF CrearProducto, DefectoSirve
    <3> HIDE DEF d
    <3> QED BY <3>1, FilaLegible
  <2> QED BY <2>1, <2>2
<1>6. ~AplicaEn(c) => ~Activo(y)'
  <2> SUFFICES ASSUME ~AplicaEn(c) PROVE ~Activo(y)'
    OBVIOUS
  <2>1. v = Igual /\ ~RequiereEn(c)
    BY RequiereDice DEF CrearProducto
  <2> QED BY <1>1, <1>3, <2>1 DEF Activo
<1> QED BY <1>2, <1>3, <1>4, <1>5, <1>6, ProductoNoDesajusta

\* And so does a product edited, unless it lacked it before and nothing was sent.
LEMMA EditarProductoNoDesajusta ==
  ASSUME RegistroBien, NEW y \in Productos, NEW v \in Datos \cup {Igual, Nulo},
         EditarProducto(y, v), NEW x \in Productos
  PROVE  (Falta(x)' => Falta(x)) /\ (Sobra(x)' => Sobra(x))
<1> DEFINE c == donde[y]
<1>1. valor \in [Productos -> Filas \cup {Nada}]
  BY DEF RegistroBien, FilasTipadas
<1>2. UNCHANGED <<padre, asig, definicion, borrados, donde>> /\ Vivos' = Vivos /\ y \in Vivos
  BY DEF EditarProducto, Vivos
<1>3. /\ \A z \in Productos : z # y => valor'[z] = valor[z]
      /\ valor'[y] = IF v \in Datos THEN Fila(v, definicion.forma)
                     ELSE IF v = Nulo /\ Activo(y) THEN [valor[y] EXCEPT !.activo = FALSE]
                     ELSE IF v = Igual /\ ~Activo(y) /\ RequiereEn(c) THEN Fila(DefectoEn(c), definicion.forma)
                     ELSE valor[y]
  BY <1>1 DEF EditarProducto
<1>4. ASSUME RequiereEn(c) PROVE Valido(y)' \/ Falta(y)
  <2>1. CASE v \in Datos
    <3>1. valor'[y] = Fila(v, definicion'.forma) /\ <<v, definicion'.forma>> \in Admite
      BY <1>2, <1>3, <2>1 DEF EditarProducto
    <3> QED BY <3>1, FilaLegible
  <2>2. CASE v = Igual /\ ~Activo(y)
    <3> DEFINE d == DefectoEn(c)
    <3>1. valor'[y] = Fila(d, definicion'.forma) /\ <<d, definicion'.forma>> \in Admite
      BY <1>2, <1>3, <1>4, <2>2, AtributosSupuestos DEF EditarProducto, DefectoSirve
    <3> HIDE DEF d
    <3> QED BY <3>1, FilaLegible
  <2>3. CASE v = Igual /\ Activo(y)
    <3>1. valor'[y] = valor[y]
      BY <1>3, <2>3, AtributosSupuestos
    <3>2. Valido(y)' <=> Valido(y)
      BY <1>2, <3>1 DEF Valido, Activo
    <3> QED BY <1>2, <1>4, <3>2 DEF Falta
  <2>4. v # Nulo
    BY <1>4 DEF EditarProducto
  <2> QED BY <2>1, <2>2, <2>3, <2>4
<1>5. ASSUME Vigente, ~AplicaEn(c) PROVE ~Activo(y)' \/ Sobra(y)
  <2>1. v = Igual /\ ~RequiereEn(c) /\ v \notin Datos /\ v # Nulo
    BY <1>5, RequiereDice, AtributosSupuestos DEF EditarProducto
  <2>2. valor'[y] = valor[y]
    BY <1>3, <2>1
  <2>3. Activo(y)' <=> Activo(y)
    BY <2>2 DEF Activo
  <2> QED BY <1>2, <1>5, <2>3 DEF Sobra
<1> QED BY <1>2, <1>3, <1>4, <1>5, ProductoNoDesajusta

\* A product that changes its category: the fates that are let through leave it right.
LEMMA RecategorizarNoDesajusta ==
  ASSUME RegistroBien, NEW y \in Productos, NEW c \in Categorias, NEW v \in Datos \cup {Igual, Nulo},
         Recategorizar(y, c, v), NEW x \in Productos
  PROVE  (Falta(x)' => Falta(x)) /\ (Sobra(x)' => Sobra(x))
<1> DEFINE s == Suerte(y, c, v)
<1>1. valor \in [Productos -> Filas \cup {Nada}] /\ donde \in [Productos -> Categorias \cup {Nada}]
  BY DEF RegistroBien, FilasTipadas
<1>2. UNCHANGED <<padre, asig, definicion, borrados>>
  BY DEF Recategorizar
<1>3. /\ donde'[y] = c /\ \A z \in Productos : z # y => donde'[z] = donde[z] /\ valor'[z] = valor[z]
      /\ valor'[y] = IF v \in Datos THEN Fila(v, definicion.forma)
                     ELSE IF s = "DEFECTO" THEN Fila(DefectoEn(c), definicion.forma)
                     ELSE IF s = "DESACTIVA" THEN [valor[y] EXCEPT !.activo = FALSE]
                     ELSE valor[y]
      /\ v # Igual => AplicaEn(c)
      /\ s \notin {"FALTA", "INCOMPATIBLE"}
  BY <1>1 DEF Recategorizar
<1>4. \A z \in Productos : z # y => (z \in Vivos' <=> z \in Vivos)
  BY <1>2, <1>3 DEF Vivos
<1>5. ASSUME RequiereEn(c) PROVE Valido(y)'
  <2>1. AplicaEn(c)
    BY <1>5, RequiereDice
  <2>2. /\ v # Nulo
        /\ v \in Datos => <<v, definicion.forma>> \in Admite
        /\ v = Igual /\ Activo(y) => Legible(y) /\ s = "CONSERVA"
        /\ v = Igual /\ ~Activo(y) => s = "DEFECTO" /\ DefectoSirve(c)
    BY <1>3, <1>5, <2>1, SuerteDice, AtributosSupuestos
  <2> HIDE DEF s
  <2>3. CASE v \in Datos
    <3>1. valor'[y] = Fila(v, definicion'.forma) /\ <<v, definicion'.forma>> \in Admite
      BY <1>2, <1>3, <2>2, <2>3
    <3> QED BY <3>1, FilaLegible
  <2>4. CASE v = Igual /\ Activo(y)
    <3>1. valor'[y] = valor[y] /\ Valido(y)
      BY <1>3, <2>2, <2>4, AtributosSupuestos DEF Legible
    <3> QED BY <1>2, <3>1 DEF Valido, Activo
  <2>5. CASE v = Igual /\ ~Activo(y)
    <3> DEFINE d == DefectoEn(c)
    <3>1. valor'[y] = Fila(d, definicion'.forma) /\ <<d, definicion'.forma>> \in Admite
      BY <1>2, <1>3, <2>2, <2>5, AtributosSupuestos DEF DefectoSirve
    <3> HIDE DEF d
    <3> QED BY <3>1, FilaLegible
  <2> QED BY <2>2, <2>3, <2>4, <2>5
<1>6. ASSUME ~AplicaEn(c) PROVE ~Activo(y)'
  <2>1. v \notin Datos /\ s = IF Activo(y) THEN "DESACTIVA" ELSE "NADA"
    BY <1>3, <1>6, SuerteDice, AtributosSupuestos
  <2> HIDE DEF s
  <2>2. CASE Activo(y)
    <3>1. valor[y] \in Filas /\ valor'[y] = [valor[y] EXCEPT !.activo = FALSE]
      BY <1>1, <1>3, <2>1, <2>2 DEF Activo
    <3> QED BY <3>1, FilaIgual DEF Activo
  <2>3. CASE ~Activo(y)
    <3>1. valor'[y] = valor[y]
      BY <1>3, <2>1, <2>3
    <3> QED BY <2>3, <3>1 DEF Activo
  <2> QED BY <2>2, <2>3
<1> HIDE DEF s
<1> QED BY <1>2, <1>3, <1>4, <1>5, <1>6, ProductoNoDesajusta

\* No writer but a move, an undo and a late answer leaves a product without what it requires,
\* or with what does not apply to it.
LEMMA DesajustePaso ==
  ASSUME AtrInv, AtrNext, NEW x \in Productos, padre' = padre, ~Deshace, ~AlguienTarde
  PROVE  (Falta(x)' => Falta(x)) /\ (Sobra(x)' => Sobra(x))
<1> DEFINE P == (Falta(x)' => Falta(x)) /\ (Sobra(x)' => Sobra(x))
<1>0. RegistroBien /\ Escribe
  BY PasoEscribe DEF AtrInv
<1>1. ASSUME SinEscribir PROVE P
  <2>1. Vigente' <=> Vigente
    BY <1>1 DEF SinEscribir, Vigente, Existe
  <2>2. x \in Vivos' <=> x \in Vivos
    BY <1>1 DEF SinEscribir, Vivos
  <2> QED BY <1>1, <2>1, <2>2, DesajusteIgual DEF SinEscribir
<1>2. ASSUME NEW u \in Unidades, Anotar(u) PROVE P
  <2>1. definicion \in Definiciones
    BY <1>0, <1>2 DEF Anotar, Vigente, Existe, RegistroBien, FilasTipadas
  <2>2. definicion'.forma = definicion.forma /\ definicion'.activo /\ definicion' \in Definiciones
    BY <1>2, <2>1 DEF Anotar, Definiciones, Vigente, Normal
  <2>3. Vigente' <=> Vigente
    BY <1>2, <2>2, NadaAparte DEF Anotar, Vigente, Existe
  <2>4. x \in Vivos' <=> x \in Vivos
    BY <1>2 DEF Anotar, Vivos
  <2> QED BY <1>2, <2>2, <2>3, <2>4, DesajusteIgual DEF Anotar
<1>3. ASSUME DarDeBaja PROVE P
  <2>1. ~Vigente'
    BY <1>0, <1>3 DEF DarDeBaja, Vigente, Existe, RegistroBien, FilasTipadas, Definiciones
  <2> QED BY <2>1 DEF Falta, Sobra, RequiereEn, RequiereCon, AplicaCon
<1>4. ~Revertir
  <2> SUFFICES ASSUME Revertir PROVE FALSE
    OBVIOUS
  <2>1. cambios \in Seq(Cambios) /\ cambios # <<>> /\ cambios' = SubSeq(cambios, 1, Len(cambios) - 1)
    BY <1>0 DEF Revertir, Intacta, RegistroBien, CambiosTipados
  <2> QED BY <2>1 DEF Deshace
<1>5. ASSUME NEW d \in Definiciones, NEW c \in Categorias, NEW ajuste \in Ajustes, NEW rellenar \in BOOLEAN,
             CrearAtributo(d, c, ajuste, rellenar)
      PROVE  P
  <2>1. Ajustar(c, ajuste, rellenar, d.forma) /\ ~Existe /\ definicion' = d /\ d.activo
    BY <1>5 DEF CrearAtributo, Alta
  <2>2. ConAsignacion = {} /\ Vigente' /\ \A k : ~AplicaEn(k)
    BY <1>0, <2>1, NadaAparte DEF ConAsignacion, RegistroBien, Vigente, Existe, AplicaEn, AplicaCon
  <2>3. \A k \in Categorias : AplicaEn(k)' => OrigenDe(k)' = c
    BY <1>0, <2>1, <2>2, AsignarAlcanza
  <2> QED BY <1>0, <2>1, <2>2, <2>3, AjustarNoDesajusta
<1>6. ASSUME NEW c \in Categorias, NEW ajuste \in Ajustes, NEW rellenar \in BOOLEAN, Asignar(c, ajuste, rellenar)
      PROVE  P
  <2>1. /\ Ajustar(c, ajuste, rellenar, definicion.forma) /\ definicion' = definicion /\ c \notin ConAsignacion
        /\ Vigente /\ Vigente' /\ padre' = padre
    BY <1>6 DEF Asignar, Vigente, Existe
  <2>2. \A k \in Categorias : AplicaEn(k)' => OrigenDe(k)' = c \/ (AplicaEn(k) /\ OrigenDe(k)' = OrigenDe(k))
    BY <1>0, <2>1, AsignarAlcanza
  <2>3. ASSUME NEW k \in Categorias, AplicaEn(k) PROVE AplicaEn(k)'
    <3>1. ConAsignacion' = ConAsignacion \cup {c}
      BY <1>0, <2>1, AjustarAsigna
    <3>2. ConAsignacion \cap Ancestros(k) # {}
      BY <2>3 DEF AplicaEn, AplicaCon, Ancestros
    <3> QED BY <2>1, <3>1, <3>2, AplicaTras
  <2> QED BY <1>0, <2>1, <2>2, <2>3, AjustarNoDesajusta
<1>7. ASSUME NEW c \in Categorias, NEW ajuste \in Ajustes, NEW rellenar \in BOOLEAN, Configurar(c, ajuste, rellenar)
      PROVE  P
  <2>1. Ajustar(c, ajuste, rellenar, definicion.forma) /\ definicion' = definicion
    BY <1>7 DEF Configurar
  <2>2. \A k \in Categorias : (AplicaEn(k)' <=> AplicaEn(k)) /\ OrigenDe(k)' = OrigenDe(k)
    BY <1>0, <1>7, ConfigurarAlcanza
  <2> QED BY <1>0, <2>1, <2>2, AjustarNoDesajusta
<1>8. ASSUME NEW t \in Solicitudes, NEW d \in Datos, ResolverRemapeo(t, d) PROVE P
  <2>1. PICK y : y = sesion[t].producto
    OBVIOUS
  <2>2. /\ y \in Productos /\ AplicaEn(donde[y]) /\ Valido(y)'
        /\ x # y => valor'[x] = valor[x]
    BY <1>8, <2>1, ResolverATiempo
  <2>3. UNCHANGED <<padre, donde, borrados, definicion, asig>> /\ (Vigente' <=> Vigente) /\ Vivos' = Vivos
    BY <1>8 DEF ResolverRemapeo, Vigente, Existe, Vivos
  <2>4. CASE x = y
    <3>1. AplicaEn(donde[x])'
      BY <2>2, <2>3, <2>4, AplicaIgual
    <3> QED BY <2>2, <2>4, <3>1 DEF Falta, Sobra
  <2>5. CASE x # y
    BY <2>2, <2>3, <2>5, DesajusteIgual
  <2> QED BY <2>4, <2>5
<1>9. ASSUME NEW y \in Productos, BorrarProducto(y) PROVE P
  <2>1. valor \in [Productos -> Filas \cup {Nada}]
    BY <1>0 DEF RegistroBien, FilasTipadas
  <2>2. /\ UNCHANGED <<padre, asig, definicion, donde>> /\ y \notin Vivos'
        /\ \A z \in Productos : z # y => (z \in Vivos' <=> z \in Vivos) /\ valor'[z] = valor[z]
    BY <1>9, <2>1 DEF BorrarProducto, Vivos
  <2>3. CASE x = y
    BY <2>2, <2>3 DEF Falta, Sobra
  <2>4. CASE x # y
    <3>1. Vigente' <=> Vigente
      BY <2>2 DEF Vigente, Existe
    <3> QED BY <2>2, <2>4, <3>1, DesajusteIgual
  <2> QED BY <2>3, <2>4
<1>10. ASSUME NEW c \in Categorias, NEW p, MoverCategoria(c, p) PROVE FALSE
  BY <1>0, <1>10 DEF MoverCategoria, RegistroBien, FilasTipadas
<1>11. /\ \A f \in Formas, u \in Unidades \cup {Sin} : Actualizar(f, u) => P
       /\ \A c \in Categorias : Quitar(c) => P
       /\ \A t \in Solicitudes, b \in BOOLEAN, e \in Defectos : EscribirAjuste(t, b, e) => P
  BY <1>0, ActualizarNoDesajusta, QuitarNoDesajusta, EscribirNoDesajusta
<1>12. /\ \A y \in Productos, c \in Categorias, v \in Datos \cup {Igual} : CrearProducto(y, c, v) => P
       /\ \A y \in Productos, v \in Datos \cup {Igual, Nulo} : EditarProducto(y, v) => P
       /\ \A y \in Productos, c \in Categorias, v \in Datos \cup {Igual, Nulo} : Recategorizar(y, c, v) => P
  BY <1>0, CrearProductoNoDesajusta, EditarProductoNoDesajusta, RecategorizarNoDesajusta
<1> HIDE DEF P
<1>13. ASSUME ~P PROVE FALSE
  <2>1. ~SinEscribir /\ ~DarDeBaja /\ ~Revertir /\ \A u \in Unidades : ~Anotar(u)
    BY <1>1, <1>2, <1>3, <1>4, <1>13
  <2>2. /\ \A f \in Formas, u \in Unidades \cup {Sin} : ~Actualizar(f, u)
        /\ \A c \in Categorias : ~Quitar(c)
        /\ \A t \in Solicitudes, b \in BOOLEAN, e \in Defectos : ~EscribirAjuste(t, b, e)
    BY <1>11, <1>13
  <2>3. /\ \A y \in Productos, c \in Categorias, v \in Datos \cup {Igual} : ~CrearProducto(y, c, v)
        /\ \A y \in Productos, v \in Datos \cup {Igual, Nulo} : ~EditarProducto(y, v)
        /\ \A y \in Productos, c \in Categorias, v \in Datos \cup {Igual, Nulo} : ~Recategorizar(y, c, v)
    BY <1>12, <1>13
  <2>4. \A d \in Definiciones, c \in Categorias, ajuste \in Ajustes, rellenar \in BOOLEAN :
          ~CrearAtributo(d, c, ajuste, rellenar)
    BY <1>5, <1>13
  <2>5. \A c \in Categorias, ajuste \in Ajustes, rellenar \in BOOLEAN :
          ~Asignar(c, ajuste, rellenar) /\ ~Configurar(c, ajuste, rellenar)
    BY <1>6, <1>7, <1>13
  <2>6. /\ \A t \in Solicitudes, d \in Datos : ~ResolverRemapeo(t, d)
        /\ \A y \in Productos : ~BorrarProducto(y)
        /\ \A c \in Categorias, p \in Categorias \cup {Raiz} : ~MoverCategoria(c, p)
    BY <1>8, <1>9, <1>10, <1>13
  <2> QED BY <1>0, <2>1, <2>2, <2>3, <2>4, <2>5, <2>6 DEF Escribe
<1> QED BY <1>13 DEF P

\* A product comes to lack a required value, or to have one that does not apply, only when its
\* category is moved, when a change is undone, or after a late answer.
THEOREM SoloMoverDesajustaSiempre == AtrSpec => SoloMoverDesajusta
<1>1. AtrInv /\ [AtrNext]_atrVars
        => [\A x \in Productos :
              padre' = padre /\ ~Deshace /\ ~AlguienTarde
                => (Falta(x)' => Falta(x)) /\ (Sobra(x)' => Sobra(x))]_atrVars
  BY DesajustePaso
<1> QED BY <1>1, AtrInvariante, PTL DEF AtrSpec, SoloMoverDesajusta
=============================================================================

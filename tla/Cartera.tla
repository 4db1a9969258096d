------------------------------- MODULE Cartera -------------------------------
(***************************************************************************)
(* Accounts receivable (of sales) and payable (of purchases): payments,    *)
(* withholdings received and issued, and the cancellation of a sale.       *)
(*                                                                         *)
(* A request is cut where it reads without a lock or waits for a row lock. *)
(* What follows its last lock is one action, up to the commit.             *)
(*                                                                         *)
(* A payment comes through its route, which loads the account before the   *)
(* service locks it.  The session keeps that copy: SELECT FOR UPDATE waits *)
(* for the lock but does not refresh an object already loaded, and the     *)
(* UPDATE sends only the columns whose value differs from the copy.        *)
(*                                                                         *)
(* Abstracted: companies, lines of a withholding, SRI checks (they only    *)
(* refuse), the stock reversal of a cancelled sale (Inventario).  Amounts  *)
(* are naturals; 0 stands for one that q2 rounds to 0.00.                  *)
(***************************************************************************)
EXTENDS Integers, FiniteSets, Functions

CONSTANTS
  Peticiones,     \* request handlers, one database session each
  CxC, CxP,       \* accounts receivable, accounts payable
  Total,          \* valor_total_factura of each account
  Retenciones,    \* withholdings
  CuentaDe,       \* the account each belongs to
  Valor,          \* total_retenido of each
  Montos,         \* amounts paid
  MaxRecibido,    \* bound: no payment is sent once this much has been received
  Nadie

Cuentas == CxC \cup CxP

ASSUME CarteraSupuestos ==
  /\ CxC \cap CxP = {}
  /\ Total \in [Cuentas -> Nat]
  /\ IsFiniteSet(Retenciones)
  /\ CuentaDe \in [Retenciones -> Cuentas]
  /\ Valor \in [Retenciones -> Nat]
  /\ Montos \subseteq Nat
  /\ MaxRecibido \in Nat
  /\ Nadie \notin Peticiones \cup Cuentas \cup Retenciones

VARIABLES
  cuenta,     \* the account rows, committed
  doc,        \* state of the sale (or purchase) of each account; NINGUNO: it has none
  retencion,  \* state of each withholding
  recibido,   \* sum of the PagoCxC (PagoCxP) rows of each account
  cCuenta,    \* holder of the row lock of each account
  cDoc,       \* ... of each sale or purchase
  cRet,       \* ... of each withholding
  req,        \* the requests
  efecto,     \* history: times a withholding was added to its account, less times removed
  directas,   \* history: withholdings received that were created already APLICADA
  obsoletas   \* history: accounts written from a copy another commit had outdated

filas    == <<cuenta, doc, retencion, recibido>>
locks    == <<cCuenta, cDoc, cRet>>
historia == <<efecto, directas, obsoletas>>
vars     == <<cuenta, doc, retencion, recibido, cCuenta, cDoc, cRet, req, efecto,
              directas, obsoletas>>

EstadosCuenta == {"PENDIENTE", "PARCIAL", "PAGADA", "ANULADA"}
Recibidas == {"BORRADOR", "APLICADA", "ANULADA"}
Emitidas == {"REGISTRADA", "EMITIDA", "ENCOLADA"}
Fases == {"ocioso", "pagar", "documento", "aplicar", "revertir", "anular", "emitir"}

-----------------------------------------------------------------------------
(* The account *)

Abierta(c) == [retenido |-> 0, pagos |-> 0, saldo |-> Total[c], estado |-> "PENDIENTE"]

\* Faulty variant of Saldo: what was withheld is not discounted.
SaldoSinRetencion(c, k) == Total[c] - k.pagos
Saldo(c, k) == Total[c] - k.retenido - k.pagos

\* _recalcular_saldo_y_estado, _actualizar_estado_cxp: saldo and estado follow the
\* amounts.  A payment of a CxP does not look at what was withheld.
Recalculada(c, k, movido) ==
  [k EXCEPT !.saldo = Saldo(c, k),
            !.estado = CASE Saldo(c, k) = 0 -> "PAGADA"
                         [] Saldo(c, k) # 0 /\ movido > 0 -> "PARCIAL"
                         [] OTHER -> "PENDIENTE"]

Retenida(c, k, valor) ==
  LET r == k.retenido + valor IN Recalculada(c, [k EXCEPT !.retenido = r], r + k.pagos)

Pagada(c, k, monto) ==
  LET p == k.pagos + monto
  IN  Recalculada(c, [k EXCEPT !.pagos = p], IF c \in CxP THEN p ELSE p + k.retenido)

\* Faulty variant of Escrita: every column of the object is sent.
EscritaEntera(actual, leida, nueva) == nueva
Escrita(actual, leida, nueva) ==
  [col \in DOMAIN actual |-> IF nueva[col] = leida[col] THEN actual[col] ELSE nueva[col]]

Reposo == [fase |-> "ocioso", cuenta |-> Nadie, ret |-> Nadie, monto |-> 0, copia |-> Nadie]

Init ==
  /\ cuenta = [c \in Cuentas |-> Abierta(c)]
  /\ doc \in [Cuentas -> {"NINGUNO", "EMITIDA"}]
  /\ retencion = [r \in Retenciones |-> "LIBRE"]
  /\ recibido = [c \in Cuentas |-> 0]
  /\ cCuenta = [c \in Cuentas |-> Nadie]
  /\ cDoc = [c \in Cuentas |-> Nadie]
  /\ cRet = [r \in Retenciones |-> Nadie]
  /\ req = [t \in Peticiones |-> Reposo]
  /\ efecto = [r \in Retenciones |-> 0]
  /\ directas = {}
  /\ obsoletas = {}

-----------------------------------------------------------------------------
(* Steps shared by every request *)

Soltar(c, t) == IF c = t THEN Nadie ELSE c

Terminar(t) ==
  /\ cCuenta' = [c \in Cuentas |-> Soltar(cCuenta[c], t)]
  /\ cDoc' = [c \in Cuentas |-> Soltar(cDoc[c], t)]
  /\ cRet' = [r \in Retenciones |-> Soltar(cRet[r], t)]
  /\ req' = [req EXCEPT ![t] = Reposo]

\* Faulty variant of Deshacer: the session is dropped and the row locks stay held.
DeshacerSinSoltar(t) == req' = [req EXCEPT ![t] = Reposo] /\ UNCHANGED <<filas, locks, historia>>
Deshacer(t) == Terminar(t) /\ UNCHANGED <<filas, historia>>

-----------------------------------------------------------------------------
(* Payments *)

\* The route: obtener_cxc_por_venta, obtener_cxp_por_compra.
PrecargarCuenta(t, c, monto) ==
  /\ req[t].fase = "ocioso"
  /\ doc[c] # "NINGUNO"
  /\ recibido[c] < MaxRecibido
  /\ req' = [req EXCEPT ![t] = [@ EXCEPT !.fase = "pagar", !.cuenta = c, !.monto = monto,
                                         !.copia = cuenta[c]]]
  /\ UNCHANGED <<filas, locks, historia>>

\* registrar_pago: the SELECT joins the account and its sale or purchase, and FOR UPDATE
\* locks both rows, in the order of the FROM.
BloquearCuenta(t) ==
  /\ req[t].fase = "pagar"
  /\ cCuenta[req[t].cuenta] = Nadie
  /\ cCuenta' = [cCuenta EXCEPT ![req[t].cuenta] = t]
  /\ req' = [req EXCEPT ![t].fase = "documento"]
  /\ UNCHANGED <<filas, cDoc, cRet, historia>>

RegistrarPago(t) ==
  LET c == req[t].cuenta
      leida == req[t].copia
      nueva == Pagada(c, leida, req[t].monto)
      admite == leida.estado # "ANULADA" /\ req[t].monto <= leida.saldo /\ nueva.saldo >= 0
  IN  /\ req[t].fase = "documento"
      /\ cDoc[c] = Nadie
      /\ \/ /\ admite
            /\ cuenta' = [cuenta EXCEPT ![c] = Escrita(@, leida, nueva)]
            /\ recibido' = [recibido EXCEPT ![c] = @ + req[t].monto]
            /\ obsoletas' = IF leida = cuenta[c] THEN obsoletas ELSE obsoletas \cup {c}
            /\ Terminar(t)
            /\ UNCHANGED <<doc, retencion, efecto, directas>>
         \/ ~admite /\ Deshacer(t)

-----------------------------------------------------------------------------
(* Withholdings received, which reduce what a customer owes *)

\* The request chooses the state in which the withholding is created.
CrearRetencionRecibida(r, e) ==
  /\ CuentaDe[r] \in CxC /\ doc[CuentaDe[r]] # "NINGUNO"
  /\ retencion[r] = "LIBRE"
  /\ retencion' = [retencion EXCEPT ![r] = e]
  /\ directas' = IF e = "APLICADA" THEN directas \cup {r} ELSE directas
  /\ UNCHANGED <<cuenta, doc, recibido, locks, req, efecto, obsoletas>>

\* Faulty variant of BloquearRetencion: estado is read without a lock.
LeerSinBloquear(t, r, fase, e) ==
  /\ req[t].fase = "ocioso" /\ CuentaDe[r] \in CxC /\ retencion[r] = e
  /\ req' = [req EXCEPT ![t] = [@ EXCEPT !.fase = fase, !.ret = r, !.cuenta = CuentaDe[r]]]
  /\ UNCHANGED <<filas, locks, historia>>

\* aplicar_retencion_recibida and anular_retencion_recibida begin by locking the row of
\* the withholding, and read its state under the lock.
BloquearRetencion(t, r, fase, e) ==
  /\ req[t].fase = "ocioso"
  /\ CuentaDe[r] \in CxC
  /\ cRet[r] = Nadie
  /\ retencion[r] = e
  /\ cRet' = [cRet EXCEPT ![r] = t]
  /\ req' = [req EXCEPT ![t] = [@ EXCEPT !.fase = fase, !.ret = r, !.cuenta = CuentaDe[r]]]
  /\ UNCHANGED <<filas, cCuenta, cDoc, historia>>

\* The account and the withholding change together.
Asentar(t, nueva, e, signo) ==
  /\ cuenta' = [cuenta EXCEPT ![req[t].cuenta] = nueva]
  /\ retencion' = [retencion EXCEPT ![req[t].ret] = e]
  /\ efecto' = [efecto EXCEPT ![req[t].ret] = @ + signo]
  /\ Terminar(t)
  /\ UNCHANGED <<doc, recibido, directas, obsoletas>>

AplicarRetencion(t) ==
  LET c == req[t].cuenta
      nueva == Retenida(c, cuenta[c], Valor[req[t].ret])
      admite == /\ cuenta[c].estado # "ANULADA"
                /\ Valor[req[t].ret] <= cuenta[c].saldo
                /\ nueva.saldo >= 0
  IN  /\ req[t].fase = "aplicar"
      /\ cCuenta[c] = Nadie
      /\ \/ admite /\ Asentar(t, nueva, "APLICADA", 1)
         \/ ~admite /\ Deshacer(t)

RevertirRetencion(t) ==
  LET c == req[t].cuenta
      nueva == Retenida(c, cuenta[c], 0 - Valor[req[t].ret])
      admite == /\ cuenta[c].estado # "ANULADA"
                /\ Valor[req[t].ret] <= cuenta[c].retenido
                /\ nueva.saldo >= 0
  IN  /\ req[t].fase = "revertir"
      /\ cCuenta[c] = Nadie
      /\ \/ admite /\ Asentar(t, nueva, "ANULADA", -1)
         \/ ~admite /\ Deshacer(t)

-----------------------------------------------------------------------------
(* Cancelling a sale *)

BloquearVenta(t, c) ==
  /\ req[t].fase = "ocioso"
  /\ cDoc[c] = Nadie
  /\ doc[c] = "EMITIDA"
  /\ cDoc' = [cDoc EXCEPT ![c] = t]
  /\ req' = [req EXCEPT ![t] = [@ EXCEPT !.fase = "anular", !.cuenta = c]]
  /\ UNCHANGED <<filas, cCuenta, cRet, historia>>

CerrarCuenta(t, c) ==
  /\ cuenta' = [cuenta EXCEPT ![c] = [@ EXCEPT !.saldo = 0, !.estado = "ANULADA"]]
  /\ doc' = [doc EXCEPT ![c] = "ANULADA"]
  /\ Terminar(t)
  /\ UNCHANGED <<retencion, recibido, historia>>

\* Faulty variant of AnularVenta: only the payments are looked at.
AnularConRetencion(t) ==
  LET c == req[t].cuenta
  IN  /\ req[t].fase = "anular" /\ cCuenta[c] = Nadie
      /\ (cuenta[c].pagos = 0 /\ CerrarCuenta(t, c)) \/ Deshacer(t)

\* The reversal of the stock may still fail after the account has been locked.
AnularVenta(t) ==
  LET c == req[t].cuenta
  IN  /\ req[t].fase = "anular"
      /\ cCuenta[c] = Nadie
      /\ \/ cuenta[c].pagos = 0 /\ cuenta[c].retenido = 0 /\ CerrarCuenta(t, c)
         \/ Deshacer(t)

-----------------------------------------------------------------------------
(* Withholdings issued, which reduce what a supplier is owed *)

\* One that is not ANULADA per purchase: a check, and UNIQUE(compra_id) against a race.
CrearRetencion(r) ==
  /\ CuentaDe[r] \in CxP /\ doc[CuentaDe[r]] # "NINGUNO"
  /\ retencion[r] = "LIBRE"
  /\ \A s \in Retenciones : CuentaDe[s] = CuentaDe[r] => retencion[s] = "LIBRE"
  /\ retencion' = [retencion EXCEPT ![r] = "REGISTRADA"]
  /\ UNCHANGED <<cuenta, doc, recibido, locks, req, historia>>

\* emitir_retencion reads the state of the withholding without a lock.
LeerRetencion(t, r) ==
  /\ req[t].fase = "ocioso"
  /\ CuentaDe[r] \in CxP
  /\ retencion[r] = "REGISTRADA"
  /\ req' = [req EXCEPT ![t] = [@ EXCEPT !.fase = "emitir", !.ret = r, !.cuenta = CuentaDe[r]]]
  /\ UNCHANGED <<filas, locks, historia>>

EmitirRetencion(t) ==
  LET c == req[t].cuenta
      nueva == Retenida(c, cuenta[c], Valor[req[t].ret])
  IN  /\ req[t].fase = "emitir"
      /\ cCuenta[c] = Nadie
      /\ \/ nueva.saldo >= 0 /\ \E e \in {"EMITIDA", "ENCOLADA"} : Asentar(t, nueva, e, 1)
         \/ nueva.saldo < 0 /\ Deshacer(t)

-----------------------------------------------------------------------------
(* Deadlocks: PostgreSQL rolls back one request of a cycle of waiting requests *)

Espera(t) ==
  CASE req[t].fase = "ocioso"    -> {}
    [] req[t].fase = "documento" -> {cDoc[req[t].cuenta]} \ {t, Nadie}
    [] OTHER -> {cCuenta[req[t].cuenta]} \ {t, Nadie}

Interbloqueo(t) ==
  /\ \E S \in SUBSET Peticiones : t \in S /\ \A u \in S : Espera(u) \cap S # {}
  /\ Deshacer(t)

-----------------------------------------------------------------------------
Avanzar(t) ==
  \/ BloquearCuenta(t) \/ RegistrarPago(t)
  \/ AplicarRetencion(t) \/ RevertirRetencion(t) \/ AnularVenta(t) \/ EmitirRetencion(t)
  \/ Interbloqueo(t)

Next ==
  \/ \E r \in Retenciones : CrearRetencion(r) \/ \E e \in Recibidas : CrearRetencionRecibida(r, e)
  \/ \E t \in Peticiones :
       \/ \E c \in Cuentas, monto \in Montos : PrecargarCuenta(t, c, monto)
       \/ \E r \in Retenciones : \/ BloquearRetencion(t, r, "aplicar", "BORRADOR")
                                 \/ BloquearRetencion(t, r, "revertir", "APLICADA")
                                 \/ LeerRetencion(t, r)
       \/ \E c \in CxC : BloquearVenta(t, c)
       \/ Avanzar(t)

Spec == Init /\ [][Next]_vars

\* A request that has begun is executed by its worker thread; PostgreSQL queues those who
\* wait for a row lock and breaks the cycles.
Equidad == \A t \in Peticiones : SF_vars(Avanzar(t))
SpecViva == Spec /\ Equidad

-----------------------------------------------------------------------------
(* Properties *)

Cuenta == [retenido : Nat, pagos : Nat, saldo : Nat, estado : EstadosCuenta]
Peticion == [fase : Fases, cuenta : Cuentas \cup {Nadie}, ret : Retenciones \cup {Nadie},
             monto : Nat, copia : Cuenta \cup {Nadie}]

\* Every variable has its type; no amount of an account is ever negative.
TypeOK ==
  /\ cuenta \in [Cuentas -> Cuenta]
  /\ doc \in [Cuentas -> {"NINGUNO", "EMITIDA", "ANULADA"}]
  /\ retencion \in [Retenciones -> {"LIBRE"} \cup Recibidas \cup Emitidas]
  /\ recibido \in [Cuentas -> Nat]
  /\ cCuenta \in [Cuentas -> Peticiones \cup {Nadie}]
  /\ cDoc \in [Cuentas -> Peticiones \cup {Nadie}]
  /\ cRet \in [Retenciones -> Peticiones \cup {Nadie}]
  /\ req \in [Peticiones -> Peticion]
  /\ efecto \in [Retenciones -> Int]
  /\ directas \in SUBSET Retenciones
  /\ obsoletas \in SUBSET Cuentas

\* Unless a payment worked on an outdated copy, an account says what was really received
\* and what is really owed, and PAGADA exactly what it claims.
SaldoCuadra ==
  \A c \in Cuentas \ obsoletas :
    /\ cuenta[c].pagos = recibido[c]
    /\ cuenta[c].estado # "ANULADA" => cuenta[c].saldo = Total[c] - cuenta[c].retenido - recibido[c]
    /\ cuenta[c].estado = "PAGADA" => cuenta[c].saldo = 0
    /\ cuenta[c].estado = "PARCIAL" => cuenta[c].saldo > 0

\* What an account has withheld is what has been applied to it and not taken back, even
\* where payments overwrite each other: an outdated copy never brings back an old
\* valor_retenido, because a payment does not change that column.
RetenidoCuadra ==
  LET Peso(r, c) == IF CuentaDe[r] = c THEN efecto[r] * Valor[r] ELSE 0
  IN  \A c \in Cuentas :
        cuenta[c].retenido = SumFunction([r \in Retenciones |-> Peso(r, c)])

\* Two requests on one withholding received never both apply it, nor both revert it.
RetencionUnaVez ==
  \A r \in Retenciones \ directas :
    CuentaDe[r] \in CxC => efecto[r] = IF retencion[r] = "APLICADA" THEN 1 ELSE 0

\* A sale is cancelled together with its account, and only while nobody has paid or
\* withheld anything: no later request slips an amount in.
AnuladaSinCobros ==
  \A c \in CxC \ obsoletas :
    /\ doc[c] = "ANULADA" <=> cuenta[c].estado = "ANULADA"
    /\ doc[c] = "ANULADA" => /\ recibido[c] = 0
                             /\ cuenta[c] = [retenido |-> 0, pagos |-> 0, saldo |-> 0,
                                             estado |-> "ANULADA"]

\* Every request ends, although payments and cancellations lock the account and its sale
\* in opposite orders.
TodaPeticionTermina ==
  \A t \in Peticiones : req[t].fase # "ocioso" ~> req[t].fase = "ocioso"
=============================================================================

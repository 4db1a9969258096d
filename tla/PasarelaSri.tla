----------------------------- MODULE PasarelaSri -----------------------------
(***************************************************************************)
(* The queue of ColaSri with the gateway that the code ships for invoices, *)
(* FEECVentaGatewayDefault, and the SRI behind it.  ColaSri lets a gateway *)
(* answer anything, and still does here for the documents of any other;    *)
(* this one makes two calls, reception and authorization, and only answers *)
(* what those two say.                                                     *)
(*                                                                         *)
(* Abstracted: the XML and its signature, which may refuse the document    *)
(* before any call; the mock of FEEC_MOCK_ENABLED, which asks nobody.      *)
(***************************************************************************)
EXTENDS ColaSri

VARIABLES
  pasarela,     \* the gateway of each document: FEEC, or OTRA
  comprobante,  \* what the SRI has of it
  recibidas,    \* threads whose reception was answered RECIBIDA
  inciertos     \* history: documents whose authorization was not heard, or asked for too early

llamadas == <<pasarela, comprobante, recibidas, inciertos>>

Comprobantes == {"NADA", "RECIBIDO", "AUTORIZADO", "NO_AUTORIZADO"}
Feec(t) == hilo[t].fase = "enviada" /\ pasarela[hilo[t].doc] = "FEEC"

InitConPasarela ==
  /\ Init
  /\ pasarela \in [Documentos -> {"FEEC", "OTRA"}]
  /\ \A d \in Documentos : tipo[d] = "RETENCION" => pasarela[d] = "OTRA"
  /\ comprobante = [d \in Documentos |-> "NADA"]
  /\ recibidas = {}
  /\ inciertos = {}

-----------------------------------------------------------------------------
(* enviar_documento *)

\* The SRI does not receive twice a document that it has and has not refused.
Recepcion(t) ==
  LET d == hilo[t].doc
  IN  /\ Feec(t) /\ t \notin recibidas
      /\ comprobante[d] \in {"NADA", "NO_AUTORIZADO"}
      /\ comprobante' = [comprobante EXCEPT ![d] = "RECIBIDO"]
      /\ recibidas' = recibidas \cup {t}
      /\ UNCHANGED <<vars, pasarela, inciertos>>

\* The SRI decides, when it does.
Decidir(d) ==
  /\ comprobante[d] = "RECIBIDO"
  /\ \E e \in {"AUTORIZADO", "NO_AUTORIZADO"} : comprobante' = [comprobante EXCEPT ![d] = e]
  /\ UNCHANGED <<vars, pasarela, recibidas, inciertos>>

\* Faulty variant of Autorizacion: what is received is taken for authorized.
AutorizacionAlRecibir(d) == "AUTORIZADO"

\* What is not authorized yet is answered as rejected.
Autorizacion(d) == IF comprobante[d] = "AUTORIZADO" THEN "AUTORIZADO" ELSE "RECHAZADO"

\* Without a reception: no signature, an XML out of the scheme, or DEVUELTA, which the SRI
\* also answers of what it already has.  A call may always be cut by the network.
Contestadas(t) ==
  IF ~Feec(t) THEN Respuestas
  ELSE {"TIMEOUT", IF t \in recibidas THEN Autorizacion(hilo[t].doc) ELSE "RECHAZADO"}

\* The end of a call, with the answer r of the gateway or without one.
Colgar(t, oido) ==
  /\ recibidas' = recibidas \ {t}
  /\ inciertos' = IF t \in recibidas /\ (~oido \/ comprobante[hilo[t].doc] = "RECIBIDO")
                  THEN inciertos \cup {hilo[t].doc} ELSE inciertos
  /\ UNCHANGED <<pasarela, comprobante>>

Contestar(t, r) == r \in Contestadas(t) /\ Responder(t, r) /\ Colgar(t, r # "TIMEOUT")
Fallar(t) == Reventar(t) /\ Colgar(t, FALSE)

Reinicio ==
  /\ Reiniciar
  /\ recibidas' = {}
  /\ inciertos' = inciertos \cup {hilo[t].doc : t \in recibidas}
  /\ UNCHANGED <<pasarela, comprobante>>

-----------------------------------------------------------------------------
EnCola(t) ==
  /\ (\E d \in Documentos : Firmar(t, d)) \/ LeerTarea(t) \/ Marcar(t) \/ Enviar(t) \/ Cerrar(t)
  /\ UNCHANGED llamadas

AvanzarConPasarela(t) ==
  \/ EnCola(t) \/ Recepcion(t) \/ Fallar(t)
  \/ \E r \in Respuestas : Contestar(t, r)

EncolarConPasarela(d) == Encolar(d) /\ UNCHANGED llamadas
VencerConPasarela(d)  == Vencer(d) /\ UNCHANGED llamadas
EmpezarConPasarela(t, d)      == Empezar(t, d) /\ UNCHANGED llamadas
ProcesarIdsConPasarela(t, ds) == ProcesarIds(t, ds) /\ UNCHANGED llamadas
ProcesarColaConPasarela(t)    == ProcesarCola(t) /\ UNCHANGED llamadas

NextConPasarela ==
  \/ \E d \in Documentos : EncolarConPasarela(d) \/ VencerConPasarela(d) \/ Decidir(d)
  \/ \E t \in Hilos : \/ \E d \in Documentos : EmpezarConPasarela(t, d)
                      \/ \E ds \in SUBSET Documentos : ProcesarIdsConPasarela(t, ds)
  \/ \E t \in Todos : ProcesarColaConPasarela(t) \/ AvanzarConPasarela(t)
  \/ Reinicio

\* The fairness of SpecViva.  The SRI may never decide.
SpecConPasarela ==
  /\ InitConPasarela /\ [][NextConPasarela]_<<vars, llamadas>>
  /\ \A t \in Todos : WF_<<vars, llamadas>>(AvanzarConPasarela(t))
  /\ \A d \in Documentos : WF_<<vars, llamadas>>(VencerConPasarela(d))
  /\ WF_<<vars, llamadas>>(ProcesarColaConPasarela(Trabajador))

-----------------------------------------------------------------------------
(* Properties *)

\* An invoice that shows as authorized is authorized at the SRI, whatever threads cross,
\* die or retry.  One that shows as rejected is not, unless its authorization went
\* unheard, was asked for before the SRI decided, or two threads crossed on it.
DecisionDelSri ==
  \A d \in Documentos :
    pasarela[d] = "FEEC" =>
      /\ sri[d] = "AUTORIZADO" => comprobante[d] = "AUTORIZADO"
      /\ sri[d] = "RECHAZADO" /\ d \notin inciertos \cup cruces
           => comprobante[d] \in {"NADA", "NO_AUTORIZADO"}
=============================================================================

------------------------------- MODULE ColaSri -------------------------------
(***************************************************************************)
(* The queue that sends electronic invoices and withholdings to the SRI,   *)
(* the tax authority.  Three rows follow a document: DocumentoElectronico  *)
(* (what the queue looks at), DocumentoSriCola (the task, with its own     *)
(* attempts) and the estado_sri of the sale or withholding.                *)
(*                                                                         *)
(* Nothing is locked.  The same task is executed by the background task of *)
(* the request that queued it, by the timers it starts, by the worker that *)
(* polls the queue and by the routes that force a document.  A thread is   *)
(* cut at its commits and around the call to the gateway; what a session   *)
(* loaded before the call is what it compares with when it writes.         *)
(*                                                                         *)
(* Abstracted: payload, XML, signature, messages, the history rows and the *)
(* instants: next_retry_at is due or not.  The gateway answers anything.   *)
(***************************************************************************)
EXTENDS Naturals

CONSTANTS
  Documentos,     \* documents sent to the SRI
  Hilos,          \* threads: background tasks, timers, routes
  Trabajador,     \* the thread of the polling worker
  MaxIntentos,    \* max_intentos of a task: 3 in the code
  MaxReintentos,  \* attempts of a document by the queue: 5 in the code
  MaxEnvios,      \* bound: attempts of a task after which RECIBIDO is not answered
                  \* and nobody forces its document
  MaxCaidas,      \* bound: restarts of the process
  Nadie

Todos == Hilos \cup {Trabajador}

ASSUME ColaSupuestos ==
  /\ MaxIntentos \in Nat \ {0} /\ MaxReintentos \in Nat \ {0}
  /\ MaxEnvios \in Nat /\ MaxCaidas \in Nat
  /\ Trabajador \notin Hilos
  /\ Nadie \notin Documentos \cup Todos

VARIABLES
  tipo,         \* FACTURA or RETENCION
  docu,         \* DocumentoElectronico: estado, intentos, and whether its retry is due
  tarea,        \* DocumentoSriCola: estado and intentos_realizados
  sri,          \* estado_sri of the sale or withholding
  programadas,  \* calls of procesar_documento_sri waiting: background tasks and timers
  hilo,         \* the threads
  respuestas,   \* history: the decisions the gateway has answered for each document
  cruces,       \* history: documents two threads worked on at a time
  perdidos,     \* history: documents a thread died on
  caidas        \* history: restarts

filas    == <<tipo, docu, tarea, sri>>
historia == <<respuestas, cruces, perdidos, caidas>>
vars     == <<tipo, docu, tarea, sri, programadas, hilo, respuestas, cruces, perdidos, caidas>>

EstadosDoc   == {"NINGUNO", "EN_COLA", "FIRMADO", "RECIBIDO", "AUTORIZADO", "RECHAZADO"}
EstadosTarea == {"NINGUNO", "PENDIENTE", "PROCESANDO", "REINTENTO_PROGRAMADO", "COMPLETADO",
                 "FALLIDO"}
EstadosSri   == {"NINGUNO", "PENDIENTE", "ENVIADO", "REINTENTO", "AUTORIZADO", "RECHAZADO",
                 "ERROR"}
Respuestas   == {"TIMEOUT", "AUTORIZADO", "RECHAZADO", "RECIBIDO", "OTRA"}
Fases        == {"ocioso", "lote", "tarea", "leida", "marcada", "enviada", "cierre"}

Decisiones   == {"AUTORIZADO", "RECHAZADO"}
Final(e) == e \in Decisiones

-----------------------------------------------------------------------------
(* Threads *)

\* tarea and sri: the copies of the session, sri only where it is loaded before the call.
Reposo == [fase |-> "ocioso", modo |-> "fondo", lote |-> {}, doc |-> Nadie,
           tarea |-> [estado |-> "NINGUNO", intentos |-> 0], sri |-> "NINGUNO"]

\* A thread done with a document goes on with the rest of its batch.
Sigue(h) ==
  IF h.lote = {} THEN Reposo ELSE [Reposo EXCEPT !.fase = "lote", !.modo = h.modo, !.lote = h.lote]

EnDoc(t, d) == hilo[t].doc = d
Cruza(t, d) == \E u \in Todos \ {t} : EnDoc(u, d)
Cruce(t, d) == cruces' = IF Cruza(t, d) THEN cruces \cup {d} ELSE cruces

Init ==
  /\ tipo \in [Documentos -> {"FACTURA", "RETENCION"}]
  /\ docu = [d \in Documentos |-> [estado |-> "NINGUNO", intentos |-> 0, vencido |-> FALSE]]
  /\ tarea = [d \in Documentos |-> [estado |-> "NINGUNO", intentos |-> 0]]
  /\ sri = [d \in Documentos |-> "NINGUNO"]
  /\ programadas = [d \in Documentos |-> 0]
  /\ hilo = [t \in Todos |-> Reposo]
  /\ respuestas = [d \in Documentos |-> {}]
  /\ cruces = {}
  /\ perdidos = {}
  /\ caidas = 0

-----------------------------------------------------------------------------
(* Queueing, and choosing what to process *)

TareaNueva == [estado |-> "PENDIENTE", intentos |-> 0]

\* What each service queues: an invoice shows as sent from the start.
EncolarVenta(d) ==
  /\ tipo[d] = "FACTURA"
  /\ tarea' = [tarea EXCEPT ![d] = TareaNueva]
  /\ sri' = [sri EXCEPT ![d] = "ENVIADO"]

EncolarRetencion(d) ==
  /\ tipo[d] = "RETENCION"
  /\ tarea' = [tarea EXCEPT ![d] = TareaNueva]
  /\ sri' = [sri EXCEPT ![d] = "PENDIENTE"]

\* encolar_documento, committed with the emission of the sale or withholding, and the
\* background task of the request.
Encolar(d) ==
  /\ docu[d].estado = "NINGUNO"
  /\ docu' = [docu EXCEPT ![d] = [estado |-> "EN_COLA", intentos |-> 0, vencido |-> TRUE]]
  /\ EncolarVenta(d) \/ EncolarRetencion(d)
  /\ programadas' = [programadas EXCEPT ![d] = @ + 1]
  /\ UNCHANGED <<tipo, hilo, historia>>

\* Time passes until next_retry_at.
Vencer(d) ==
  /\ docu[d].estado # "NINGUNO" /\ ~docu[d].vencido
  /\ docu' = [docu EXCEPT ![d].vencido = TRUE]
  /\ UNCHANGED <<tipo, tarea, sri, programadas, hilo, historia>>

\* Faulty variant of Pendientes: what the SRI received is not asked about again.
PendientesSinRecibir == {d \in Documentos : /\ docu[d].estado = "EN_COLA"
                                            /\ docu[d].intentos < MaxReintentos}

Pendientes == {d \in Documentos : /\ docu[d].estado \in {"EN_COLA", "RECIBIDO"}
                                  /\ docu[d].intentos < MaxReintentos}

Tomar(t, modo, ds) ==
  /\ hilo[t].fase = "ocioso"
  /\ ds # {}
  /\ hilo' = [hilo EXCEPT ![t] = [Reposo EXCEPT !.fase = "lote", !.modo = modo, !.lote = ds]]
  /\ UNCHANGED <<filas, programadas, historia>>

\* procesar_cola, of the worker or of its route.
ProcesarCola(t) == Tomar(t, "cola", {d \in Pendientes : docu[d].vencido})

\* The routes that force documents whatever their state, or everything pending.
ProcesarIds(t, ds) ==
  /\ \A d \in ds : /\ docu[d].estado # "NINGUNO"
                   /\ docu[d].intentos <= MaxReintentos /\ tarea[d].intentos < MaxEnvios
  /\ Tomar(t, "manual", ds)

-----------------------------------------------------------------------------
(* procesar_documento: the queue's side *)

Firmar(t, d) ==
  /\ hilo[t].fase = "lote"
  /\ d \in hilo[t].lote
  /\ docu' = [docu EXCEPT ![d].estado = "FIRMADO"]
  /\ hilo' = [hilo EXCEPT ![t] = [@ EXCEPT !.fase = "tarea", !.doc = d,
                                           !.lote = hilo[t].lote \ {d}]]
  /\ Cruce(t, d)
  /\ UNCHANGED <<tipo, tarea, sri, programadas, respuestas, perdidos, caidas>>

Resultado(d) == IF Final(sri[d]) THEN sri[d] ELSE "RECIBIDO"

\* The document takes the state of its sale or withholding, or waits for another attempt.
Cerrar(t) ==
  LET d == hilo[t].doc
      intentos == docu[d].intentos + IF Final(sri[d]) THEN 0 ELSE 1
  IN  /\ hilo[t].fase = "cierre"
      /\ docu' = [docu EXCEPT ![d] =
           [estado |-> Resultado(d), intentos |-> intentos,
            vencido |-> Final(sri[d]) \/ intentos >= MaxReintentos]]
      /\ hilo' = [hilo EXCEPT ![t] = Sigue(@)]
      /\ UNCHANGED <<tipo, tarea, sri, programadas, historia>>

-----------------------------------------------------------------------------
(* procesar_documento_sri: the task's side *)

\* A background task, or a timer that expires.
Empezar(t, d) ==
  /\ hilo[t].fase = "ocioso"
  /\ programadas[d] > 0
  /\ programadas' = [programadas EXCEPT ![d] = @ - 1]
  /\ hilo' = [hilo EXCEPT ![t] = [Reposo EXCEPT !.fase = "tarea", !.doc = d]]
  /\ Cruce(t, d)
  /\ UNCHANGED <<filas, respuestas, perdidos, caidas>>

\* The end of procesar_documento_sri: its caller goes on.
Volver(t) ==
  hilo' = [hilo EXCEPT ![t] =
    IF @.modo = "fondo" THEN Reposo
    ELSE [Reposo EXCEPT !.fase = "cierre", !.modo = hilo[t].modo,
                                !.lote = hilo[t].lote, !.doc = hilo[t].doc]]

\* Faulty variant of LeerTarea: a finished task is executed again.
LeerTareaSiempre(t) ==
  /\ hilo[t].fase = "tarea"
  /\ hilo' = [hilo EXCEPT ![t] = [@ EXCEPT !.fase = "leida", !.tarea = tarea[hilo[t].doc]]]
  /\ UNCHANGED <<filas, programadas, historia>>

LeerTarea(t) ==
  LET d == hilo[t].doc
  IN  /\ hilo[t].fase = "tarea"
      /\ \/ tarea[d].estado \in {"COMPLETADO", "FALLIDO"} /\ Volver(t)
         \/ /\ tarea[d].estado \notin {"COMPLETADO", "FALLIDO"}
            /\ hilo' = [hilo EXCEPT ![t] = [@ EXCEPT !.fase = "leida", !.tarea = tarea[d]]]
      /\ UNCHANGED <<filas, programadas, historia>>

\* An UPDATE sends the columns whose value differs from the copy of the session.
Columna(actual, leida, nueva) == IF nueva = leida THEN actual ELSE nueva
TareaEscrita(t, estado, intentos) ==
  LET d == hilo[t].doc
      c == hilo[t].tarea
  IN  tarea' = [tarea EXCEPT ![d] = [estado   |-> Columna(@.estado, c.estado, estado),
                                     intentos |-> Columna(@.intentos, c.intentos, intentos)]]

Marcar(t) ==
  /\ hilo[t].fase = "leida"
  /\ TareaEscrita(t, "PROCESANDO", hilo[t].tarea.intentos + 1)
  /\ hilo' = [hilo EXCEPT ![t].fase = "marcada"]
  /\ UNCHANGED <<tipo, docu, sri, programadas, historia>>

\* After the commit the session loads the task again, and the sale; not the withholding.
Enviar(t) ==
  LET d == hilo[t].doc
  IN  /\ hilo[t].fase = "marcada"
      /\ hilo' = [hilo EXCEPT ![t] = [@ EXCEPT !.fase = "enviada", !.tarea = tarea[d],
                                               !.sri = sri[d]]]
      /\ UNCHANGED <<filas, programadas, historia>>

-----------------------------------------------------------------------------
(* The answer *)

\* Faulty variant of TareaTras: a rejection is retried.
TareaTrasInsistente(t, r) ==
  CASE r = "AUTORIZADO" -> "COMPLETADO"
    [] r # "AUTORIZADO" /\ hilo[t].tarea.intentos < MaxIntentos -> "REINTENTO_PROGRAMADO"
    [] OTHER -> "FALLIDO"

\* The task after an answer.  A withholding does not know RECIBIDO.
TareaTras(t, r) ==
  CASE r = "AUTORIZADO" -> "COMPLETADO"
    [] r = "TIMEOUT" /\ hilo[t].tarea.intentos < MaxIntentos -> "REINTENTO_PROGRAMADO"
    [] r = "RECIBIDO" /\ tipo[hilo[t].doc] = "FACTURA" -> "REINTENTO_PROGRAMADO"
    [] OTHER -> "FALLIDO"

SriTras(t, r) ==
  CASE Final(r) -> r
    [] ~Final(r) /\ TareaTras(t, r) = "FALLIDO" -> "ERROR"
    [] OTHER -> IF tipo[hilo[t].doc] = "FACTURA" THEN "ENVIADO" ELSE "REINTENTO"

\* Only the task of an invoice writes its document, and an error does not.
DocTras(t, r, estado) ==
  IF tipo[hilo[t].doc] = "RETENCION" \/ SriTras(t, r) = "ERROR" THEN estado
  ELSE IF r = "TIMEOUT" THEN "EN_COLA" ELSE r

SriEscrito(t, r) ==
  LET d == hilo[t].doc
      leida == IF tipo[d] = "FACTURA" THEN hilo[t].sri ELSE sri[d]
  IN  sri' = [sri EXCEPT ![d] = Columna(@, leida, SriTras(t, r))]

\* A timer retries what a background task or a timer sent; the queue has its own retries.
Reprogramada(t, r) == TareaTras(t, r) = "REINTENTO_PROGRAMADO" /\ hilo[t].modo = "fondo"

Responder(t, r) ==
  LET d == hilo[t].doc
  IN  /\ hilo[t].fase = "enviada"
      /\ r = "RECIBIDO" => hilo[t].tarea.intentos < MaxEnvios
      /\ TareaEscrita(t, TareaTras(t, r), hilo[t].tarea.intentos)
      /\ SriEscrito(t, r)
      /\ docu' = [docu EXCEPT ![d].estado = DocTras(t, r, @)]
      /\ programadas' = [programadas EXCEPT ![d] = IF Reprogramada(t, r) THEN @ + 1 ELSE @]
      /\ respuestas' = [respuestas EXCEPT ![d] = @ \cup ({r} \cap Decisiones)]
      /\ Volver(t)
      /\ UNCHANGED <<tipo, cruces, perdidos, caidas>>

\* Any other exception of the gateway ends the thread's work on the document, and the
\* batch of procesar_cola with it.
Reventar(t) ==
  /\ hilo[t].fase = "enviada"
  /\ hilo' = [hilo EXCEPT ![t] = IF @.modo = "cola" THEN Reposo ELSE Sigue(@)]
  /\ perdidos' = perdidos \cup {hilo[t].doc}
  /\ UNCHANGED <<filas, programadas, respuestas, cruces, caidas>>

\* The process stops and starts again: threads and timers are gone.
Reiniciar ==
  /\ caidas < MaxCaidas
  /\ caidas' = caidas + 1
  /\ perdidos' = perdidos \cup {d \in Documentos : \E t \in Todos : EnDoc(t, d)}
  /\ programadas' = [d \in Documentos |-> 0]
  /\ hilo' = [t \in Todos |-> Reposo]
  /\ UNCHANGED <<filas, respuestas, cruces>>

-----------------------------------------------------------------------------
Avanzar(t) ==
  \/ \E d \in Documentos : Firmar(t, d)
  \/ LeerTarea(t) \/ Marcar(t) \/ Enviar(t) \/ Cerrar(t) \/ Reventar(t)
  \/ \E r \in Respuestas : Responder(t, r)

Next ==
  \/ \E d \in Documentos : Encolar(d) \/ Vencer(d)
  \/ \E t \in Hilos : \/ \E d \in Documentos : Empezar(t, d)
                      \/ \E ds \in SUBSET Documentos : ProcesarIds(t, ds)
  \/ \E t \in Todos : ProcesarCola(t) \/ Avanzar(t)
  \/ Reiniciar

Spec == Init /\ [][Next]_vars

\* A thread that has begun is executed, retries become due, and the worker polls for ever
\* (FE_QUEUE_AUTO_PROCESS_ENABLED, its default).  Background tasks, timers and routes
\* may never run.
SpecViva ==
  /\ Spec
  /\ \A t \in Todos : WF_vars(Avanzar(t))
  /\ \A d \in Documentos : WF_vars(Vencer(d))
  /\ WF_vars(ProcesarCola(Trabajador))

-----------------------------------------------------------------------------
(* Properties *)

Tarea == [estado : EstadosTarea, intentos : Nat]

\* Every variable has its type.  At most one background task or timer waits for a
\* document: the retries of the queue start none.
TypeOK ==
  /\ tipo \in [Documentos -> {"FACTURA", "RETENCION"}]
  /\ docu \in [Documentos -> [estado : EstadosDoc, intentos : Nat, vencido : BOOLEAN]]
  /\ tarea \in [Documentos -> Tarea]
  /\ sri \in [Documentos -> EstadosSri]
  /\ programadas \in [Documentos -> 0..1]
  /\ hilo \in [Todos -> [fase : Fases, modo : {"fondo", "cola", "manual"},
                         lote : SUBSET Documentos, doc : Documentos \cup {Nadie},
                         tarea : Tarea, sri : EstadosSri]]
  /\ respuestas \in [Documentos -> SUBSET Decisiones]
  /\ cruces \in SUBSET Documentos
  /\ perdidos \in SUBSET Documentos
  /\ caidas \in 0..MaxCaidas

\* No row says AUTORIZADO or RECHAZADO of a document unless the gateway has said so of
\* it, whatever threads cross, die or retry.
RespuestaReal ==
  \A d \in Documentos :
    /\ \A e \in {docu[d].estado, sri[d]} : Final(e) => e \in respuestas[d]
    /\ tarea[d].estado = "COMPLETADO" => "AUTORIZADO" \in respuestas[d]

\* FIRMADO is invisible to the queue: unless a thread died on it, a document in that state
\* is in the hands of a thread that will give it another.
FirmadoEnManos ==
  \A d \in Documentos \ perdidos :
    docu[d].estado = "FIRMADO" => \E t \in Todos : EnDoc(t, d) /\ hilo[t].modo # "fondo"

\* Unless two threads crossed on it, the three rows of a document agree.
FilasCoherentes ==
  \A d \in Documentos \ cruces :
    /\ Final(docu[d].estado) => sri[d] = docu[d].estado
    /\ sri[d] = "AUTORIZADO" <=> tarea[d].estado = "COMPLETADO"
    /\ sri[d] \in {"RECHAZADO", "ERROR"} <=> tarea[d].estado = "FALLIDO"

\* Unless two threads crossed on it, what the SRI decided of a document is not undone by
\* a late timer, by the queue or by a route.
DecisionFirme ==
  [][\A d \in Documentos \ cruces' : Final(sri[d]) => sri'[d] = sri[d]]_vars

\* Every document queued gets its decision or exhausts its attempts, unless a thread died
\* on it: the worker alone brings it there.
TodoSeResuelve ==
  \A d \in Documentos :
    docu[d].estado # "NINGUNO" ~>
      Final(docu[d].estado) \/ docu[d].intentos >= MaxReintentos \/ d \in perdidos
=============================================================================

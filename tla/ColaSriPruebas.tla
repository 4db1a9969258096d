--------------------------- MODULE ColaSriPruebas ---------------------------
(***************************************************************************)
(* The electronic documents and the company they are of. The first part is *)
(* what ColaSri guarantees for any documents, threads and attempts; the    *)
(* second, what Organizacion does for any company, branches, points and    *)
(* sales.                                                                  *)
(***************************************************************************)
EXTENDS PasarelaSri, Organizacion, TLAPS

-----------------------------------------------------------------------------
(* The inductive invariant *)

Terminadas == {"COMPLETADO", "FALLIDO"}

Hilo == [fase : Fases, modo : {"fondo", "cola", "manual"}, lote : SUBSET Documentos,
         doc : Documentos \cup {Nadie}, tarea : Tarea, sri : EstadosSri]

\* A thread at work has a document; background tasks and timers have no batch.
HiloForma(h) ==
  /\ h.fase \in {"ocioso", "lote"} <=> h.doc = Nadie
  /\ h.fase \in {"lote", "cierre"} => h.modo # "fondo"
  /\ h.modo = "fondo" => h.lote = {}

\* The copies of a thread are the rows, and it does not send what is finished.
CopiaBien(h) ==
  /\ h.fase \in {"leida", "marcada", "enviada"} => tarea[h.doc].estado \notin Terminadas
  /\ h.fase \in {"leida", "enviada"} => h.tarea = tarea[h.doc]
  /\ h.fase = "enviada" => h.sri = sri[h.doc]

\* The documents of a thread have been queued; unless another works on the same, its
\* copies are good.
HiloBien(t, h) ==
  /\ HiloForma(h)
  /\ \A d \in Documentos : d \in h.lote \/ d = h.doc => docu[d].estado # "NINGUNO"
  /\ h.doc \in Documentos \ cruces =>
       /\ \A u \in Todos : EnDoc(u, h.doc) => u = t
       /\ CopiaBien(h)

\* A document has at most one background task or timer, waiting or running, and none before
\* it is queued.
FondoUnico ==
  \A d \in Documentos :
    /\ docu[d].estado = "NINGUNO" => programadas[d] = 0 /\ sri[d] = "NINGUNO"
    /\ \A t, u \in Todos :
         EnDoc(t, d) /\ hilo[t].modo = "fondo" =>
           /\ programadas[d] = 0
           /\ EnDoc(u, d) /\ hilo[u].modo = "fondo" => u = t

Inv ==
  /\ TypeOK
  /\ \A t \in Todos : HiloBien(t, hilo[t])
  /\ FondoUnico
  /\ RespuestaReal
  /\ FirmadoEnManos
  /\ FilasCoherentes

-----------------------------------------------------------------------------
(* Threads *)

\* A thread that ends with a document keeps its type and has no document.
LEMMA SigueBien ==
  ASSUME NEW h \in Hilo
  PROVE  /\ Sigue(h) \in Hilo
         /\ Sigue(h).doc = Nadie
         /\ Sigue(h).lote = h.lote
         /\ Sigue(h).fase = IF h.lote = {} THEN "ocioso" ELSE "lote"
         /\ h.lote # {} => Sigue(h).modo = h.modo
BY DEF Sigue, Reposo, Hilo, Fases, Tarea, EstadosTarea, EstadosSri

\* A thread at rest is a thread, without a document.
LEMMA ReposoBien ==
  /\ Reposo \in Hilo /\ Reposo.fase = "ocioso" /\ Reposo.modo = "fondo"
  /\ Reposo.lote = {} /\ Reposo.doc = Nadie
BY DEF Reposo, Hilo, Fases, Tarea, EstadosTarea, EstadosSri

\* What the end of procesar_documento_sri leaves of a thread at work.
LEMMA VolverBien ==
  ASSUME TypeOK, NEW t \in Todos, HiloBien(t, hilo[t]), hilo[t].doc # Nadie, Volver(t)
  PROVE  /\ hilo' \in [Todos -> Hilo]
         /\ \A u \in Todos \ {t} : hilo'[u] = hilo[u]
         /\ HiloForma(hilo'[t])
         /\ hilo'[t].lote = hilo[t].lote
         /\ hilo'[t].fase \in {"ocioso", "cierre"}
         /\ IF hilo[t].modo = "fondo"
              THEN hilo'[t].doc = Nadie
              ELSE hilo'[t].doc = hilo[t].doc /\ hilo'[t].modo = hilo[t].modo
<1>1. hilo \in [Todos -> Hilo] /\ hilo[t] \in Hilo
  BY DEF TypeOK, Hilo
<1>2. CASE hilo[t].modo = "fondo"
  <2>1. hilo' = [hilo EXCEPT ![t] = Reposo]
    BY <1>2 DEF Volver
  <2> QED
    BY <1>1, <1>2, <2>1, ReposoBien DEF HiloForma, HiloBien
<1>3. CASE hilo[t].modo # "fondo"
  <2> DEFINE r == [Reposo EXCEPT !.fase = "cierre", !.modo = hilo[t].modo,
                                 !.lote = hilo[t].lote, !.doc = hilo[t].doc]
  <2>1. hilo' = [hilo EXCEPT ![t] = r]
    BY <1>3 DEF Volver
  <2>2. /\ r \in Hilo /\ r.fase = "cierre" /\ r.modo = hilo[t].modo
        /\ r.lote = hilo[t].lote /\ r.doc = hilo[t].doc
    BY <1>1 DEF Reposo, Hilo, Fases, Tarea, EstadosTarea, EstadosSri
  <2> HIDE DEF r
  <2>3. hilo'[t] = r /\ hilo' \in [Todos -> Hilo]
    BY <1>1, <2>1, <2>2
  <2> QED
    BY <1>1, <1>3, <2>1, <2>2, <2>3 DEF HiloForma
<1> QED BY <1>2, <1>3

\* A step of one thread leaves all of them well, when it writes the rows of its own
\* document only and takes no document of another without counting the crossing.
LEMMA HilosBien ==
  ASSUME TypeOK, TypeOK', \A u \in Todos : HiloBien(u, hilo[u]),
         NEW t \in Todos,
         \A u \in Todos \ {t} : hilo'[u] = hilo[u],
         cruces \subseteq cruces',
         \A d \in Documentos : docu[d].estado # "NINGUNO" => docu'[d].estado # "NINGUNO",
         \A d \in Documentos : d # hilo[t].doc => tarea'[d] = tarea[d] /\ sri'[d] = sri[d],
         HiloForma(hilo'[t]),
         \A d \in Documentos :
           d \in hilo'[t].lote \/ d = hilo'[t].doc => docu'[d].estado # "NINGUNO",
         \/ hilo'[t].doc \in {Nadie, hilo[t].doc}
         \/ \A u \in Todos \ {t} : EnDoc(u, hilo'[t].doc) => hilo'[t].doc \in cruces',
         hilo'[t].doc \in Documentos \ cruces' => CopiaBien(hilo[t])'
  PROVE  \A u \in Todos : HiloBien(u, hilo[u])'
<1> SUFFICES ASSUME NEW u \in Todos
             PROVE  HiloBien(u, hilo[u])'
  OBVIOUS
<1> DEFINE d == hilo'[u].doc
<1>1. HiloForma(hilo'[u])
  BY DEF HiloBien
<1>2. \A e \in Documentos : e \in hilo'[u].lote \/ e = hilo'[u].doc => docu'[e].estado # "NINGUNO"
  BY DEF HiloBien
<1>3. ASSUME d \in Documentos \ cruces', NEW w \in Todos, hilo'[w].doc = d
      PROVE  w = u
  <2>1. d # Nadie /\ d \notin cruces
    BY <1>3, ColaSupuestos
  <2> HIDE DEF d
  <2>2. CASE u # t /\ w # t
    BY <1>3, <2>1, <2>2 DEF HiloBien, EnDoc, d
  <2>3. CASE u = t /\ w # t
    BY <1>3, <2>1, <2>3 DEF HiloBien, EnDoc, d
  <2>4. CASE u # t /\ w = t
    BY <1>3, <2>1, <2>4 DEF HiloBien, EnDoc, d
  <2> QED BY <2>2, <2>3, <2>4
<1>4. ASSUME d \in Documentos \ cruces'
      PROVE  CopiaBien(hilo[u])'
  <2>1. CASE u = t
    BY <1>4, <2>1
  <2>2. CASE u # t
    <3>1. hilo'[u] = hilo[u] /\ d \in Documentos \ cruces
      BY <1>4, <2>2
    <3>2. d # hilo[t].doc
      BY <2>2, <3>1 DEF HiloBien, EnDoc
    <3>3. tarea'[d] = tarea[d] /\ sri'[d] = sri[d]
      BY <3>1, <3>2
    <3>4. CopiaBien(hilo[u])
      BY <3>1 DEF HiloBien
    <3> QED BY <3>1, <3>3, <3>4 DEF CopiaBien
  <2> QED BY <2>1, <2>2
<1> QED BY <1>1, <1>2, <1>3, <1>4 DEF HiloBien, EnDoc

-----------------------------------------------------------------------------
(* The initial states *)

LEMMA InicioBien == Init => Inv
<1> SUFFICES ASSUME Init PROVE Inv
  OBVIOUS
<1>1. TypeOK
  BY ReposoBien, ColaSupuestos
     DEF Init, TypeOK, Hilo, Tarea, EstadosDoc, EstadosTarea, EstadosSri
<1>2. \A t \in Todos : HiloBien(t, hilo[t])
  <2>1. \A t \in Todos : hilo[t] = Reposo
    BY DEF Init
  <2> QED BY <2>1, ReposoBien, ColaSupuestos DEF HiloBien, HiloForma
<1>3. FondoUnico
  BY ReposoBien, ColaSupuestos DEF Init, FondoUnico, EnDoc
<1>4. RespuestaReal
  BY DEF Init, RespuestaReal, Final, Decisiones
<1>5. FirmadoEnManos
  BY DEF Init, FirmadoEnManos
<1>6. FilasCoherentes
  BY DEF Init, FilasCoherentes, Final, Decisiones
<1> QED BY <1>1, <1>2, <1>3, <1>4, <1>5, <1>6 DEF Inv

-----------------------------------------------------------------------------
(* The steps *)

LEMMA PasoEncolar ==
  ASSUME Inv, NEW d \in Documentos, Encolar(d)
  PROVE  Inv'
<1>1. /\ TypeOK /\ hilo' = hilo /\ cruces' = cruces /\ perdidos' = perdidos
      /\ respuestas' = respuestas /\ docu[d].estado = "NINGUNO"
      /\ programadas[d] = 0 /\ sri[d] = "NINGUNO"
  BY DEF Inv, Encolar, historia, FondoUnico
<1>2. \A t \in Todos : ~EnDoc(t, d)
  BY <1>1 DEF Inv, HiloBien, EnDoc
<1>3. /\ docu'[d].estado = "EN_COLA" /\ tarea'[d].estado = "PENDIENTE"
      /\ sri'[d] \in {"ENVIADO", "PENDIENTE"}
      /\ \A e \in Documentos \ {d} : /\ docu'[e] = docu[e] /\ tarea'[e] = tarea[e]
                                     /\ sri'[e] = sri[e] /\ programadas'[e] = programadas[e]
  BY <1>1 DEF Encolar, EncolarVenta, EncolarRetencion, TareaNueva, TypeOK
<1>4. TypeOK'
  <2>1. [estado |-> "EN_COLA", intentos |-> 0, vencido |-> TRUE]
          \in [estado : EstadosDoc, intentos : Nat, vencido : BOOLEAN]
    BY DEF EstadosDoc
  <2>2. [estado |-> "PENDIENTE", intentos |-> 0] \in Tarea
    BY DEF Tarea, EstadosTarea
  <2>3. docu' \in [Documentos -> [estado : EstadosDoc, intentos : Nat, vencido : BOOLEAN]]
    BY <1>1, <2>1 DEF Encolar, EncolarVenta, EncolarRetencion, TareaNueva, TypeOK
  <2>4. tarea' \in [Documentos -> Tarea]
    BY <1>1, <2>2 DEF Encolar, EncolarVenta, EncolarRetencion, TareaNueva, TypeOK
  <2>5. sri' \in [Documentos -> EstadosSri]
    BY <1>1 DEF Encolar, EncolarVenta, EncolarRetencion, TareaNueva, TypeOK, EstadosSri
  <2>6. programadas' \in [Documentos -> 0..1]
    BY <1>1 DEF Encolar, EncolarVenta, EncolarRetencion, TareaNueva, TypeOK
  <2> QED BY <1>1, <2>3, <2>4, <2>5, <2>6 DEF Encolar, EncolarVenta, EncolarRetencion, TareaNueva, TypeOK, historia
<1>5. \A t \in Todos : HiloBien(t, hilo[t])'
  <2> SUFFICES ASSUME NEW t \in Todos PROVE HiloBien(t, hilo[t])'
    OBVIOUS
  <2>1. HiloBien(t, hilo[t])
    BY DEF Inv
  <2>2. \A e \in Documentos : e \in hilo[t].lote \/ e = hilo[t].doc => docu'[e].estado # "NINGUNO"
    BY <1>3, <2>1 DEF HiloBien
  <2>3. hilo[t].doc \in Documentos \ cruces => CopiaBien(hilo[t])'
    BY <1>1, <1>2, <1>3, <2>1 DEF HiloBien, CopiaBien, EnDoc
  <2> QED BY <1>1, <2>1, <2>2, <2>3 DEF HiloBien, EnDoc
<1>6. FondoUnico'
  BY <1>1, <1>2, <1>3 DEF Inv, FondoUnico, EnDoc
<1>7. RespuestaReal'
  BY <1>1, <1>3 DEF Inv, RespuestaReal, Final, Decisiones
<1>8. FirmadoEnManos'
  BY <1>1, <1>3 DEF Inv, FirmadoEnManos, EnDoc
<1>9. FilasCoherentes'
  BY <1>1, <1>3 DEF Inv, FilasCoherentes, Final, Decisiones
<1> QED BY <1>4, <1>5, <1>6, <1>7, <1>8, <1>9 DEF Inv

\* A retry that becomes due changes a date nobody else reads.
LEMMA PasoVencer ==
  ASSUME Inv, NEW d \in Documentos, Vencer(d)
  PROVE  Inv'
<1>1. /\ TypeOK /\ UNCHANGED <<tipo, tarea, sri, programadas, hilo, respuestas, cruces, perdidos>>
      /\ caidas' = caidas
  BY DEF Inv, Vencer, historia
<1>2. \A e \in Documentos : docu'[e].estado = docu[e].estado
  BY <1>1 DEF Vencer, TypeOK
<1>3. docu' \in [Documentos -> [estado : EstadosDoc, intentos : Nat, vencido : BOOLEAN]]
  <2>1. docu[d] \in [estado : EstadosDoc, intentos : Nat, vencido : BOOLEAN]
    BY <1>1 DEF TypeOK
  <2>2. [docu[d] EXCEPT !.vencido = TRUE]
          \in [estado : EstadosDoc, intentos : Nat, vencido : BOOLEAN]
    BY <2>1
  <2> QED BY <1>1, <2>2 DEF Vencer, TypeOK
<1>4. TypeOK'
  BY <1>1, <1>3 DEF TypeOK
<1>5. \A t \in Todos : HiloBien(t, hilo[t])'
  BY <1>1, <1>2 DEF Inv, HiloBien, CopiaBien, EnDoc
<1>6. FondoUnico' /\ RespuestaReal' /\ FirmadoEnManos' /\ FilasCoherentes'
  BY <1>1, <1>2 DEF Inv, FondoUnico, RespuestaReal, FirmadoEnManos, FilasCoherentes, EnDoc
<1> QED BY <1>4, <1>5, <1>6 DEF Inv

\* A thread that takes a batch takes no document yet.
LEMMA PasoTomar ==
  ASSUME Inv, NEW t \in Todos, NEW modo \in {"cola", "manual"}, NEW ds \in SUBSET Documentos,
         \A d \in ds : docu[d].estado # "NINGUNO", Tomar(t, modo, ds)
  PROVE  Inv'
<1> DEFINE h == [Reposo EXCEPT !.fase = "lote", !.modo = modo, !.lote = ds]
<1>1. /\ TypeOK /\ \A u \in Todos : HiloBien(u, hilo[u])
      /\ UNCHANGED <<tipo, docu, tarea, sri, programadas, respuestas, cruces, perdidos, caidas>>
  BY DEF Inv, Tomar, filas, historia
<1>2. /\ h \in Hilo /\ h.fase = "lote" /\ h.modo = modo /\ h.lote = ds /\ h.doc = Nadie
  BY DEF Reposo, Hilo, Fases, Tarea, EstadosTarea, EstadosSri
<1>3. hilo' = [hilo EXCEPT ![t] = h] /\ hilo[t].fase = "ocioso" /\ hilo[t].doc = Nadie
  BY <1>1 DEF Tomar, HiloBien, HiloForma
<1> HIDE DEF h
<1>4. /\ hilo' \in [Todos -> Hilo] /\ hilo'[t] = h
      /\ \A u \in Todos \ {t} : hilo'[u] = hilo[u]
  BY <1>1, <1>2, <1>3 DEF TypeOK, Hilo
<1>5. TypeOK'
  BY <1>1, <1>4 DEF TypeOK, Hilo
<1>6. \A u \in Todos : HiloBien(u, hilo[u])'
  <2>1. HiloForma(hilo'[t])
    BY <1>2, <1>4 DEF HiloForma
  <2>2. hilo'[t].doc \notin Documentos /\ hilo'[t].doc = Nadie
    BY <1>2, <1>4, ColaSupuestos
  <2> QED BY <1>1, <1>2, <1>4, <1>5, <2>1, <2>2, HilosBien
<1>7. \A u \in Todos, d \in Documentos : EnDoc(u, d)' <=> EnDoc(u, d)
  BY <1>2, <1>3, <1>4, ColaSupuestos DEF EnDoc
<1>8. \A u \in Todos, d \in Documentos : EnDoc(u, d)' => hilo'[u] = hilo[u]
  BY <1>2, <1>4, ColaSupuestos DEF EnDoc
<1>9. FondoUnico'
  BY <1>1, <1>7, <1>8 DEF Inv, FondoUnico
<1>10. FirmadoEnManos'
  BY <1>1, <1>7, <1>8 DEF Inv, FirmadoEnManos
<1>11. RespuestaReal' /\ FilasCoherentes'
  BY <1>1 DEF Inv, RespuestaReal, FilasCoherentes
<1> QED BY <1>5, <1>6, <1>9, <1>10, <1>11 DEF Inv

\* A thread takes a document of its batch, and counts the crossing if it is not alone.
LEMMA PasoFirmar ==
  ASSUME Inv, NEW t \in Todos, NEW d \in Documentos, Firmar(t, d)
  PROVE  Inv'
<1> DEFINE h == [hilo[t] EXCEPT !.fase = "tarea", !.doc = d, !.lote = hilo[t].lote \ {d}]
<1>1. /\ TypeOK /\ \A u \in Todos : HiloBien(u, hilo[u])
      /\ hilo[t] \in Hilo /\ hilo[t].fase = "lote" /\ d \in hilo[t].lote
      /\ hilo[t].doc = Nadie /\ hilo[t].modo # "fondo" /\ docu[d].estado # "NINGUNO"
      /\ UNCHANGED <<tipo, tarea, sri, programadas, respuestas, perdidos, caidas>>
  BY DEF Inv, TypeOK, Hilo, Firmar, HiloBien, HiloForma
<1>2. /\ h \in Hilo /\ h.fase = "tarea" /\ h.modo = hilo[t].modo /\ h.doc = d
      /\ h.lote = hilo[t].lote \ {d}
  BY <1>1 DEF Hilo, Fases
<1>3. hilo' = [hilo EXCEPT ![t] = h]
  BY DEF Firmar
<1> HIDE DEF h
<1>4. /\ hilo' \in [Todos -> Hilo] /\ hilo'[t] = h
      /\ \A u \in Todos \ {t} : hilo'[u] = hilo[u]
  BY <1>1, <1>2, <1>3 DEF TypeOK, Hilo
<1>5. /\ \A e \in Documentos \ {d} : docu'[e] = docu[e]
      /\ docu'[d].estado = "FIRMADO"
      /\ docu' \in [Documentos -> [estado : EstadosDoc, intentos : Nat, vencido : BOOLEAN]]
  <2>1. docu[d] \in [estado : EstadosDoc, intentos : Nat, vencido : BOOLEAN]
    BY <1>1 DEF TypeOK
  <2>2. [docu[d] EXCEPT !.estado = "FIRMADO"]
          \in [estado : EstadosDoc, intentos : Nat, vencido : BOOLEAN]
    BY <2>1 DEF EstadosDoc
  <2> QED BY <1>1, <2>1, <2>2 DEF Firmar, TypeOK
<1>6. /\ cruces \subseteq cruces' /\ cruces' \in SUBSET Documentos
      /\ (\E u \in Todos \ {t} : EnDoc(u, d)) => d \in cruces'
  BY <1>1 DEF Firmar, Cruce, Cruza, TypeOK
<1>7. TypeOK'
  BY <1>1, <1>4, <1>5, <1>6 DEF TypeOK, Hilo
<1>8. \A u \in Todos : HiloBien(u, hilo[u])'
  <2>1. HiloForma(hilo'[t]) /\ (CopiaBien(hilo[t]))'
    BY <1>1, <1>2, <1>4, ColaSupuestos DEF HiloForma, CopiaBien
  <2>2. \A e \in Documentos : docu[e].estado # "NINGUNO" => docu'[e].estado # "NINGUNO"
    BY <1>5
  <2>3. \A e \in Documentos :
          e \in hilo'[t].lote \/ e = hilo'[t].doc => docu'[e].estado # "NINGUNO"
    BY <1>1, <1>2, <1>4, <1>5 DEF HiloBien
  <2>4. \A u \in Todos \ {t} : EnDoc(u, hilo'[t].doc) => hilo'[t].doc \in cruces'
    BY <1>2, <1>4, <1>6
  <2> QED BY <1>1, <1>4, <1>6, <1>7, <2>1, <2>2, <2>3, <2>4, HilosBien
<1>9. FondoUnico'
  BY <1>1, <1>2, <1>4, <1>5 DEF Inv, FondoUnico, EnDoc
<1>10. RespuestaReal'
  BY <1>1, <1>5 DEF Inv, RespuestaReal, Final, Decisiones
<1>11. FirmadoEnManos'
  <2> SUFFICES ASSUME NEW e \in Documentos \ perdidos', docu'[e].estado = "FIRMADO"
               PROVE  \E u \in Todos : EnDoc(u, e)' /\ hilo'[u].modo # "fondo"
    BY DEF FirmadoEnManos
  <2>1. CASE e = d
    BY <1>1, <1>2, <1>4, <2>1 DEF EnDoc
  <2>2. CASE e # d
    <3>1. PICK u \in Todos : EnDoc(u, e) /\ hilo[u].modo # "fondo"
      BY <1>1, <1>5, <2>2 DEF Inv, FirmadoEnManos
    <3>2. u # t
      BY <1>1, <3>1, ColaSupuestos DEF EnDoc
    <3> QED BY <1>4, <3>1, <3>2 DEF EnDoc
  <2> QED BY <2>1, <2>2
<1>12. FilasCoherentes'
  BY <1>1, <1>5, <1>6 DEF Inv, FilasCoherentes, Final, Decisiones
<1> QED BY <1>7, <1>8, <1>9, <1>10, <1>11, <1>12 DEF Inv

\* A background task or timer starts: the only one of its document.
LEMMA PasoEmpezar ==
  ASSUME Inv, NEW t \in Hilos, NEW d \in Documentos, Empezar(t, d)
  PROVE  Inv'
<1> DEFINE h == [Reposo EXCEPT !.fase = "tarea", !.doc = d]
<1>1. /\ TypeOK /\ \A u \in Todos : HiloBien(u, hilo[u]) /\ t \in Todos
      /\ hilo[t] \in Hilo /\ hilo[t].fase = "ocioso" /\ hilo[t].doc = Nadie
      /\ programadas[d] = 1
      /\ UNCHANGED <<tipo, docu, tarea, sri, respuestas, perdidos, caidas>>
  BY DEF Inv, TypeOK, Hilo, Empezar, HiloBien, HiloForma, filas, Todos
<1>2. h \in Hilo /\ h.fase = "tarea" /\ h.modo = "fondo" /\ h.doc = d /\ h.lote = {}
  BY DEF Reposo, Hilo, Fases, Tarea, EstadosTarea, EstadosSri
<1>3. hilo' = [hilo EXCEPT ![t] = h]
  BY DEF Empezar
<1> HIDE DEF h
<1>4. /\ hilo' \in [Todos -> Hilo] /\ hilo'[t] = h
      /\ \A u \in Todos \ {t} : hilo'[u] = hilo[u]
  <2>1. hilo \in [Todos -> Hilo]
    BY DEF Inv, TypeOK, Hilo
  <2>2. t \in Todos
    BY DEF Todos
  <2> QED BY <1>2, <1>3, <2>1, <2>2
<1>5. /\ programadas' \in [Documentos -> 0..1] /\ programadas'[d] = 0
      /\ \A e \in Documentos \ {d} : programadas'[e] = programadas[e]
  BY <1>1 DEF Empezar, TypeOK
<1>6. /\ cruces \subseteq cruces' /\ cruces' \in SUBSET Documentos
      /\ (\E u \in Todos \ {t} : EnDoc(u, d)) => d \in cruces'
  BY <1>1 DEF Empezar, Cruce, Cruza, TypeOK
<1>7. docu[d].estado # "NINGUNO"
  BY <1>1 DEF Inv, FondoUnico
<1>8. TypeOK'
  BY <1>1, <1>4, <1>5, <1>6 DEF TypeOK, Hilo
<1>9. \A u \in Todos : HiloBien(u, hilo[u])'
  <2>1. HiloForma(hilo'[t]) /\ (CopiaBien(hilo[t]))'
    BY <1>2, <1>4, ColaSupuestos DEF HiloForma, CopiaBien
  <2>2. \A e \in Documentos :
          e \in hilo'[t].lote \/ e = hilo'[t].doc => docu'[e].estado # "NINGUNO"
    BY <1>1, <1>2, <1>4, <1>7
  <2>3. \A u \in Todos \ {t} : EnDoc(u, hilo'[t].doc) => hilo'[t].doc \in cruces'
    BY <1>2, <1>4, <1>6
  <2> QED BY <1>1, <1>4, <1>6, <1>8, <2>1, <2>2, <2>3, HilosBien
<1>10. FondoUnico'
  <2>1. \A u \in Todos : hilo[u].modo = "fondo" => ~EnDoc(u, d)
    BY <1>1 DEF Inv, FondoUnico
  <2>2. \A e \in Documentos : docu'[e].estado = "NINGUNO" => programadas'[e] = 0 /\ sri'[e] = "NINGUNO"
    BY <1>1, <1>5 DEF Inv, FondoUnico
  <2> SUFFICES ASSUME NEW e \in Documentos, NEW v \in Todos, NEW u \in Todos,
                      EnDoc(v, e)', hilo'[v].modo = "fondo"
               PROVE  /\ programadas'[e] = 0
                      /\ EnDoc(u, e)' /\ hilo'[u].modo = "fondo" => u = v
    BY <2>2 DEF FondoUnico
  <2>3. CASE e = d
    BY <1>2, <1>4, <1>5, <2>1, <2>3 DEF EnDoc
  <2>4. CASE e # d
    BY <1>2, <1>4, <1>5, <2>4 DEF EnDoc, Inv, FondoUnico
  <2> QED BY <2>3, <2>4
<1>11. FirmadoEnManos'
  <2> SUFFICES ASSUME NEW e \in Documentos \ perdidos', docu'[e].estado = "FIRMADO"
               PROVE  \E u \in Todos : EnDoc(u, e)' /\ hilo'[u].modo # "fondo"
    BY DEF FirmadoEnManos
  <2>1. PICK u \in Todos : EnDoc(u, e) /\ hilo[u].modo # "fondo"
    BY <1>1 DEF Inv, FirmadoEnManos
  <2>2. u # t
    BY <1>1, <2>1, ColaSupuestos DEF EnDoc
  <2> QED BY <1>4, <2>1, <2>2 DEF EnDoc
<1>12. RespuestaReal' /\ FilasCoherentes'
  BY <1>1, <1>6 DEF Inv, RespuestaReal, FilasCoherentes
<1> QED BY <1>8, <1>9, <1>10, <1>11, <1>12 DEF Inv

\* A thread that goes on with its document or leaves it keeps the background tasks of each
\* document one.
LEMMA FondoSigue ==
  ASSUME Inv, NEW t \in Todos, \A u \in Todos \ {t} : hilo'[u] = hilo[u],
         hilo'[t].doc \in {Nadie, hilo[t].doc},
         hilo'[t].doc # Nadie => hilo'[t].modo = hilo[t].modo,
         \A d \in Documentos :
           docu'[d].estado = "NINGUNO" =>
             docu[d].estado = "NINGUNO" /\ sri'[d] = sri[d] /\ programadas'[d] = programadas[d],
         \A d \in Documentos :
           \/ programadas'[d] = programadas[d]
           \/ hilo[t].doc = d /\ hilo[t].modo = "fondo" /\ hilo'[t].doc = Nadie
  PROVE  FondoUnico'
<1>1. ASSUME NEW d \in Documentos, NEW u \in Todos, EnDoc(u, d)', hilo'[u].modo = "fondo"
      PROVE  EnDoc(u, d) /\ hilo[u].modo = "fondo"
  BY <1>1, ColaSupuestos DEF EnDoc
<1>2. ASSUME NEW d \in Documentos, NEW v \in Todos, NEW u \in Todos,
             EnDoc(v, d)', hilo'[v].modo = "fondo"
      PROVE  /\ programadas'[d] = 0
             /\ EnDoc(u, d)' /\ hilo'[u].modo = "fondo" => u = v
  <2>1. EnDoc(v, d) /\ hilo[v].modo = "fondo" /\ programadas[d] = 0
    BY <1>1, <1>2 DEF Inv, FondoUnico
  <2>2. EnDoc(u, d)' /\ hilo'[u].modo = "fondo" => u = v
    BY <1>1, <1>2, <2>1 DEF Inv, FondoUnico
  <2>3. EnDoc(t, d) /\ hilo[t].modo = "fondo" => t = v
    BY <2>1 DEF Inv, FondoUnico
  <2>4. programadas'[d] = programadas[d]
    BY <1>2, <2>3, ColaSupuestos DEF EnDoc
  <2> QED BY <2>1, <2>2, <2>4
<1>3. ASSUME NEW d \in Documentos, docu'[d].estado = "NINGUNO"
      PROVE  programadas'[d] = 0 /\ sri'[d] = "NINGUNO"
  BY <1>3 DEF Inv, FondoUnico
<1> QED BY <1>2, <1>3 DEF FondoUnico

\* What is FIRMADO stays in the hands of a thread when no thread leaves it so.
LEMMA ManosSigue ==
  ASSUME Inv, NEW t \in Todos, \A u \in Todos \ {t} : hilo'[u] = hilo[u],
         perdidos \subseteq perdidos',
         hilo'[t].doc # Nadie => hilo'[t].modo = hilo[t].modo,
         \A d \in Documentos \ perdidos' :
           docu'[d].estado = "FIRMADO" =>
             /\ docu[d].estado = "FIRMADO"
             /\ d = hilo[t].doc => hilo'[t].doc = d \/ hilo[t].modo = "fondo"
  PROVE  FirmadoEnManos'
<1> SUFFICES ASSUME NEW d \in Documentos \ perdidos', docu'[d].estado = "FIRMADO"
             PROVE  \E u \in Todos : EnDoc(u, d)' /\ hilo'[u].modo # "fondo"
  BY DEF FirmadoEnManos
<1>1. PICK u \in Todos : EnDoc(u, d) /\ hilo[u].modo # "fondo"
  BY DEF Inv, FirmadoEnManos
<1>2. CASE u # t
  BY <1>1, <1>2 DEF EnDoc
<1>3. CASE u = t
  BY <1>1, <1>3, ColaSupuestos DEF EnDoc
<1> QED BY <1>2, <1>3

\* A thread reads its task: it goes on with what is not finished.
LEMMA PasoLeerTarea ==
  ASSUME Inv, NEW t \in Todos, LeerTarea(t)
  PROVE  Inv'
<1> DEFINE d == hilo[t].doc
           h == [hilo[t] EXCEPT !.fase = "leida", !.tarea = tarea[d]]
<1>1. /\ TypeOK /\ \A u \in Todos : HiloBien(u, hilo[u])
      /\ hilo \in [Todos -> Hilo] /\ hilo[t] \in Hilo /\ hilo[t].fase = "tarea"
      /\ UNCHANGED <<tipo, docu, tarea, sri, programadas, respuestas, cruces, perdidos, caidas>>
  BY DEF Inv, TypeOK, Hilo, LeerTarea, filas, historia
<1>2. d \in Documentos /\ d # Nadie /\ HiloForma(hilo[t])
  BY <1>1, ColaSupuestos DEF HiloBien, HiloForma, Hilo
<1>3. /\ hilo' \in [Todos -> Hilo]
      /\ \A u \in Todos \ {t} : hilo'[u] = hilo[u]
      /\ HiloForma(hilo'[t])
      /\ hilo'[t].lote = hilo[t].lote
      /\ hilo'[t].doc \in {Nadie, d}
      /\ hilo'[t].doc = d \/ hilo[t].modo = "fondo"
      /\ hilo'[t].doc # Nadie => hilo'[t].modo = hilo[t].modo
      /\ \/ hilo'[t].fase \in {"ocioso", "cierre"}
         \/ /\ hilo'[t].fase = "leida" /\ hilo'[t].tarea = tarea[d] /\ hilo'[t].doc = d
            /\ tarea[d].estado \notin Terminadas
  <2>1. CASE Volver(t)
    BY <1>1, <1>2, <2>1, VolverBien
  <2>2. CASE /\ tarea[d].estado \notin {"COMPLETADO", "FALLIDO"}
             /\ hilo' = [hilo EXCEPT ![t] = h]
    <3>1. tarea[d] \in Tarea
      BY <1>1, <1>2 DEF TypeOK
    <3>2. /\ h \in Hilo /\ h.fase = "leida" /\ h.modo = hilo[t].modo /\ h.doc = d
          /\ h.tarea = tarea[d] /\ h.lote = hilo[t].lote
      BY <1>1, <3>1 DEF Hilo, Fases
    <3> HIDE DEF h
    <3>3. /\ hilo' \in [Todos -> Hilo] /\ hilo'[t] = h
          /\ \A u \in Todos \ {t} : hilo'[u] = hilo[u]
      BY <1>1, <2>2, <3>2
    <3>4. HiloForma(h)
      BY <1>1, <1>2, <3>2 DEF HiloForma
    <3> QED BY <2>2, <3>2, <3>3, <3>4 DEF Terminadas
  <2> QED BY <2>1, <2>2 DEF LeerTarea
<1>4. TypeOK'
  BY <1>1, <1>3 DEF TypeOK, Hilo
<1>5. \A u \in Todos : HiloBien(u, hilo[u])'
  <2>1. hilo'[t].doc \in Documentos \ cruces' => CopiaBien(hilo[t])'
    BY <1>1, <1>3 DEF CopiaBien
  <2>2. \A e \in Documentos :
          e \in hilo'[t].lote \/ e = hilo'[t].doc => docu'[e].estado # "NINGUNO"
    BY <1>1, <1>3, ColaSupuestos DEF HiloBien
  <2> QED BY <1>1, <1>3, <1>4, <2>1, <2>2, HilosBien
<1>6. FondoUnico'
  BY <1>1, <1>3, FondoSigue
<1>7. FirmadoEnManos'
  BY <1>1, <1>3, ManosSigue
<1>8. RespuestaReal' /\ FilasCoherentes'
  BY <1>1 DEF Inv, RespuestaReal, FilasCoherentes
<1> QED BY <1>4, <1>5, <1>6, <1>7, <1>8 DEF Inv

\* What TareaEscrita writes keeps the type of the task and touches no other document.
LEMMA TareaEscritaBien ==
  ASSUME TypeOK, NEW t \in Todos, hilo[t].doc \in Documentos,
         NEW e \in EstadosTarea, NEW n \in Nat, TareaEscrita(t, e, n)
  PROVE  LET d == hilo[t].doc
         IN  /\ tarea' \in [Documentos -> Tarea]
             /\ \A x \in Documentos \ {d} : tarea'[x] = tarea[x]
             /\ tarea'[d].estado \in {tarea[d].estado, e}
             /\ hilo[t].tarea = tarea[d] => tarea'[d].estado = e
<1> DEFINE d == hilo[t].doc
           c == hilo[t].tarea
           n0 == [estado   |-> Columna(tarea[d].estado, c.estado, e),
                  intentos |-> Columna(tarea[d].intentos, c.intentos, n)]
<1>1. tarea[d] \in Tarea
  BY DEF TypeOK
<1>2. /\ n0 \in Tarea /\ n0.estado \in {tarea[d].estado, e}
      /\ c = tarea[d] => n0.estado = e
  BY <1>1 DEF Tarea, Columna
<1>3. tarea' = [tarea EXCEPT ![d] = n0]
  BY DEF TareaEscrita
<1> HIDE DEF n0, c
<1>4. tarea \in [Documentos -> Tarea]
  BY DEF TypeOK
<1> QED BY <1>2, <1>3, <1>4 DEF c

\* A thread marks its task: what is finished it finds finished already, if it is alone.
LEMMA PasoMarcar ==
  ASSUME Inv, NEW t \in Todos, Marcar(t)
  PROVE  Inv'
<1> DEFINE d == hilo[t].doc
           h == [hilo[t] EXCEPT !.fase = "marcada"]
<1>1. /\ TypeOK /\ \A u \in Todos : HiloBien(u, hilo[u])
      /\ hilo \in [Todos -> Hilo] /\ hilo[t] \in Hilo /\ hilo[t].fase = "leida"
      /\ UNCHANGED <<tipo, docu, sri, programadas, respuestas, cruces, perdidos, caidas>>
  BY DEF Inv, TypeOK, Hilo, Marcar, historia
<1>2. d \in Documentos /\ d # Nadie /\ HiloForma(hilo[t])
  BY <1>1, ColaSupuestos DEF HiloBien, HiloForma, Hilo
<1>3. /\ tarea' \in [Documentos -> Tarea]
      /\ \A x \in Documentos \ {d} : tarea'[x] = tarea[x]
      /\ tarea'[d].estado \in {tarea[d].estado, "PROCESANDO"}
      /\ hilo[t].tarea = tarea[d] => tarea'[d].estado = "PROCESANDO"
  <2>1. hilo[t].tarea.intentos + 1 \in Nat
    BY <1>1 DEF Hilo, Tarea
  <2> QED BY <1>1, <1>2, <2>1, TareaEscritaBien DEF Marcar, EstadosTarea
<1>4. /\ h \in Hilo /\ h.fase = "marcada" /\ h.modo = hilo[t].modo /\ h.doc = d
      /\ h.lote = hilo[t].lote
  BY <1>1 DEF Hilo, Fases
<1>5. hilo' = [hilo EXCEPT ![t] = h]
  BY DEF Marcar
<1> HIDE DEF h
<1>6. /\ hilo' \in [Todos -> Hilo] /\ hilo'[t] = h
      /\ \A u \in Todos \ {t} : hilo'[u] = hilo[u]
  BY <1>1, <1>4, <1>5
<1>7. TypeOK'
  BY <1>1, <1>3, <1>6 DEF TypeOK, Hilo
<1>8. ASSUME d \notin cruces
      PROVE  tarea[d].estado \notin Terminadas /\ tarea'[d].estado = "PROCESANDO"
  BY <1>1, <1>2, <1>3, <1>8 DEF HiloBien, CopiaBien
<1>9. \A u \in Todos : HiloBien(u, hilo[u])'
  <2>1. HiloForma(hilo'[t])
    BY <1>1, <1>2, <1>4, <1>6 DEF HiloForma
  <2>2. hilo'[t].doc \in Documentos \ cruces' => CopiaBien(hilo[t])'
    BY <1>1, <1>4, <1>6, <1>8 DEF CopiaBien, Terminadas
  <2>3. \A e \in Documentos :
          e \in hilo'[t].lote \/ e = hilo'[t].doc => docu'[e].estado # "NINGUNO"
    BY <1>1, <1>4, <1>6 DEF HiloBien
  <2> QED BY <1>1, <1>3, <1>4, <1>6, <1>7, <2>1, <2>2, <2>3, HilosBien
<1>10. FondoUnico'
  BY <1>1, <1>4, <1>6, FondoSigue
<1>11. FirmadoEnManos'
  BY <1>1, <1>4, <1>6, ManosSigue
<1>12. RespuestaReal'
  BY <1>1, <1>2, <1>3 DEF Inv, RespuestaReal
<1>13. FilasCoherentes'
  <2>1. d \notin cruces => sri[d] \notin {"AUTORIZADO", "RECHAZADO", "ERROR"}
    BY <1>2, <1>8 DEF Inv, FilasCoherentes, Terminadas
  <2> QED BY <1>1, <1>2, <1>3, <1>8, <2>1 DEF Inv, FilasCoherentes
<1> QED BY <1>7, <1>9, <1>10, <1>11, <1>12, <1>13 DEF Inv

\* A thread loads the task and the sale again and calls the gateway.
LEMMA PasoEnviar ==
  ASSUME Inv, NEW t \in Todos, Enviar(t)
  PROVE  Inv'
<1> DEFINE d == hilo[t].doc
           h == [hilo[t] EXCEPT !.fase = "enviada", !.tarea = tarea[d], !.sri = sri[d]]
<1>1. /\ TypeOK /\ \A u \in Todos : HiloBien(u, hilo[u])
      /\ hilo \in [Todos -> Hilo] /\ hilo[t] \in Hilo /\ hilo[t].fase = "marcada"
      /\ UNCHANGED <<tipo, docu, tarea, sri, programadas, respuestas, cruces, perdidos, caidas>>
  BY DEF Inv, TypeOK, Hilo, Enviar, filas, historia
<1>2. d \in Documentos /\ d # Nadie /\ HiloForma(hilo[t])
  BY <1>1, ColaSupuestos DEF HiloBien, HiloForma, Hilo
<1>3. tarea[d] \in Tarea /\ sri[d] \in EstadosSri
  BY <1>1, <1>2 DEF TypeOK
<1>4. /\ h \in Hilo /\ h.fase = "enviada" /\ h.modo = hilo[t].modo /\ h.doc = d
      /\ h.lote = hilo[t].lote /\ h.tarea = tarea[d] /\ h.sri = sri[d]
  BY <1>1, <1>3 DEF Hilo, Fases
<1>5. hilo' = [hilo EXCEPT ![t] = h]
  BY DEF Enviar
<1> HIDE DEF h
<1>6. /\ hilo' \in [Todos -> Hilo] /\ hilo'[t] = h
      /\ \A u \in Todos \ {t} : hilo'[u] = hilo[u]
  BY <1>1, <1>4, <1>5
<1>7. TypeOK'
  BY <1>1, <1>6 DEF TypeOK, Hilo
<1>8. \A u \in Todos : HiloBien(u, hilo[u])'
  <2>1. HiloForma(hilo'[t])
    BY <1>1, <1>2, <1>4, <1>6 DEF HiloForma
  <2>2. d \notin cruces => tarea[d].estado \notin Terminadas
    BY <1>1, <1>2 DEF HiloBien, CopiaBien
  <2>3. hilo'[t].doc \in Documentos \ cruces' => CopiaBien(hilo[t])'
    BY <1>1, <1>4, <1>6, <2>2 DEF CopiaBien
  <2>4. \A e \in Documentos :
          e \in hilo'[t].lote \/ e = hilo'[t].doc => docu'[e].estado # "NINGUNO"
    BY <1>1, <1>4, <1>6 DEF HiloBien
  <2> QED BY <1>1, <1>4, <1>6, <1>7, <2>1, <2>3, <2>4, HilosBien
<1>9. FondoUnico'
  BY <1>1, <1>4, <1>6, FondoSigue
<1>10. FirmadoEnManos'
  BY <1>1, <1>4, <1>6, ManosSigue
<1>11. RespuestaReal' /\ FilasCoherentes'
  BY <1>1 DEF Inv, RespuestaReal, FilasCoherentes
<1> QED BY <1>7, <1>8, <1>9, <1>10, <1>11 DEF Inv

\* The gateway breaks: the thread leaves its document, which counts as lost.
LEMMA PasoReventar ==
  ASSUME Inv, NEW t \in Todos, Reventar(t)
  PROVE  Inv'
<1> DEFINE h == IF hilo[t].modo = "cola" THEN Reposo ELSE Sigue(hilo[t])
<1>1. /\ TypeOK /\ \A u \in Todos : HiloBien(u, hilo[u])
      /\ hilo \in [Todos -> Hilo] /\ hilo[t] \in Hilo /\ hilo[t].fase = "enviada"
      /\ UNCHANGED <<tipo, docu, tarea, sri, programadas, respuestas, cruces, caidas>>
      /\ perdidos' = perdidos \cup {hilo[t].doc}
  BY DEF Inv, TypeOK, Hilo, Reventar, filas
<1>2. hilo[t].doc \in Documentos /\ HiloForma(hilo[t])
  BY <1>1, ColaSupuestos DEF HiloBien, HiloForma, Hilo
<1>3. /\ h \in Hilo /\ h.doc = Nadie /\ h.lote \subseteq hilo[t].lote
      /\ h.fase \in {"ocioso", "lote"}
      /\ h.fase = "lote" => h.modo # "fondo"
      /\ h.modo = "fondo" => h.lote = {}
  <2>1. Reposo \in Hilo /\ Reposo.fase = "ocioso" /\ Reposo.doc = Nadie /\ Reposo.lote = {}
    BY ReposoBien
  <2>2. /\ Sigue(hilo[t]) \in Hilo /\ Sigue(hilo[t]).doc = Nadie
        /\ Sigue(hilo[t]).lote = hilo[t].lote
        /\ Sigue(hilo[t]).fase = IF hilo[t].lote = {} THEN "ocioso" ELSE "lote"
        /\ hilo[t].lote # {} => Sigue(hilo[t]).modo = hilo[t].modo
    BY <1>1, SigueBien
  <2> QED BY <1>2, <2>1, <2>2 DEF HiloForma
<1>4. hilo' = [hilo EXCEPT ![t] = h]
  BY DEF Reventar
<1> HIDE DEF h
<1>5. /\ hilo' \in [Todos -> Hilo] /\ hilo'[t] = h
      /\ \A u \in Todos \ {t} : hilo'[u] = hilo[u]
  BY <1>1, <1>3, <1>4
<1>6. TypeOK'
  BY <1>1, <1>2, <1>5 DEF TypeOK, Hilo
<1>7. \A u \in Todos : HiloBien(u, hilo[u])'
  <2>1. HiloForma(hilo'[t]) /\ hilo'[t].doc \notin Documentos
    BY <1>3, <1>5, ColaSupuestos DEF HiloForma
  <2>2. \A e \in Documentos : e \in hilo'[t].lote => docu'[e].estado # "NINGUNO"
    BY <1>1, <1>3, <1>5 DEF HiloBien
  <2> QED BY <1>1, <1>3, <1>5, <1>6, <2>1, <2>2, HilosBien
<1>8. FondoUnico'
  BY <1>1, <1>3, <1>5, FondoSigue
<1>9. FirmadoEnManos'
  BY <1>1, <1>3, <1>5, ManosSigue
<1>10. RespuestaReal' /\ FilasCoherentes'
  BY <1>1 DEF Inv, RespuestaReal, FilasCoherentes
<1> QED BY <1>6, <1>7, <1>8, <1>9, <1>10 DEF Inv

\* The queue writes the result of its document, which is the state of its sale if decided.
LEMMA PasoCerrar ==
  ASSUME Inv, NEW t \in Todos, Cerrar(t)
  PROVE  Inv'
<1> DEFINE d == hilo[t].doc
           h == Sigue(hilo[t])
<1>1. /\ TypeOK /\ \A u \in Todos : HiloBien(u, hilo[u])
      /\ hilo \in [Todos -> Hilo] /\ hilo[t] \in Hilo /\ hilo[t].fase = "cierre"
      /\ UNCHANGED <<tipo, tarea, sri, programadas, respuestas, cruces, perdidos, caidas>>
  BY DEF Inv, TypeOK, Hilo, Cerrar, historia
<1>2. d \in Documentos /\ HiloForma(hilo[t]) /\ hilo[t].modo # "fondo"
  BY <1>1, ColaSupuestos DEF HiloBien, HiloForma, Hilo
<1>3. /\ h \in Hilo /\ h.doc = Nadie /\ h.lote = hilo[t].lote
      /\ h.fase = IF hilo[t].lote = {} THEN "ocioso" ELSE "lote"
      /\ hilo[t].lote # {} => h.modo = hilo[t].modo
  BY <1>1, SigueBien
<1>4. hilo' = [hilo EXCEPT ![t] = h]
  BY DEF Cerrar
<1> HIDE DEF h
<1>5. /\ hilo' \in [Todos -> Hilo] /\ hilo'[t] = h
      /\ \A u \in Todos \ {t} : hilo'[u] = hilo[u]
  BY <1>1, <1>3, <1>4
<1>6. /\ docu' \in [Documentos -> [estado : EstadosDoc, intentos : Nat, vencido : BOOLEAN]]
      /\ docu'[d].estado = Resultado(d)
      /\ \A e \in Documentos \ {d} : docu'[e] = docu[e]
  <2> DEFINE intentos == docu[d].intentos + IF Final(sri[d]) THEN 0 ELSE 1
             n == [estado |-> Resultado(d), intentos |-> intentos,
                   vencido |-> Final(sri[d]) \/ intentos >= MaxReintentos]
  <2>1. docu' = [docu EXCEPT ![d] = n]
    BY DEF Cerrar
  <2>2. intentos \in Nat
    BY <1>1, <1>2 DEF TypeOK
  <2>3. Resultado(d) \in EstadosDoc
    BY DEF Resultado, Final, Decisiones, EstadosDoc
  <2>4. n \in [estado : EstadosDoc, intentos : Nat, vencido : BOOLEAN] /\ n.estado = Resultado(d)
    BY <2>2, <2>3
  <2> HIDE DEF n
  <2>5. docu \in [Documentos -> [estado : EstadosDoc, intentos : Nat, vencido : BOOLEAN]]
    BY <1>1 DEF TypeOK
  <2> QED BY <1>2, <2>1, <2>4, <2>5
<1>7. TypeOK'
  BY <1>1, <1>5, <1>6 DEF TypeOK, Hilo
<1>8. Resultado(d) \notin {"NINGUNO", "FIRMADO"} /\ (Final(Resultado(d)) => Resultado(d) = sri[d])
  BY DEF Resultado, Final, Decisiones
<1>9. \A e \in Documentos : docu[e].estado # "NINGUNO" => docu'[e].estado # "NINGUNO"
  BY <1>6, <1>8
<1>10. \A u \in Todos : HiloBien(u, hilo[u])'
  <2>1. HiloForma(hilo'[t]) /\ hilo'[t].doc \notin Documentos
    BY <1>2, <1>3, <1>5, ColaSupuestos DEF HiloForma
  <2>2. \A e \in Documentos : e \in hilo'[t].lote => docu'[e].estado # "NINGUNO"
    BY <1>1, <1>3, <1>5, <1>9 DEF HiloBien
  <2> QED BY <1>1, <1>3, <1>5, <1>7, <1>9, <2>1, <2>2, HilosBien
<1>11. FondoUnico'
  BY <1>1, <1>3, <1>5, <1>6, <1>8, FondoSigue
<1>12. FirmadoEnManos'
  BY <1>1, <1>3, <1>5, <1>6, <1>8, ManosSigue
<1>13. RespuestaReal'
  BY <1>1, <1>2, <1>6, <1>8 DEF Inv, RespuestaReal
<1>14. FilasCoherentes'
  BY <1>1, <1>2, <1>6, <1>8 DEF Inv, FilasCoherentes
<1> QED BY <1>7, <1>10, <1>11, <1>12, <1>13, <1>14 DEF Inv

\* What an answer makes of the three states: none is decided but by the answer, and they
\* agree.
LEMMA TrasRespuesta ==
  ASSUME NEW t \in Todos, NEW r \in Respuestas, NEW estado \in EstadosDoc
  PROVE  /\ TareaTras(t, r) \in EstadosTarea /\ SriTras(t, r) \in EstadosSri
         /\ DocTras(t, r, estado) \in EstadosDoc
         /\ TareaTras(t, r) = "COMPLETADO" <=> r = "AUTORIZADO"
         /\ SriTras(t, r) = "AUTORIZADO" <=> r = "AUTORIZADO"
         /\ Final(SriTras(t, r)) => SriTras(t, r) = r
         /\ SriTras(t, r) \in {"RECHAZADO", "ERROR"} <=> TareaTras(t, r) = "FALLIDO"
         /\ DocTras(t, r, estado) # estado /\ Final(DocTras(t, r, estado)) =>
              DocTras(t, r, estado) = r /\ SriTras(t, r) = r
         /\ DocTras(t, r, estado) = "FIRMADO" => estado = "FIRMADO"
         /\ estado # "NINGUNO" => DocTras(t, r, estado) # "NINGUNO"
<1>1. r \in {"TIMEOUT", "AUTORIZADO", "RECHAZADO", "RECIBIDO", "OTRA"}
  BY DEF Respuestas
<1>2. /\ TareaTras(t, r) \in {"COMPLETADO", "REINTENTO_PROGRAMADO", "FALLIDO"}
      /\ TareaTras(t, r) = "COMPLETADO" <=> r = "AUTORIZADO"
      /\ r = "RECHAZADO" => TareaTras(t, r) = "FALLIDO"
      /\ r = "OTRA" => TareaTras(t, r) = "FALLIDO"
      /\ r = "RECIBIDO" /\ tipo[hilo[t].doc] = "FACTURA" => TareaTras(t, r) # "FALLIDO"
  BY <1>1 DEF TareaTras
<1>3. /\ SriTras(t, r) \in {"AUTORIZADO", "RECHAZADO", "ERROR", "ENVIADO", "REINTENTO"}
      /\ Final(r) => SriTras(t, r) = r
      /\ ~Final(r) /\ TareaTras(t, r) = "FALLIDO" => SriTras(t, r) = "ERROR"
      /\ ~Final(r) /\ TareaTras(t, r) # "FALLIDO" => SriTras(t, r) \in {"ENVIADO", "REINTENTO"}
  BY <1>1 DEF SriTras, Final, Decisiones
<1>4. DocTras(t, r, estado) \in
        {estado} \cup IF SriTras(t, r) = "ERROR" THEN {}
                      ELSE IF r = "TIMEOUT" THEN {"EN_COLA"} ELSE {r}
  BY DEF DocTras
<1>5. /\ TareaTras(t, r) \in EstadosTarea /\ SriTras(t, r) \in EstadosSri
      /\ SriTras(t, r) = "AUTORIZADO" <=> r = "AUTORIZADO"
      /\ Final(SriTras(t, r)) => SriTras(t, r) = r
      /\ SriTras(t, r) \in {"RECHAZADO", "ERROR"} <=> TareaTras(t, r) = "FALLIDO"
  BY <1>1, <1>2, <1>3 DEF Final, Decisiones, EstadosTarea, EstadosSri
<1>6. r = "OTRA" => SriTras(t, r) = "ERROR"
  BY <1>2, <1>3 DEF Final, Decisiones
<1>7. DocTras(t, r, estado) \in EstadosDoc
  BY <1>1, <1>4, <1>6 DEF EstadosDoc
<1>8. /\ DocTras(t, r, estado) # estado /\ Final(DocTras(t, r, estado)) =>
           DocTras(t, r, estado) = r /\ SriTras(t, r) = r
      /\ DocTras(t, r, estado) = "FIRMADO" => estado = "FIRMADO"
      /\ estado # "NINGUNO" => DocTras(t, r, estado) # "NINGUNO"
  BY <1>1, <1>3, <1>4, <1>6 DEF Final, Decisiones
<1> QED BY <1>2, <1>5, <1>7, <1>8

\* An answer is written over what the session loaded: the rows of a document nobody else
\* works on agree after it.
LEMMA PasoResponder ==
  ASSUME Inv, NEW t \in Todos, NEW r \in Respuestas, Responder(t, r)
  PROVE  Inv'
<1> DEFINE d == hilo[t].doc
           e == TareaTras(t, r)
           s == SriTras(t, r)
           o == DocTras(t, r, docu[d].estado)
<1>1. /\ TypeOK /\ \A u \in Todos : HiloBien(u, hilo[u])
      /\ hilo \in [Todos -> Hilo] /\ hilo[t] \in Hilo /\ hilo[t].fase = "enviada"
      /\ UNCHANGED <<tipo, cruces, perdidos, caidas>> /\ Volver(t)
  BY DEF Inv, TypeOK, Hilo, Responder
<1>2. d \in Documentos /\ d # Nadie /\ HiloForma(hilo[t])
  BY <1>1, ColaSupuestos DEF HiloBien, HiloForma, Hilo
<1>3. docu[d].estado \in EstadosDoc /\ docu[d].estado # "NINGUNO"
  BY <1>1, <1>2 DEF TypeOK, HiloBien
<1>4. /\ e \in EstadosTarea /\ s \in EstadosSri /\ o \in EstadosDoc
      /\ e = "COMPLETADO" <=> r = "AUTORIZADO"
      /\ s = "AUTORIZADO" <=> r = "AUTORIZADO"
      /\ Final(s) => s = r
      /\ s \in {"RECHAZADO", "ERROR"} <=> e = "FALLIDO"
      /\ o # docu[d].estado /\ Final(o) => o = r /\ s = r
      /\ o = "FIRMADO" => docu[d].estado = "FIRMADO"
      /\ o # "NINGUNO"
  BY <1>3, TrasRespuesta
<1>5. /\ hilo' \in [Todos -> Hilo]
      /\ \A u \in Todos \ {t} : hilo'[u] = hilo[u]
      /\ HiloForma(hilo'[t])
      /\ hilo'[t].lote = hilo[t].lote
      /\ hilo'[t].fase \in {"ocioso", "cierre"}
      /\ IF hilo[t].modo = "fondo"
           THEN hilo'[t].doc = Nadie
           ELSE hilo'[t].doc = d /\ hilo'[t].modo = hilo[t].modo
  BY <1>1, <1>2, VolverBien
<1>6. /\ tarea' \in [Documentos -> Tarea]
      /\ \A x \in Documentos \ {d} : tarea'[x] = tarea[x]
      /\ tarea'[d].estado \in {tarea[d].estado, e}
      /\ hilo[t].tarea = tarea[d] => tarea'[d].estado = e
  <2>1. hilo[t].tarea.intentos \in Nat
    BY <1>1 DEF Hilo, Tarea
  <2> QED BY <1>2, <1>1, <1>4, <2>1, TareaEscritaBien DEF Responder
<1>7. /\ sri' \in [Documentos -> EstadosSri]
      /\ \A x \in Documentos \ {d} : sri'[x] = sri[x]
      /\ sri'[d] \in {sri[d], s}
      /\ hilo[t].sri = sri[d] => sri'[d] = s
  <2> DEFINE leida == IF tipo[d] = "FACTURA" THEN hilo[t].sri ELSE sri[d]
             n == Columna(sri[d], leida, s)
  <2>1. sri' = [sri EXCEPT ![d] = n]
    BY DEF Responder, SriEscrito
  <2>2. n \in {sri[d], s} /\ (hilo[t].sri = sri[d] => n = s)
    BY DEF Columna
  <2>3. sri \in [Documentos -> EstadosSri] /\ sri[d] \in EstadosSri
    BY <1>1, <1>2 DEF TypeOK
  <2> HIDE DEF n, s
  <2>4. n \in EstadosSri
    BY <1>4, <2>2, <2>3
  <2> QED BY <1>2, <2>1, <2>2, <2>3, <2>4
<1>8. /\ docu' \in [Documentos -> [estado : EstadosDoc, intentos : Nat, vencido : BOOLEAN]]
      /\ docu'[d].estado = o
      /\ \A x \in Documentos \ {d} : docu'[x] = docu[x]
  <2> DEFINE n == [docu[d] EXCEPT !.estado = o]
  <2>1. docu' = [docu EXCEPT ![d] = n]
    BY DEF Responder
  <2>2. docu \in [Documentos -> [estado : EstadosDoc, intentos : Nat, vencido : BOOLEAN]]
    BY <1>1 DEF TypeOK
  <2> HIDE DEF o
  <2>3. n \in [estado : EstadosDoc, intentos : Nat, vencido : BOOLEAN] /\ n.estado = o
    BY <1>2, <1>4, <2>2
  <2> HIDE DEF n
  <2> QED BY <1>2, <2>1, <2>2, <2>3
<1>9. /\ programadas' \in [Documentos -> 0..1]
      /\ \A x \in Documentos :
           programadas'[x] = programadas[x] \/ (x = d /\ hilo[t].modo = "fondo")
  <2>1. hilo[t].modo = "fondo" => programadas[d] = 0
    BY <1>2 DEF Inv, FondoUnico, EnDoc
  <2>2. /\ programadas \in [Documentos -> 0..1]
        /\ programadas' = [programadas EXCEPT ![d] = IF Reprogramada(t, r) THEN @ + 1 ELSE @]
    BY <1>1 DEF TypeOK, Responder
  <2>3. Reprogramada(t, r) => hilo[t].modo = "fondo"
    BY DEF Reprogramada
  <2> QED BY <1>2, <2>1, <2>2, <2>3
<1>10. /\ respuestas' \in [Documentos -> SUBSET Decisiones]
       /\ \A x \in Documentos : respuestas[x] \subseteq respuestas'[x]
       /\ Final(r) => r \in respuestas'[d]
  BY <1>1, <1>2 DEF TypeOK, Responder, Final
<1> HIDE DEF e, s, o
<1>11. TypeOK'
  BY <1>1, <1>5, <1>6, <1>7, <1>8, <1>9, <1>10 DEF TypeOK, Hilo
<1>12. \A x \in Documentos : docu[x].estado # "NINGUNO" => docu'[x].estado # "NINGUNO"
  BY <1>4, <1>8
<1>13. \A u \in Todos : HiloBien(u, hilo[u])'
  <2>1. CopiaBien(hilo[t])'
    BY <1>5 DEF CopiaBien
  <2>2. \A x \in Documentos :
          x \in hilo'[t].lote \/ x = hilo'[t].doc => docu'[x].estado # "NINGUNO"
    BY <1>1, <1>5, <1>12, ColaSupuestos DEF HiloBien
  <2> QED BY <1>1, <1>5, <1>6, <1>7, <1>11, <1>12, <2>1, <2>2, HilosBien
<1>14. FondoUnico'
  <2>1. \A x \in Documentos :
          docu'[x].estado = "NINGUNO" => /\ docu[x].estado = "NINGUNO" /\ sri'[x] = sri[x]
                                         /\ programadas'[x] = programadas[x]
    BY <1>4, <1>7, <1>8, <1>9
  <2> QED BY <1>5, <1>9, <2>1, FondoSigue
<1>15. FirmadoEnManos'
  BY <1>1, <1>4, <1>5, <1>8, ManosSigue
<1>16. RespuestaReal'
  <2> SUFFICES ASSUME NEW x \in Documentos
               PROVE  /\ Final(docu'[x].estado) => docu'[x].estado \in respuestas'[x]
                      /\ Final(sri'[x]) => sri'[x] \in respuestas'[x]
                      /\ tarea'[x].estado = "COMPLETADO" => "AUTORIZADO" \in respuestas'[x]
    BY DEF RespuestaReal
  <2>1. /\ Final(docu[x].estado) => docu[x].estado \in respuestas[x]
        /\ Final(sri[x]) => sri[x] \in respuestas[x]
        /\ tarea[x].estado = "COMPLETADO" => "AUTORIZADO" \in respuestas[x]
    BY DEF Inv, RespuestaReal
  <2>2. r = "AUTORIZADO" => Final(r)
    BY DEF Final, Decisiones
  <2>3. CASE x # d
    BY <1>6, <1>7, <1>8, <1>10, <2>1, <2>3
  <2>4. CASE x = d
    <3>1. Final(o) => o \in respuestas'[d]
      BY <1>2, <1>4, <1>10, <2>1, <2>4
    <3>2. Final(sri'[d]) => sri'[d] \in respuestas'[d]
      BY <1>2, <1>4, <1>7, <1>10, <2>1, <2>4
    <3>3. tarea'[d].estado = "COMPLETADO" => "AUTORIZADO" \in respuestas'[d]
      BY <1>2, <1>4, <1>6, <1>10, <2>1, <2>2, <2>4
    <3> QED BY <1>8, <2>4, <3>1, <3>2, <3>3
  <2> QED BY <2>3, <2>4
<1>17. FilasCoherentes'
  <2> SUFFICES ASSUME NEW x \in Documentos \ cruces
               PROVE  /\ Final(docu'[x].estado) => sri'[x] = docu'[x].estado
                      /\ sri'[x] = "AUTORIZADO" <=> tarea'[x].estado = "COMPLETADO"
                      /\ sri'[x] \in {"RECHAZADO", "ERROR"} <=> tarea'[x].estado = "FALLIDO"
    BY <1>1 DEF FilasCoherentes
  <2>1. /\ Final(docu[x].estado) => sri[x] = docu[x].estado
        /\ sri[x] = "AUTORIZADO" <=> tarea[x].estado = "COMPLETADO"
        /\ sri[x] \in {"RECHAZADO", "ERROR"} <=> tarea[x].estado = "FALLIDO"
    BY DEF Inv, FilasCoherentes
  <2>2. CASE x # d
    BY <1>6, <1>7, <1>8, <2>1, <2>2
  <2>3. CASE x = d
    <3>1. /\ tarea[d].estado \notin Terminadas /\ hilo[t].tarea = tarea[d]
          /\ hilo[t].sri = sri[d]
      BY <1>1, <2>3 DEF HiloBien, CopiaBien
    <3>2. ~Final(docu[d].estado)
      BY <2>1, <2>3, <3>1 DEF Final, Decisiones, Terminadas
    <3>3. tarea'[d].estado = e /\ sri'[d] = s
      BY <1>6, <1>7, <3>1
    <3> QED BY <1>4, <1>8, <2>3, <3>2, <3>3
  <2> QED BY <2>2, <2>3
<1> QED BY <1>11, <1>13, <1>14, <1>15, <1>16, <1>17 DEF Inv

\* A restart leaves no thread and no timer.
LEMMA PasoReiniciar ==
  ASSUME Inv, Reiniciar
  PROVE  Inv'
<1>1. /\ TypeOK
      /\ UNCHANGED <<tipo, docu, tarea, sri, respuestas, cruces>>
      /\ hilo' = [t \in Todos |-> Reposo] /\ programadas' = [d \in Documentos |-> 0]
      /\ perdidos' = perdidos \cup {d \in Documentos : \E t \in Todos : EnDoc(t, d)}
      /\ caidas' \in 0..MaxCaidas
  BY ColaSupuestos DEF Inv, TypeOK, Reiniciar, filas
<1>2. \A t \in Todos : hilo'[t] = Reposo
  BY <1>1
<1>3. hilo' \in [Todos -> Hilo]
  BY <1>1, ReposoBien
<1>4. TypeOK'
  BY <1>1, <1>3 DEF TypeOK, Hilo
<1>5. \A t \in Todos : HiloBien(t, hilo[t])'
  BY <1>2, ReposoBien, ColaSupuestos DEF HiloBien, HiloForma
<1>6. FondoUnico'
  BY <1>1, <1>2, ReposoBien, ColaSupuestos DEF Inv, FondoUnico, EnDoc
<1>7. FirmadoEnManos'
  BY <1>1 DEF Inv, FirmadoEnManos
<1>8. RespuestaReal' /\ FilasCoherentes'
  BY <1>1 DEF Inv, RespuestaReal, FilasCoherentes
<1> QED BY <1>4, <1>5, <1>6, <1>7, <1>8 DEF Inv

\* A stutter changes nothing.
LEMMA PasoQuieto ==
  ASSUME Inv, UNCHANGED vars
  PROVE  Inv'
BY DEF Inv, vars, TypeOK, HiloBien, CopiaBien, EnDoc, FondoUnico, RespuestaReal,
       FirmadoEnManos, FilasCoherentes

\* Every step of the specification keeps the invariant.
LEMMA PasoBien == Inv /\ [Next]_vars => Inv'
<1> SUFFICES ASSUME Inv, [Next]_vars PROVE Inv'
  OBVIOUS
<1>1. CASE \E d \in Documentos : Encolar(d) \/ Vencer(d)
  BY <1>1, PasoEncolar, PasoVencer
<1>2. CASE \E t \in Hilos, d \in Documentos : Empezar(t, d)
  BY <1>2, PasoEmpezar
<1>3. ASSUME NEW t \in Hilos, NEW ds \in SUBSET Documentos, ProcesarIds(t, ds)
      PROVE  Inv'
  <2>1. t \in Todos
    BY DEF Todos
  <2>2. \A d \in ds : docu[d].estado # "NINGUNO"
    BY <1>3 DEF ProcesarIds
  <2>3. Tomar(t, "manual", ds)
    BY <1>3 DEF ProcesarIds
  <2> QED BY <2>1, <2>2, <2>3, PasoTomar
<1>4. ASSUME NEW t \in Todos, ProcesarCola(t)
      PROVE  Inv'
  <2> DEFINE ds == {d \in Pendientes : docu[d].vencido}
  <2>1. ds \in SUBSET Documentos /\ \A d \in ds : docu[d].estado # "NINGUNO"
    BY DEF Pendientes
  <2>2. Tomar(t, "cola", ds)
    BY <1>4 DEF ProcesarCola
  <2> HIDE DEF ds
  <2> QED BY <2>1, <2>2, PasoTomar
<1>5. ASSUME NEW t \in Todos, Avanzar(t)
      PROVE  Inv'
  BY <1>5, PasoFirmar, PasoLeerTarea, PasoMarcar, PasoEnviar, PasoCerrar, PasoReventar,
     PasoResponder DEF Avanzar
<1>6. CASE Reiniciar
  BY <1>6, PasoReiniciar
<1>7. CASE UNCHANGED vars
  BY <1>7, PasoQuieto
<1> QED BY <1>1, <1>2, <1>3, <1>4, <1>5, <1>6, <1>7 DEF Next

-----------------------------------------------------------------------------
(* The theorems *)

\* The inductive invariant holds in every reachable state.
THEOREM InvarianteInductivo == Spec => []Inv
<1> QED BY InicioBien, PasoBien, PTL DEF Spec

\* Every variable has its type; at most one background task or timer waits for a document.
THEOREM TiposCorrectos == Spec => []TypeOK
<1>1. Inv => TypeOK
  BY DEF Inv
<1> QED BY <1>1, InvarianteInductivo, PTL

\* No row says what the gateway did not answer.
THEOREM RespuestasReales == Spec => []RespuestaReal
<1>1. Inv => RespuestaReal
  BY DEF Inv
<1> QED BY <1>1, InvarianteInductivo, PTL

\* What is FIRMADO is in the hands of a thread, unless one died on it.
THEOREM FirmadosEnManos == Spec => []FirmadoEnManos
<1>1. Inv => FirmadoEnManos
  BY DEF Inv
<1> QED BY <1>1, InvarianteInductivo, PTL

\* The rows of a document agree, unless two threads crossed on it.
THEOREM FilasDeAcuerdo == Spec => []FilasCoherentes
<1>1. Inv => FilasCoherentes
  BY DEF Inv
<1> QED BY <1>1, InvarianteInductivo, PTL

\* The step behind DecisionFirme: estado_sri is written when a document is queued, which
\* it was not, and when an answer arrives, whose sender found the task unfinished.
LEMMA PasoDecision ==
  ASSUME Inv, [Next]_vars, NEW d \in Documentos \ cruces', Final(sri[d])
  PROVE  sri'[d] = sri[d]
<1>1. CASE UNCHANGED sri
  BY <1>1
<1>2. ASSUME NEW e \in Documentos, Encolar(e)
      PROVE  sri'[d] = sri[d]
  <2>1. docu[e].estado = "NINGUNO" /\ sri[e] = "NINGUNO" /\ e # d
    BY <1>2 DEF Encolar, Inv, FondoUnico, Final, Decisiones
  <2> QED BY <1>2, <2>1 DEF Encolar, EncolarVenta, EncolarRetencion, Inv, TypeOK
<1>3. ASSUME NEW t \in Todos, NEW r \in Respuestas, Responder(t, r)
      PROVE  sri'[d] = sri[d]
  <2>1. cruces' = cruces /\ hilo[t].fase = "enviada" /\ HiloBien(t, hilo[t])
    BY <1>3 DEF Responder, Inv
  <2>2. hilo[t].doc # d
    <3> SUFFICES ASSUME hilo[t].doc = d PROVE FALSE
      OBVIOUS
    <3>1. tarea[d].estado \notin Terminadas
      BY <2>1 DEF HiloBien, CopiaBien
    <3> QED BY <2>1, <3>1 DEF Inv, FilasCoherentes, Final, Decisiones, Terminadas
  <2> QED BY <1>3, <2>2 DEF Responder, SriEscrito, Inv, TypeOK
<1>4. CASE Next
  <2>1. \A e \in Documentos : Vencer(e) => UNCHANGED sri
    BY DEF Vencer
  <2>2. \A t \in Hilos, e \in Documentos : Empezar(t, e) => UNCHANGED sri
    BY DEF Empezar, filas
  <2>3. \A t \in Hilos, ds \in SUBSET Documentos : ProcesarIds(t, ds) => UNCHANGED sri
    BY DEF ProcesarIds, Tomar, filas
  <2>4. \A t \in Todos : ProcesarCola(t) => UNCHANGED sri
    BY DEF ProcesarCola, Tomar, filas
  <2>5. \A t \in Todos, e \in Documentos : Firmar(t, e) => UNCHANGED sri
    BY DEF Firmar
  <2>6. \A t \in Todos : LeerTarea(t) \/ Marcar(t) \/ Enviar(t) \/ Cerrar(t) \/ Reventar(t)
                           => UNCHANGED sri
    BY DEF LeerTarea, Marcar, Enviar, Cerrar, Reventar, filas
  <2>7. Reiniciar => UNCHANGED sri
    BY DEF Reiniciar, filas
  <2> QED
    BY <1>1, <1>2, <1>3, <1>4, <2>1, <2>2, <2>3, <2>4, <2>5, <2>6, <2>7 DEF Next, Avanzar
<1> QED BY <1>1, <1>4 DEF vars

\* No late timer, queue or route undoes what the SRI decided of a document two threads
\* have not crossed on.
THEOREM DecisionesFirmes == Spec => DecisionFirme
<1>1. Inv /\ [Next]_vars =>
        [\A d \in Documentos \ cruces' : Final(sri[d]) => sri'[d] = sri[d]]_vars
  BY PasoDecision
<1> QED BY <1>1, InvarianteInductivo, PTL DEF Spec, DecisionFirme

-----------------------------------------------------------------------------
(* With the gateway that the code ships *)

\* A call of the gateway, or a decision of the SRI, is no step of the queue; every other
\* step is one of the queue with any gateway.
LEMMA PasoConPasarela == [NextConPasarela]_<<vars, llamadas>> => [Next]_vars
<1> SUFFICES ASSUME [NextConPasarela]_<<vars, llamadas>> PROVE [Next]_vars
  OBVIOUS
<1>1. ASSUME NEW d \in Documentos,
             EncolarConPasarela(d) \/ VencerConPasarela(d) \/ Decidir(d)
      PROVE  [Next]_vars
  <2>1. CASE EncolarConPasarela(d) \/ VencerConPasarela(d)
    BY <2>1 DEF EncolarConPasarela, VencerConPasarela, Next
  <2>2. CASE Decidir(d)
    BY <2>2 DEF Decidir
  <2> QED BY <1>1, <2>1, <2>2
<1>2. ASSUME NEW t \in Hilos, NEW d \in Documentos, EmpezarConPasarela(t, d)
      PROVE  [Next]_vars
  BY <1>2 DEF EmpezarConPasarela, Next
<1>3. ASSUME NEW t \in Hilos, NEW ds \in SUBSET Documentos, ProcesarIdsConPasarela(t, ds)
      PROVE  [Next]_vars
  BY <1>3 DEF ProcesarIdsConPasarela, Next
<1>4. ASSUME NEW t \in Todos, ProcesarColaConPasarela(t)
      PROVE  [Next]_vars
  BY <1>4 DEF ProcesarColaConPasarela, Next
<1>5. ASSUME NEW t \in Todos, AvanzarConPasarela(t)
      PROVE  [Next]_vars
  <2>1. CASE EnCola(t)
    <3>1. Avanzar(t)
      BY <2>1 DEF EnCola, Avanzar
    <3> QED BY <3>1 DEF Next
  <2>2. CASE Recepcion(t)
    BY <2>2 DEF Recepcion
  <2>3. CASE Fallar(t)
    <3>1. Avanzar(t)
      BY <2>3 DEF Fallar, Avanzar
    <3> QED BY <3>1 DEF Next
  <2>4. ASSUME NEW r \in Respuestas, Contestar(t, r)
        PROVE  [Next]_vars
    <3>1. Avanzar(t)
      BY <2>4 DEF Contestar, Avanzar
    <3> QED BY <3>1 DEF Next
  <2> QED BY <1>5, <2>1, <2>2, <2>3, <2>4 DEF AvanzarConPasarela
<1>6. CASE Reinicio
  BY <1>6 DEF Reinicio, Next
<1>7. CASE UNCHANGED <<vars, llamadas>>
  BY <1>7
<1> QED BY <1>1, <1>2, <1>3, <1>4, <1>5, <1>6, <1>7 DEF NextConPasarela

\* The queue with the shipped gateway is a queue with some gateway.
THEOREM PasarelaEsCola == SpecConPasarela => Spec
<1>1. InitConPasarela => Init
  BY DEF InitConPasarela
<1> QED BY <1>1, PasoConPasarela, PTL DEF SpecConPasarela, Spec

\* So its rows say what was answered and agree, and nothing FIRMADO is forgotten.
THEOREM FilasConPasarela ==
  SpecConPasarela => [](RespuestaReal /\ FirmadoEnManos /\ FilasCoherentes)
<1> QED BY PasarelaEsCola, RespuestasReales, FirmadosEnManos, FilasDeAcuerdo, PTL

\* And no decision of the SRI is undone.
THEOREM DecisionesFirmesConPasarela == SpecConPasarela => DecisionFirme
<1> QED BY PasarelaEsCola, DecisionesFirmes

-----------------------------------------------------------------------------
(* What the SRI decided *)

\* A reception answered is of a thread that waits for the gateway the code ships.
RecibidasBien ==
  /\ comprobante \in [Documentos -> Comprobantes]
  /\ \A t \in recibidas : t \in Todos /\ Feec(t)

\* A row that shows as authorized is.
AutorizadosBien ==
  \A d \in Documentos : pasarela[d] = "FEEC" /\ sri[d] = "AUTORIZADO" => comprobante[d] = "AUTORIZADO"

\* What the SRI has received and not refused is authorized in its row too, or is still in the
\* hands of the thread that sent it.
RecibidosBien ==
  \A d \in Documentos \ (inciertos \cup cruces) :
    pasarela[d] = "FEEC" /\ comprobante[d] \in {"RECIBIDO", "AUTORIZADO"} =>
      sri[d] = "AUTORIZADO" \/ \E t \in recibidas : EnDoc(t, d)

InvPasarela == RecibidasBien /\ AutorizadosBien /\ RecibidosBien

\* A thread that waits for an answer is alone on its document and finds it undecided, unless
\* two crossed.
LEMMA EnviadaSola ==
  ASSUME Inv, NEW t \in Todos, hilo[t].fase = "enviada", hilo[t].doc \notin cruces
  PROVE  /\ hilo[t].doc \in Documentos
         /\ \A u \in Todos : EnDoc(u, hilo[t].doc) => u = t
         /\ ~Final(sri[hilo[t].doc])
         /\ hilo[t].sri = sri[hilo[t].doc]
<1>1. hilo[t].doc \in Documentos
  BY DEF Inv, TypeOK, HiloBien, HiloForma
<1>2. tarea[hilo[t].doc].estado \notin Terminadas /\ hilo[t].sri = sri[hilo[t].doc]
  BY <1>1 DEF Inv, HiloBien, CopiaBien
<1>3. \A u \in Todos : EnDoc(u, hilo[t].doc) => u = t
  BY <1>1 DEF Inv, HiloBien
<1> QED BY <1>1, <1>2, <1>3 DEF Inv, FilasCoherentes, Final, Decisiones, Terminadas

\* Steps of the queue that no call of the gateway makes: they leave the rows of estado_sri, and
\* the threads that wait for an answer, as they are.
LEMMA ColaQuieta ==
  ASSUME InvPasarela, UNCHANGED llamadas, cruces \subseteq cruces',
         \A d \in Documentos : sri'[d] = sri[d] \/ (sri[d] # "AUTORIZADO" /\ sri'[d] # "AUTORIZADO"),
         \A t \in recibidas : hilo'[t] = hilo[t]
  PROVE  InvPasarela'
<1>1. UNCHANGED <<pasarela, comprobante, recibidas, inciertos>>
  BY DEF llamadas
<1>2. RecibidasBien'
  BY <1>1 DEF InvPasarela, RecibidasBien, Feec
<1>3. AutorizadosBien'
  BY <1>1 DEF InvPasarela, AutorizadosBien
<1>4. RecibidosBien'
  BY <1>1 DEF InvPasarela, RecibidosBien, EnDoc
<1> QED BY <1>2, <1>3, <1>4 DEF InvPasarela

\* One thread that does not wait for the gateway goes on.
LEMMA PasoDeCola ==
  ASSUME Inv, InvPasarela, UNCHANGED <<sri, llamadas>>, cruces \subseteq cruces',
         NEW t \in Todos, hilo[t].fase # "enviada", \A u \in Todos \ {t} : hilo'[u] = hilo[u]
  PROVE  InvPasarela'
<1>1. t \notin recibidas
  BY DEF InvPasarela, RecibidasBien, Feec
<1>2. \A u \in recibidas : hilo'[u] = hilo[u]
  BY <1>1 DEF InvPasarela, RecibidasBien
<1>3. UNCHANGED llamadas
  OBVIOUS
<1> QED BY <1>2, <1>3, ColaQuieta

\* The steps of a thread that call nobody: the gateway of invoices is not concerned.
LEMMA PasoEnCola ==
  ASSUME Inv, InvPasarela, NEW t \in Todos, EnCola(t)
  PROVE  InvPasarela'
<1>0. UNCHANGED llamadas
  BY DEF EnCola
<1>1. ASSUME NEW d \in Documentos, Firmar(t, d) PROVE InvPasarela'
  <2>1. \A u \in Todos \ {t} : hilo'[u] = hilo[u]
    BY <1>1 DEF Firmar, Inv, TypeOK
  <2>2. UNCHANGED <<sri, llamadas>> /\ cruces \subseteq cruces' /\ hilo[t].fase # "enviada"
    BY <1>0, <1>1 DEF Firmar, Cruce
  <2> QED BY <2>1, <2>2, PasoDeCola
<1>2. ASSUME LeerTarea(t) \/ Marcar(t) \/ Enviar(t) \/ Cerrar(t) PROVE InvPasarela'
  <2>1. \A u \in Todos \ {t} : hilo'[u] = hilo[u]
    BY <1>2 DEF LeerTarea, Marcar, Enviar, Cerrar, Volver, Inv, TypeOK
  <2>2. UNCHANGED <<sri, cruces>> /\ hilo[t].fase # "enviada"
    BY <1>2 DEF LeerTarea, Marcar, Enviar, Cerrar, filas, historia
  <2> QED BY <1>0, <2>1, <2>2, PasoDeCola
<1> QED BY <1>1, <1>2 DEF EnCola

\* A document is queued that was not.
LEMMA PasoEncolarConPasarela ==
  ASSUME Inv, InvPasarela, NEW d \in Documentos, EncolarConPasarela(d)
  PROVE  InvPasarela'
<1>1. Encolar(d) /\ UNCHANGED llamadas
  BY DEF EncolarConPasarela
<1>2. sri[d] = "NINGUNO"
  BY <1>1 DEF Encolar, Inv, FondoUnico
<1>3. /\ \A e \in Documentos : sri'[e] = sri[e] \/ (sri[e] # "AUTORIZADO" /\ sri'[e] # "AUTORIZADO")
      /\ UNCHANGED <<hilo, cruces>>
  BY <1>1, <1>2 DEF Encolar, EncolarVenta, EncolarRetencion, historia, Inv, TypeOK
<1> QED BY <1>1, <1>3, ColaQuieta

\* A thread takes up a document: nothing has been sent of it yet.
LEMMA PasoEmpezarConPasarela ==
  ASSUME Inv, InvPasarela, NEW t \in Todos, NEW d \in Documentos, EmpezarConPasarela(t, d)
  PROVE  InvPasarela'
<1>1. Empezar(t, d) /\ UNCHANGED llamadas
  BY DEF EmpezarConPasarela
<1>2. \A u \in Todos \ {t} : hilo'[u] = hilo[u]
  BY <1>1 DEF Empezar, Inv, TypeOK
<1>3. UNCHANGED <<sri, llamadas>> /\ cruces \subseteq cruces' /\ hilo[t].fase # "enviada"
  BY <1>1 DEF Empezar, Cruce, filas
<1> QED BY <1>2, <1>3, PasoDeCola

\* A thread takes up a batch: nothing has been sent of it yet.
LEMMA PasoTomarConPasarela ==
  ASSUME Inv, InvPasarela, NEW t \in Todos, NEW modo, NEW ds, Tomar(t, modo, ds), UNCHANGED llamadas
  PROVE  InvPasarela'
<1>1. \A u \in Todos \ {t} : hilo'[u] = hilo[u]
  BY DEF Tomar, Inv, TypeOK
<1>2. UNCHANGED <<sri, cruces>> /\ hilo[t].fase # "enviada"
  BY DEF Tomar, filas, historia
<1> QED BY <1>1, <1>2, PasoDeCola

\* The SRI receives a document, and decides on it.
LEMMA PasoRecepcion ==
  ASSUME Inv, InvPasarela, NEW t \in Todos, Recepcion(t)
  PROVE  InvPasarela'
<1>1. PICK d \in Documentos : d = hilo[t].doc
  BY DEF Recepcion, Feec, Inv, TypeOK, HiloBien, HiloForma
<1>2. /\ Feec(t) /\ comprobante[d] \in {"NADA", "NO_AUTORIZADO"}
      /\ comprobante' = [comprobante EXCEPT ![d] = "RECIBIDO"] /\ recibidas' = recibidas \cup {t}
      /\ UNCHANGED <<sri, hilo, cruces, pasarela, inciertos>>
  BY <1>1 DEF Recepcion, vars
<1>3. RecibidasBien'
  BY <1>2 DEF InvPasarela, RecibidasBien, Comprobantes, Feec
<1>4. AutorizadosBien'
  BY <1>2 DEF InvPasarela, RecibidasBien, AutorizadosBien
<1>5. RecibidosBien'
  BY <1>1, <1>2 DEF InvPasarela, RecibidasBien, RecibidosBien, EnDoc
<1> QED BY <1>3, <1>4, <1>5 DEF InvPasarela

\* The SRI decides of a document it has received.
LEMMA PasoDecidir ==
  ASSUME InvPasarela, NEW d \in Documentos, Decidir(d)
  PROVE  InvPasarela'
<1>1. PICK e \in {"AUTORIZADO", "NO_AUTORIZADO"} : comprobante' = [comprobante EXCEPT ![d] = e]
  BY DEF Decidir
<1>2. comprobante[d] = "RECIBIDO" /\ UNCHANGED <<sri, hilo, cruces, pasarela, recibidas, inciertos>>
  BY DEF Decidir, vars
<1>3. RecibidasBien'
  BY <1>1, <1>2 DEF InvPasarela, RecibidasBien, Comprobantes, Feec
<1>4. AutorizadosBien'
  BY <1>1, <1>2 DEF InvPasarela, RecibidasBien, AutorizadosBien
<1>5. RecibidosBien'
  BY <1>1, <1>2 DEF InvPasarela, RecibidasBien, RecibidosBien, EnDoc
<1> QED BY <1>3, <1>4, <1>5 DEF InvPasarela

\* A call ends.  What was received of its document is unheard, or undecided when it was asked
\* for, or is what the row now says.
LEMMA FinDeLlamada ==
  ASSUME Inv, InvPasarela, NEW t \in Todos, hilo[t].fase = "enviada", NEW oido \in BOOLEAN, Colgar(t, oido),
         UNCHANGED cruces, \A u \in Todos \ {t} : hilo'[u] = hilo[u],
         \A d \in Documentos \ {hilo[t].doc} : sri'[d] = sri[d],
         pasarela[hilo[t].doc] = "FEEC" /\ sri'[hilo[t].doc] = "AUTORIZADO" =>
           sri[hilo[t].doc] = "AUTORIZADO" \/ comprobante[hilo[t].doc] = "AUTORIZADO",
         Feec(t) /\ hilo[t].doc \notin cruces /\ t \in recibidas /\ oido
           /\ comprobante[hilo[t].doc] = "AUTORIZADO" => sri'[hilo[t].doc] = "AUTORIZADO"
  PROVE  InvPasarela'
<1>1. PICK d \in Documentos : d = hilo[t].doc
  BY DEF Inv, TypeOK, HiloBien, HiloForma
<1>2. /\ recibidas' = recibidas \ {t} /\ UNCHANGED <<pasarela, comprobante>>
      /\ inciertos' = IF t \in recibidas /\ (~oido \/ comprobante[d] = "RECIBIDO")
                      THEN inciertos \cup {d} ELSE inciertos
  BY <1>1 DEF Colgar
<1>3. RecibidasBien'
  <2>1. \A u \in recibidas' : u \in Todos /\ Feec(u) /\ hilo'[u] = hilo[u]
    BY <1>2 DEF InvPasarela, RecibidasBien
  <2> QED BY <1>2, <2>1 DEF InvPasarela, RecibidasBien, Feec
<1>4. AutorizadosBien'
  BY <1>1, <1>2 DEF InvPasarela, AutorizadosBien
<1>5. RecibidosBien'
  <2> SUFFICES ASSUME NEW e \in Documentos \ (inciertos' \cup cruces), pasarela[e] = "FEEC",
                      comprobante[e] \in {"RECIBIDO", "AUTORIZADO"}
               PROVE  sri'[e] = "AUTORIZADO" \/ \E u \in recibidas' : EnDoc(u, e)'
    BY <1>2 DEF RecibidosBien
  <2>1. e \notin inciertos
    BY <1>2
  <2>2. sri[e] = "AUTORIZADO" \/ \E u \in recibidas : EnDoc(u, e)
    BY <2>1 DEF InvPasarela, RecibidosBien
  <2>3. CASE e # d
    <3>1. \A u \in recibidas : EnDoc(u, e) => u \in recibidas' /\ EnDoc(u, e)'
      BY <1>1, <1>2, <2>3 DEF EnDoc, InvPasarela, RecibidasBien
    <3> QED BY <1>1, <2>2, <2>3, <3>1
  <2>4. CASE e = d
    <3>1. ~Final(sri[d]) /\ \A u \in Todos : EnDoc(u, d) => u = t
      BY <1>1, <2>4, EnviadaSola
    <3>2. t \in recibidas
      BY <2>2, <2>4, <3>1 DEF Final, Decisiones, InvPasarela, RecibidasBien
    <3>3. oido /\ comprobante[d] = "AUTORIZADO"
      BY <1>2, <2>4, <3>2
    <3> QED BY <1>1, <2>4, <3>2, <3>3 DEF Feec
  <2> QED BY <2>3, <2>4
<1> QED BY <1>3, <1>4, <1>5 DEF InvPasarela

\* The gateway answers: AUTORIZADO of what is, and only after a reception.
LEMMA PasoContestar ==
  ASSUME Inv, InvPasarela, NEW t \in Todos, NEW r \in Respuestas, Contestar(t, r)
  PROVE  InvPasarela'
<1>1. PICK d \in Documentos : d = hilo[t].doc
  BY DEF Contestar, Responder, Inv, TypeOK, HiloBien, HiloForma
<1>2. /\ r \in Contestadas(t) /\ Responder(t, r) /\ Colgar(t, r # "TIMEOUT")
      /\ hilo[t].fase = "enviada" /\ UNCHANGED <<tipo, cruces>>
  BY DEF Contestar, Responder
<1>3. \A u \in Todos \ {t} : hilo'[u] = hilo[u]
  BY <1>2 DEF Responder, Volver, Inv, TypeOK
<1> DEFINE leida == IF tipo[d] = "FACTURA" THEN hilo[t].sri ELSE sri[d]
<1>4. /\ \A e \in Documentos \ {d} : sri'[e] = sri[e]
      /\ sri'[d] = IF SriTras(t, r) = leida THEN sri[d] ELSE SriTras(t, r)
  BY <1>1, <1>2 DEF Responder, SriEscrito, Columna, Inv, TypeOK
<1>5. SriTras(t, r) = "AUTORIZADO" <=> r = "AUTORIZADO"
  BY DEF SriTras, Final, Decisiones
<1>6. Feec(t) /\ r = "AUTORIZADO" => t \in recibidas /\ comprobante[d] = "AUTORIZADO"
  BY <1>1, <1>2 DEF Contestadas, Autorizacion
<1>7. pasarela[d] = "FEEC" => Feec(t)
  BY <1>1, <1>2 DEF Feec
<1>8. pasarela[d] = "FEEC" /\ sri'[d] = "AUTORIZADO" => sri[d] = "AUTORIZADO" \/ comprobante[d] = "AUTORIZADO"
  BY <1>4, <1>5, <1>6, <1>7
<1>9. ASSUME Feec(t), d \notin cruces, t \in recibidas, r # "TIMEOUT", comprobante[d] = "AUTORIZADO"
      PROVE  sri'[d] = "AUTORIZADO"
  <2>1. r = "AUTORIZADO"
    BY <1>1, <1>2, <1>9 DEF Contestadas, Autorizacion
  <2>2. leida = sri[d]
    BY <1>1, <1>2, <1>9, EnviadaSola
  <2> QED BY <1>4, <1>5, <2>1, <2>2
<1> QED BY <1>1, <1>2, <1>3, <1>4, <1>8, <1>9, FinDeLlamada

\* The call is lost: the thread no longer says what it sent.
LEMMA PasoFallar ==
  ASSUME Inv, InvPasarela, NEW t \in Todos, Fallar(t)
  PROVE  InvPasarela'
<1>1. \A u \in Todos \ {t} : hilo'[u] = hilo[u]
  BY DEF Fallar, Reventar, Inv, TypeOK
<1>2. Colgar(t, FALSE) /\ hilo[t].fase = "enviada" /\ UNCHANGED <<sri, cruces>>
  BY DEF Fallar, Reventar, filas
<1> QED BY <1>1, <1>2, FinDeLlamada

\* The process stops: whatever was received was not heard.
LEMMA PasoReinicio ==
  ASSUME Inv, InvPasarela, Reinicio
  PROVE  InvPasarela'
<1>1. /\ recibidas' = {} /\ inciertos' = inciertos \cup {hilo[t].doc : t \in recibidas}
      /\ UNCHANGED <<sri, cruces, pasarela, comprobante>>
  BY DEF Reinicio, Reiniciar, filas
<1>2. RecibidasBien' /\ AutorizadosBien'
  BY <1>1 DEF InvPasarela, RecibidasBien, AutorizadosBien
<1>3. RecibidosBien'
  BY <1>1 DEF InvPasarela, RecibidosBien, EnDoc
<1> QED BY <1>2, <1>3 DEF InvPasarela

\* Every step with the gateway of invoices keeps its invariant.
LEMMA PasoInvPasarela ==
  ASSUME Inv, InvPasarela, [NextConPasarela]_<<vars, llamadas>>
  PROVE  InvPasarela'
<1>1. CASE UNCHANGED <<vars, llamadas>>
  BY <1>1, ColaQuieta DEF vars
<1>2. ASSUME NEW d \in Documentos, EncolarConPasarela(d) \/ VencerConPasarela(d) \/ Decidir(d)
      PROVE  InvPasarela'
  <2>1. CASE VencerConPasarela(d)
    <3>1. UNCHANGED <<sri, hilo, cruces>> /\ UNCHANGED llamadas
      BY <2>1 DEF VencerConPasarela, Vencer, historia
    <3> QED BY <3>1, ColaQuieta
  <2> QED BY <1>2, <2>1, PasoEncolarConPasarela, PasoDecidir
<1>3. ASSUME NEW t \in Hilos, NEW d \in Documentos, EmpezarConPasarela(t, d)
      PROVE  InvPasarela'
  BY <1>3, PasoEmpezarConPasarela DEF Todos
<1>4. ASSUME NEW t \in Hilos, NEW ds \in SUBSET Documentos, ProcesarIdsConPasarela(t, ds)
      PROVE  InvPasarela'
  BY <1>4, PasoTomarConPasarela DEF Todos, ProcesarIdsConPasarela, ProcesarIds
<1>5. ASSUME NEW t \in Todos, ProcesarColaConPasarela(t) PROVE InvPasarela'
  BY <1>5, PasoTomarConPasarela DEF ProcesarColaConPasarela, ProcesarCola
<1>6. ASSUME NEW t \in Todos, AvanzarConPasarela(t) PROVE InvPasarela'
  BY <1>6, PasoEnCola, PasoRecepcion, PasoFallar, PasoContestar DEF AvanzarConPasarela
<1>7. CASE Reinicio
  BY <1>7, PasoReinicio
<1> QED BY <1>1, <1>2, <1>3, <1>4, <1>5, <1>6, <1>7 DEF NextConPasarela

\* What the two invariants say together of a row.
LEMMA DecisionesBien ==
  ASSUME Inv, InvPasarela
  PROVE  DecisionDelSri
<1> SUFFICES ASSUME NEW d \in Documentos, pasarela[d] = "FEEC"
             PROVE  /\ sri[d] = "AUTORIZADO" => comprobante[d] = "AUTORIZADO"
                    /\ sri[d] = "RECHAZADO" /\ d \notin inciertos \cup cruces
                         => comprobante[d] \in {"NADA", "NO_AUTORIZADO"}
  BY DEF DecisionDelSri
<1>1. ASSUME sri[d] = "RECHAZADO", d \notin inciertos \cup cruces, comprobante[d] \in {"RECIBIDO", "AUTORIZADO"}
      PROVE  FALSE
  <2>1. PICK t \in recibidas : EnDoc(t, d)
    BY <1>1 DEF InvPasarela, RecibidosBien
  <2>2. t \in Todos /\ hilo[t].fase = "enviada" /\ hilo[t].doc = d
    BY <2>1 DEF InvPasarela, RecibidasBien, Feec, EnDoc
  <2> QED BY <1>1, <2>2, EnviadaSola DEF Final, Decisiones
<1> QED BY <1>1 DEF InvPasarela, RecibidasBien, AutorizadosBien, Comprobantes

\* An invoice shows as authorized only if the SRI authorized it, whatever crosses, dies or is
\* retried; and as rejected only if it did not, unless its authorization was not heard, was asked
\* for too early, or two threads crossed on it.
THEOREM DecisionesDelSri == SpecConPasarela => []DecisionDelSri
<1>1. InitConPasarela => InvPasarela
  BY DEF InitConPasarela, Init, InvPasarela, RecibidasBien, AutorizadosBien, RecibidosBien, Comprobantes
<1>2. Inv /\ InvPasarela /\ [NextConPasarela]_<<vars, llamadas>> => InvPasarela'
  BY PasoInvPasarela
<1>3. Inv /\ InvPasarela => DecisionDelSri
  BY DecisionesBien
<1>4. SpecConPasarela => []Inv
  BY PasarelaEsCola, InvarianteInductivo
<1> QED BY <1>1, <1>2, <1>3, <1>4, PTL DEF SpecConPasarela

-----------------------------------------------------------------------------
(* Second part. The inductive invariant of Organizacion: what a request has  *)
(* read of the rows of a company, and what the rows keep                     *)

ColumnasDePerfil == {"activo", "juridico", "regimen", "artesano", "modo", "agente", "resolucion"}

\* A pair of ciphers that go together: the password opens the file.
FirmaUnida(f) ==
  \/ f.archivo = Nada /\ f.clave = Nada
  \/ /\ f.archivo # Nada /\ f.clave # Nada
     /\ f.clave.valor = ClaveDe[f.archivo.valor]

\* No cipher of the row is younger than the last request.
FirmaVista(f) ==
  /\ f.archivo # Nada => f.archivo.sal < cuantas
  /\ f.clave # Nada => f.clave.sal < cuantas

\* A sale came in under a point of the kind it was born with, and an artisan's as a note.
VentaBien(f) ==
  /\ f \in Venta
  /\ f.punto # Nada => punto[f.punto] # Nada /\ punto[f.punto].modalidad = ModalidadDe(f.nacio)
  /\ f.artesano => f.nacio = "NOTA_VENTA_FISICA"

\* A sale that is being issued may be issued as it is.
EnEmision(f) ==
  IF f.punto = Nada THEN f.tipo # "ELECTRONICA"
  ELSE punto[f.punto] # Nada /\ punto[f.punto].modalidad = ModalidadDe(f.tipo)

PeticionBien(p) ==
  /\ p.que = "EMPRESA" =>
       /\ p.copia \in Perfil /\ p.copia.activo
       /\ \E e \in Perfil : \A k \in DOMAIN p.cambios : k \in ColumnasDePerfil => p.cambios[k] = e[k]
  /\ p.que = "FIRMA" =>
       /\ p.copia \in Firma /\ p.cambios \in Firma
       /\ FirmaUnida(p.copia) /\ FirmaUnida(p.cambios) /\ FirmaVista(p.cambios)
       /\ p.cambios.archivo # Nada =>
            p.cambios.archivo # p.copia.archivo /\ p.cambios.clave # p.copia.clave
  /\ p.que = "SUCURSAL" => p.fila \in Sucursal
  /\ p.que = "PUNTO" => p.fila \in Punto
  /\ p.que = "CAMBIO_SUCURSAL" =>
       /\ p.de \in Creadas(sucursal) /\ p.copia \in Sucursal /\ p.copia.activo
       /\ p.cambios \in CambiosDeSucursal
  /\ p.que = "CAMBIO_PUNTO" =>
       /\ p.de \in Creadas(punto) /\ p.copia \in Punto /\ p.copia.activo
       /\ p.cambios \in CambiosDePunto
  /\ p.que = "VENTA" => VentaBien(p.fila)
  /\ p.que = "CAMBIO_VENTA" =>
       /\ p.de \in Creadas(venta) /\ p.copia \in Venta /\ p.cambios \in [tipo : Tipos]
  /\ p.que = "EMISION" => p.de \in Creadas(venta) /\ EnEmision(venta[p.de])

\* The rows of the company, and of the sales.
FilasBien ==
  /\ OrgTypeOK /\ cuantas \in Nat
  /\ PerfilLegal
  /\ FirmaConSuClave /\ FirmaVista(firma)
  /\ \A v \in Creadas(venta) : VentaBien(venta[v])

OrgInv ==
  /\ FilasBien
  /\ DOMAIN peticion = Peticiones
  /\ \A r \in Peticiones : peticion[r] # Nada => PeticionBien(peticion[r])

-----------------------------------------------------------------------------
(* What a write leaves *)

\* What a write leaves in a column: the change, when it says something new, or what was there.
LEMMA EscritaColumna ==
  ASSUME NEW copia, NEW cambios, NEW fila, NEW k \in DOMAIN fila
  PROVE  /\ DOMAIN Escrita(copia, cambios, fila) = DOMAIN fila
         /\ Escrita(copia, cambios, fila)[k] =
              IF k \in DOMAIN cambios /\ cambios[k] # copia[k] THEN cambios[k] ELSE fila[k]
BY DEF Escrita

\* A write of columns of a profile leaves a profile, and does not put it back in use.
LEMMA EscritaPerfil ==
  ASSUME NEW copia \in Perfil, NEW cambios, NEW fila \in Perfil, NEW e \in Perfil,
         \A k \in DOMAIN cambios : k \in ColumnasDePerfil => cambios[k] = e[k],
         copia.activo
  PROVE  /\ Escrita(copia, cambios, fila) \in Perfil
         /\ Escrita(copia, cambios, fila).activo => fila.activo
<1> DEFINE f == Escrita(copia, cambios, fila)
<1>1. f = [k \in ColumnasDePerfil |->
             IF k \in DOMAIN cambios /\ cambios[k] # copia[k] THEN cambios[k] ELSE fila[k]]
  BY DEF Escrita, Perfil, ColumnasDePerfil
<1>2. \A k \in ColumnasDePerfil : f[k] \in {e[k], fila[k]}
  BY <1>1
<1>3. f = [activo |-> f.activo, juridico |-> f.juridico, regimen |-> f.regimen,
           artesano |-> f.artesano, modo |-> f.modo, agente |-> f.agente,
           resolucion |-> f.resolucion]
  BY <1>1 DEF ColumnasDePerfil
<1>4. /\ f.activo \in BOOLEAN /\ f.juridico \in {"PERSONA_NATURAL", "SOCIEDAD"}
      /\ f.regimen \in Regimenes /\ f.artesano \in BOOLEAN /\ f.modo \in Modos
      /\ f.agente \in BOOLEAN /\ f.resolucion \in BOOLEAN
  BY <1>2 DEF ColumnasDePerfil, Perfil
<1>5. f \in Perfil
  BY <1>3, <1>4 DEF Perfil
<1>6. f.activo => fila.activo
  BY <1>1 DEF ColumnasDePerfil, Perfil
<1> QED BY <1>5, <1>6

\* A write of the signature leaves a signature; when the copy and the change each hold a
\* password with its file, and no cipher of the change is the copy's, so does the row.
LEMMA EscritaFirma ==
  ASSUME NEW copia \in Firma, NEW cambios \in Firma, NEW fila \in Firma,
         FirmaUnida(copia), FirmaUnida(cambios), FirmaUnida(fila),
         cambios.archivo # Nada =>
           cambios.archivo # copia.archivo /\ cambios.clave # copia.clave
  PROVE  /\ Escrita(copia, cambios, fila) \in Firma
         /\ FirmaUnida(Escrita(copia, cambios, fila))
         /\ Escrita(copia, cambios, fila).archivo \in {cambios.archivo, fila.archivo}
         /\ Escrita(copia, cambios, fila).clave \in {cambios.clave, fila.clave}
<1> DEFINE f == Escrita(copia, cambios, fila)
<1>1. /\ f.archivo = IF cambios.archivo # copia.archivo THEN cambios.archivo ELSE fila.archivo
      /\ f.clave = IF cambios.clave # copia.clave THEN cambios.clave ELSE fila.clave
      /\ f.caduca = IF cambios.caduca # copia.caduca THEN cambios.caduca ELSE fila.caduca
      /\ f = [archivo |-> f.archivo, clave |-> f.clave, caduca |-> f.caduca]
  BY DEF Escrita, Firma
<1>2. f \in Firma
  <2>1. /\ f.archivo \in {Nada} \cup CifradoDe(Archivos)
        /\ f.clave \in {Nada} \cup CifradoDe(Rango(ClaveDe))
        /\ f.caduca \in {Nada} \cup Rango(CaducaEn)
    BY <1>1 DEF Firma
  <2> HIDE DEF f
  <2> QED BY <1>1, <2>1 DEF Firma
<1>3. FirmaUnida(f)
  BY <1>1 DEF FirmaUnida
<1> QED BY <1>1, <1>2, <1>3
\* A change of a branch or a point touches nothing but its columns, and brings no row back.
LEMMA EscritaSucursal ==
  ASSUME NEW copia \in Sucursal, NEW cambios \in CambiosDeSucursal, NEW fila \in Sucursal,
         copia.activo
  PROVE  /\ Escrita(copia, cambios, fila) \in Sucursal
         /\ Escrita(copia, cambios, fila).activo => fila.activo
<1> DEFINE f == Escrita(copia, cambios, fila)
<1>1. /\ f = [activo |-> f.activo, codigo |-> f.codigo, matriz |-> f.matriz]
      /\ f.activo \in BOOLEAN /\ f.codigo \in CodigosSucursal /\ f.matriz \in BOOLEAN
      /\ f.activo => fila.activo
  BY DEF Escrita, Sucursal, CambiosDeSucursal
<1> HIDE DEF f
<1>2. f \in Sucursal
  BY <1>1 DEF Sucursal
<1> QED BY <1>1, <1>2 DEF f

\* The same of a point, whose branch and kind stay.
LEMMA EscritaPunto ==
  ASSUME NEW copia \in Punto, NEW cambios \in CambiosDePunto, NEW fila \in Punto,
         copia.activo
  PROVE  /\ Escrita(copia, cambios, fila) \in Punto
         /\ Escrita(copia, cambios, fila).activo => fila.activo
         /\ Escrita(copia, cambios, fila).modalidad = fila.modalidad
<1> DEFINE f == Escrita(copia, cambios, fila)
<1>1. /\ f = [activo |-> f.activo, sucursal |-> f.sucursal, codigo |-> f.codigo,
              modalidad |-> f.modalidad]
      /\ f.activo \in BOOLEAN /\ f.sucursal \in Sucursales /\ f.codigo \in CodigosPunto
      /\ f.modalidad \in Modalidades /\ f.modalidad = fila.modalidad
      /\ f.activo => fila.activo
  BY DEF Escrita, Punto, CambiosDePunto
<1> HIDE DEF f
<1>2. f \in Punto
  BY <1>1 DEF Punto
<1> QED BY <1>1, <1>2 DEF f

\* The change of a draft touches its type and nothing else.
LEMMA EscritaVenta ==
  ASSUME NEW copia \in Venta, NEW cambios \in [tipo : Tipos], NEW fila \in Venta
  PROVE  /\ Escrita(copia, cambios, fila) \in Venta
         /\ \A k \in {"estado", "punto", "regimen", "nacio", "artesano"} :
              Escrita(copia, cambios, fila)[k] = fila[k]
<1> DEFINE f == Escrita(copia, cambios, fila)
<1>1. /\ f = [estado |-> f.estado, punto |-> f.punto, regimen |-> f.regimen, tipo |-> f.tipo,
              nacio |-> f.nacio, artesano |-> f.artesano]
      /\ f.tipo \in Tipos
      /\ f.estado = fila.estado /\ f.punto = fila.punto /\ f.regimen = fila.regimen
      /\ f.nacio = fila.nacio /\ f.artesano = fila.artesano
  BY DEF Escrita, Venta
<1> HIDE DEF f
<1>2. f \in Venta
  BY <1>1 DEF Venta
<1> QED BY <1>1, <1>2 DEF f

-----------------------------------------------------------------------------
(* A step that keeps the rows right keeps the requests right *)

\* Rows are never taken out, a point keeps its kind, and requests are counted upwards.
Crecen ==
  /\ cuantas' \in Nat /\ cuantas <= cuantas'
  /\ Creadas(sucursal) \subseteq Creadas(sucursal')
  /\ \A p \in Creadas(punto) :
       p \in Creadas(punto') /\ punto'[p].modalidad = punto[p].modalidad
  /\ Creadas(venta) \subseteq Creadas(venta')

\* What a request knows of the rows stays true while they grow, as long as the sale it
\* issues keeps its point and type.
LEMMA PeticionSigue ==
  ASSUME OrgInv, Crecen, OrgTypeOK', NEW r \in Peticiones,
         peticion[r] # Nada, peticion'[r] = peticion[r],
         peticion[r].que = "EMISION" =>
           /\ venta'[peticion[r].de].punto = venta[peticion[r].de].punto
           /\ venta'[peticion[r].de].tipo = venta[peticion[r].de].tipo
  PROVE  PeticionBien(peticion[r])'
<1> DEFINE p == peticion[r]
<1>1. PeticionBien(p)
  BY DEF OrgInv
<1>2. p.que = "FIRMA" => FirmaVista(p.cambios)'
  <2> SUFFICES ASSUME p.que = "FIRMA" PROVE FirmaVista(p.cambios)'
    OBVIOUS
  <2>1. p.cambios \in Firma /\ FirmaVista(p.cambios)
    BY <1>1 DEF PeticionBien
  <2>2. /\ p.cambios.archivo # Nada => p.cambios.archivo.sal \in Nat
        /\ p.cambios.clave # Nada => p.cambios.clave.sal \in Nat
    BY <2>1 DEF Firma, CifradoDe
  <2> QED BY <2>1, <2>2 DEF FirmaVista, Crecen, OrgInv, FilasBien
<1>3. ASSUME NEW f, f \in Venta, f.punto # Nada, punto[f.punto] # Nada
      PROVE  punto'[f.punto] # Nada /\ punto'[f.punto].modalidad = punto[f.punto].modalidad
  <2>1. f.punto \in Creadas(punto)
    BY <1>3 DEF OrgInv, FilasBien, OrgTypeOK, Creadas, Venta
  <2> QED BY <2>1 DEF Crecen, Creadas
<1>4. p.que = "VENTA" => VentaBien(p.fila)'
  BY <1>1, <1>3 DEF PeticionBien, VentaBien
<1>5. p.que = "EMISION" => p.de \in Creadas(venta)' /\ EnEmision(venta[p.de])'
  <2> SUFFICES ASSUME p.que = "EMISION"
               PROVE  p.de \in Creadas(venta)' /\ EnEmision(venta[p.de])'
    OBVIOUS
  <2>1. p.de \in Creadas(venta) /\ EnEmision(venta[p.de])
    BY <1>1 DEF PeticionBien
  <2>2. venta[p.de] \in Venta
    BY <2>1 DEF OrgInv, FilasBien, OrgTypeOK, Creadas
  <2>3. p.de \in Creadas(venta)'
    BY <2>1 DEF Crecen, Creadas
  <2>4. EnEmision(venta[p.de])'
    BY <1>3, <2>1, <2>2 DEF EnEmision
  <2> QED BY <2>3, <2>4
<1>6. /\ p.que = "CAMBIO_SUCURSAL" => p.de \in Creadas(sucursal)'
      /\ p.que = "CAMBIO_PUNTO" => p.de \in Creadas(punto)'
      /\ p.que = "CAMBIO_VENTA" => p.de \in Creadas(venta)'
  BY <1>1 DEF PeticionBien, Crecen, Creadas
<1> QED BY <1>1, <1>2, <1>4, <1>5, <1>6 DEF PeticionBien
\* A step keeps the invariant when it keeps the rows right and lets them grow, and leaves a
\* request as it was, with the sale it issues, or one that is right, or none.
LEMMA FilasPasoBien ==
  ASSUME OrgInv, FilasBien', Crecen, DOMAIN peticion' = Peticiones,
         \A q \in Peticiones :
           \/ peticion'[q] = Nada
           \/ PeticionBien(peticion[q])'
           \/ /\ peticion'[q] = peticion[q]
              /\ En(q, "EMISION") =>
                   /\ venta'[peticion[q].de].punto = venta[peticion[q].de].punto
                   /\ venta'[peticion[q].de].tipo = venta[peticion[q].de].tipo
  PROVE  OrgInv'
<1>1. ASSUME NEW q \in Peticiones, peticion'[q] # Nada PROVE PeticionBien(peticion[q])'
  <2>1. CASE PeticionBien(peticion[q])'
    BY <2>1
  <2>2. CASE ~PeticionBien(peticion[q])'
    BY <1>1, <2>2, PeticionSigue DEF En, FilasBien
  <2> QED BY <2>1, <2>2
<1> QED BY <1>1 DEF OrgInv

\* A request that begins well leaves the invariant.
LEMMA TomaBien ==
  ASSUME OrgInv, NEW r \in Peticiones, NEW p, Toma(r, p), PeticionBien(p)',
         UNCHANGED <<empresa, firma, sucursal, punto, venta>>
  PROVE  OrgInv'
<1>1. FilasBien'
  <2>1. OrgTypeOK' /\ cuantas' \in Nat /\ PerfilLegal' /\ FirmaConSuClave'
    BY DEF OrgInv, FilasBien, OrgTypeOK, PerfilLegal, FirmaConSuClave, Toma
  <2>2. FirmaVista(firma)'
    <3>1. /\ firma.archivo # Nada => firma.archivo.sal \in Nat
          /\ firma.clave # Nada => firma.clave.sal \in Nat
      BY DEF OrgInv, FilasBien, OrgTypeOK, Firma, CifradoDe
    <3> QED BY <3>1 DEF OrgInv, FilasBien, FirmaVista, Toma
  <2>3. \A v \in Creadas(venta)' : VentaBien(venta[v])'
    BY DEF OrgInv, FilasBien, VentaBien, Creadas
  <2> QED BY <2>1, <2>2, <2>3 DEF FilasBien
<1>2. Crecen
  BY DEF OrgInv, FilasBien, Crecen, Creadas, Toma
<1>3. /\ DOMAIN peticion' = Peticiones /\ peticion'[r] = p
      /\ \A q \in Peticiones \ {r} : peticion'[q] = peticion[q]
  BY DEF OrgInv, Toma
<1>4. PeticionBien(peticion[r])'
  BY <1>3
<1> QED BY <1>1, <1>2, <1>3, <1>4, FilasPasoBien

\* A request that ends leaves the invariant when what it wrote is right, and the sales that
\* others issue keep their point and type.
LEMMA TerminaBien ==
  ASSUME OrgInv, NEW r \in Peticiones, Termina(r), FilasBien', Crecen,
         \A q \in Peticiones \ {r} :
           En(q, "EMISION") =>
             /\ venta'[peticion[q].de].punto = venta[peticion[q].de].punto
             /\ venta'[peticion[q].de].tipo = venta[peticion[q].de].tipo
  PROVE  OrgInv'
<1>1. /\ DOMAIN peticion' = Peticiones /\ peticion'[r] = Nada
      /\ \A q \in Peticiones \ {r} : peticion'[q] = peticion[q]
  BY DEF OrgInv, Termina
<1> QED BY <1>1, FilasPasoBien

-----------------------------------------------------------------------------
(* The requests begin well *)

\* The initial state is consistent.
LEMMA OrgInicioBien == OrgInit => OrgInv
<1> SUFFICES ASSUME OrgInit PROVE OrgInv
  OBVIOUS
<1> USE OrganizacionSupuestos DEF OrgInit
<1>1. empresa \in Perfil /\ PerfilLegal
  BY DEF PerfilLegal
<1>2. firma \in Firma /\ FirmaConSuClave /\ FirmaVista(firma)
  BY DEF SinFirma, Firma, FirmaConSuClave, FirmaVista
<1>3. sucursal \in [Sucursales -> {Nada} \cup Sucursal]
  <2>1. [activo |-> TRUE, codigo |-> CodigoMatriz, matriz |-> TRUE] \in Sucursal
    BY DEF Sucursal
  <2> QED BY <2>1
<1>4. /\ punto \in [Puntos -> {Nada} \cup Punto] /\ venta \in [Ventas -> {Nada} \cup Venta]
      /\ Creadas(venta) = {} /\ cuantas \in Nat
  BY DEF Creadas
<1> QED BY <1>1, <1>2, <1>3, <1>4 DEF OrgInv, FilasBien, OrgTypeOK

\* A change that is let in is a change of some columns of a profile.
LEMMA NormalizadoBien ==
  ASSUME NEW c \in Cambios
  PROVE  \E e \in Perfil :
           \A k \in DOMAIN Normalizado(c) : k \in ColumnasDePerfil => Normalizado(c)[k] = e[k]
<1>1. PICK e \in Perfil : DOMAIN c \subseteq DOMAIN e /\ \A k \in DOMAIN c : c[k] = e[k]
  BY OrganizacionSupuestos
<1>2. CASE "agente" \in DOMAIN c /\ ~c.agente
  <2> DEFINE d == [e EXCEPT !.resolucion = FALSE]
  <2>1. d \in Perfil
    BY DEF Perfil
  <2>2. \A k \in DOMAIN Normalizado(c) : k \in ColumnasDePerfil => Normalizado(c)[k] = d[k]
    BY <1>1, <1>2 DEF Normalizado, ColumnasDePerfil, Perfil
  <2> QED BY <2>1, <2>2
<1>3. CASE ~("agente" \in DOMAIN c /\ ~c.agente)
  BY <1>1, <1>3 DEF Normalizado
<1> QED BY <1>2, <1>3

\* The updates of the company.
LEMMA PedirCambioEmpresaBien ==
  ASSUME OrgInv, NEW r \in Peticiones, NEW c \in Cambios, PedirCambioEmpresa(r, c)
  PROVE  OrgInv'
<1>1. PICK p : p = [que |-> "EMPRESA", copia |-> empresa, cambios |-> Normalizado(c)]
  OBVIOUS
<1>2. PeticionBien(p)'
  BY <1>1, NormalizadoBien DEF PedirCambioEmpresa, PeticionBien, OrgInv, FilasBien, OrgTypeOK
<1> QED BY <1>1, <1>2, TomaBien DEF PedirCambioEmpresa

\* The uploads and removals of the signature: a new cipher is never that of the copy.
LEMMA PedirFirmaBien ==
  ASSUME OrgInv, NEW r \in Peticiones,
         PedirSinFirma(r) \/ \E a \in Archivos : PedirFirma(r, a)
  PROVE  OrgInv'
<1>1. firma \in Firma /\ FirmaUnida(firma) /\ FirmaVista(firma) /\ cuantas \in Nat
  BY DEF OrgInv, FilasBien, OrgTypeOK, FirmaConSuClave, FirmaUnida
<1>2. CASE PedirSinFirma(r)
  <2>1. PICK p : p = [que |-> "FIRMA", copia |-> firma, cambios |-> SinFirma]
    OBVIOUS
  <2>2. SinFirma \in Firma
    BY DEF SinFirma, Firma
  <2>3. PeticionBien(p)'
    BY <1>1, <1>2, <2>1, <2>2 DEF PedirSinFirma, PeticionBien, FirmaUnida, FirmaVista, SinFirma
  <2> QED BY <1>2, <2>1, <2>3, TomaBien DEF PedirSinFirma
<1>3. ASSUME NEW a \in Archivos, PedirFirma(r, a) PROVE OrgInv'
  <2> DEFINE n == [archivo |-> Cifrado(a), clave |-> Cifrado(ClaveDe[a]), caduca |-> CaducaEn[a]]
  <2>1. PICK p : p = [que |-> "FIRMA", copia |-> firma, cambios |-> n]
    OBVIOUS
  <2>2. /\ Cifrado(a) \in CifradoDe(Archivos) /\ Cifrado(ClaveDe[a]) \in CifradoDe(Rango(ClaveDe))
        /\ Cifrado(a) # Nada /\ Cifrado(ClaveDe[a]) # Nada
        /\ CaducaEn[a] \in Rango(CaducaEn)
    BY <1>1, OrganizacionSupuestos DEF Cifrado, CifradoDe, Rango
  <2>3. n \in Firma
    BY <2>2 DEF Firma
  <2>4. PICK m : m = n
    OBVIOUS
  <2>5. FirmaUnida(m) /\ m.archivo # firma.archivo /\ m.clave # firma.clave
    BY <1>1, <2>2, <2>4 DEF FirmaUnida, FirmaVista, Cifrado
  <2>6. cuantas' = cuantas + 1
    BY <1>3 DEF PedirFirma, Toma
  <2>7. FirmaVista(m)'
    BY <1>1, <2>4, <2>6 DEF FirmaVista, Cifrado
  <2>8. PeticionBien(p)'
    <3>1. p.que = "FIRMA" /\ p.copia = firma /\ p.cambios = m
      BY <2>1, <2>4
    <3> QED BY <1>1, <2>3, <2>4, <2>5, <2>7, <3>1 DEF PeticionBien, FirmaUnida
  <2> QED BY <1>3, <2>1, <2>8, TomaBien DEF PedirFirma
<1> QED BY <1>2, <1>3
\* The requests about branches and points.
LEMMA PedirSerieBien ==
  ASSUME OrgInv, NEW r \in Peticiones,
         \/ \E c \in CodigosSucursal, m \in BOOLEAN : PedirSucursal(r, c, m)
         \/ \E s \in Sucursales, c \in CodigosPunto, m \in Modalidades : PedirPunto(r, s, c, m)
         \/ \E s \in Sucursales, c \in CambiosDeSucursal : PedirCambioSucursal(r, s, c)
         \/ \E q \in Puntos, c \in CambiosDePunto : PedirCambioPunto(r, q, c)
  PROVE  OrgInv'
<1>1. ASSUME NEW c \in CodigosSucursal, NEW m \in BOOLEAN, PedirSucursal(r, c, m) PROVE OrgInv'
  <2>1. PICK p : p = [que |-> "SUCURSAL",
                      fila |-> [activo |-> TRUE, codigo |-> c, matriz |-> m]]
    OBVIOUS
  <2>2. PeticionBien(p)'
    BY <2>1 DEF PeticionBien, Sucursal
  <2> QED BY <1>1, <2>1, <2>2, TomaBien DEF PedirSucursal
<1>2. ASSUME NEW s \in Sucursales, NEW c \in CodigosPunto, NEW m \in Modalidades,
             PedirPunto(r, s, c, m)
      PROVE  OrgInv'
  <2>1. PICK p : p = [que |-> "PUNTO", fila |-> [activo |-> TRUE, sucursal |-> s, codigo |-> c,
                                                 modalidad |-> m]]
    OBVIOUS
  <2>2. PeticionBien(p)'
    BY <2>1 DEF PeticionBien, Punto
  <2> QED BY <1>2, <2>1, <2>2, TomaBien DEF PedirPunto
<1>3. ASSUME NEW s \in Sucursales, NEW c \in CambiosDeSucursal, PedirCambioSucursal(r, s, c)
      PROVE  OrgInv'
  <2>1. PICK p : p = [que |-> "CAMBIO_SUCURSAL", de |-> s, copia |-> sucursal[s], cambios |-> c]
    OBVIOUS
  <2>2. s \in Creadas(sucursal)' /\ sucursal[s] \in Sucursal /\ sucursal[s].activo
    BY <1>3 DEF PedirCambioSucursal, Viva, Creadas, OrgInv, FilasBien, OrgTypeOK
  <2>3. PeticionBien(p)'
    BY <2>1, <2>2 DEF PeticionBien
  <2> QED BY <1>3, <2>1, <2>3, TomaBien DEF PedirCambioSucursal
<1>4. ASSUME NEW q \in Puntos, NEW c \in CambiosDePunto, PedirCambioPunto(r, q, c)
      PROVE  OrgInv'
  <2>1. PICK p : p = [que |-> "CAMBIO_PUNTO", de |-> q, copia |-> punto[q], cambios |-> c]
    OBVIOUS
  <2>2. q \in Creadas(punto)' /\ punto[q] \in Punto /\ punto[q].activo
    BY <1>4 DEF PedirCambioPunto, Viva, Creadas, OrgInv, FilasBien, OrgTypeOK
  <2>3. PeticionBien(p)'
    BY <2>1, <2>2 DEF PeticionBien
  <2> QED BY <1>4, <2>1, <2>3, TomaBien DEF PedirCambioPunto
<1> QED BY <1>1, <1>2, <1>3, <1>4

\* A sale is registered under a point of its kind, and as a note when of an artisan.
LEMMA PedirVentaBien ==
  ASSUME OrgInv, NEW r \in Peticiones, NEW p \in Puntos \cup {Nada}, NEW q \in Cuerpos,
         PedirVenta(r, p, q)
  PROVE  OrgInv'
<1>1. PICK t \in TiposResueltos(empresa, TipoDelCuerpo(q), q.excluida) :
        /\ p # Nada => EnUso(p) /\ punto[p].modalidad = ModalidadDe(t)
        /\ Toma(r, [que |-> "VENTA",
                    fila |-> [estado |-> "BORRADOR", punto |-> p, regimen |-> empresa.regimen,
                              tipo |-> t, nacio |-> t, artesano |-> empresa.artesano]])
  BY DEF PedirVenta
<1>2. PICK f : f = [estado |-> "BORRADOR", punto |-> p, regimen |-> empresa.regimen,
                    tipo |-> t, nacio |-> t, artesano |-> empresa.artesano]
  OBVIOUS
<1>3. PICK d : d = [que |-> "VENTA", fila |-> f]
  OBVIOUS
<1>4. t \in Tipos /\ (empresa.artesano => t = "NOTA_VENTA_FISICA")
  BY DEF TiposResueltos
<1>5. f \in Venta
  BY <1>2, <1>4 DEF Venta, OrgInv, FilasBien, OrgTypeOK, Perfil
<1>6. p # Nada => punto'[p] # Nada /\ punto'[p].modalidad = ModalidadDe(t)
  BY <1>1 DEF PedirVenta, EnUso, Viva
<1>7. VentaBien(f)'
  BY <1>2, <1>4, <1>5, <1>6 DEF VentaBien
<1>8. PeticionBien(d)'
  BY <1>3, <1>7 DEF PeticionBien
<1> QED BY <1>1, <1>2, <1>3, <1>8, TomaBien DEF PedirVenta

\* The changes of a draft and the emissions.
LEMMA PedirDeVentaBien ==
  ASSUME OrgInv, NEW r \in Peticiones, NEW v \in Ventas,
         PedirEmision(r, v) \/ \E t \in Tipos : PedirCambioVenta(r, v, t)
  PROVE  OrgInv'
<1>1. CASE PedirEmision(r, v)
  <2>1. PICK p : p = [que |-> "EMISION", de |-> v]
    OBVIOUS
  <2>2. v \in Creadas(venta)' /\ EnEmision(venta[v])'
    BY <1>1 DEF PedirEmision, PuntoDeVentaValido, EnEmision, EnUso, Viva, Creadas,
               OrgInv, FilasBien, OrgTypeOK
  <2>3. PeticionBien(p)'
    BY <2>1, <2>2 DEF PeticionBien
  <2> QED BY <1>1, <2>1, <2>3, TomaBien DEF PedirEmision
<1>2. ASSUME NEW t \in Tipos, PedirCambioVenta(r, v, t) PROVE OrgInv'
  <2>1. PICK p : p = [que |-> "CAMBIO_VENTA", de |-> v, copia |-> venta[v],
                      cambios |-> [tipo |-> t]]
    OBVIOUS
  <2>2. v \in Creadas(venta)' /\ venta[v] \in Venta
    BY <1>2 DEF PedirCambioVenta, Creadas, OrgInv, FilasBien, OrgTypeOK
  <2>3. PeticionBien(p)'
    BY <2>1, <2>2 DEF PeticionBien
  <2> QED BY <1>2, <2>1, <2>3, TomaBien DEF PedirCambioVenta
<1> QED BY <1>1, <1>2

\* Whatever a request begins with, it begins well.
LEMMA PedirBien ==
  ASSUME OrgInv, NEW r \in Peticiones, Pedir(r)
  PROVE  OrgInv'
BY PedirCambioEmpresaBien, PedirFirmaBien, PedirSerieBien, PedirVentaBien, PedirDeVentaBien
   DEF Pedir

-----------------------------------------------------------------------------
(* The requests end well, and so do the deletions *)

\* The rows of a step that leaves the points and the sales alone.
LEMMA VentasSiguen ==
  ASSUME OrgInv, UNCHANGED <<punto, venta>>
  PROVE  (\A v \in Creadas(venta) : VentaBien(venta[v]))'
BY DEF OrgInv, FilasBien, VentaBien, Creadas

\* What an update writes is a lawful profile, or it is not written.
LEMMA GuardarEmpresaBien ==
  ASSUME OrgInv, NEW r \in Peticiones, GuardarEmpresa(r)
  PROVE  OrgInv' /\ (empresa'.activo => empresa.activo)
<1> DEFINE p == peticion[r]
           fila == Escrita(p.copia, p.cambios, empresa)
<1>1. /\ p.copia \in Perfil /\ p.copia.activo /\ empresa \in Perfil /\ PerfilLegal
      /\ \E e \in Perfil : \A k \in DOMAIN p.cambios : k \in ColumnasDePerfil => p.cambios[k] = e[k]
  BY DEF GuardarEmpresa, En, OrgInv, FilasBien, OrgTypeOK, PeticionBien
<1>2. fila \in Perfil /\ (fila.activo => empresa.activo)
  BY <1>1, EscritaPerfil
<1> HIDE DEF fila
<1>3. empresa' = IF AdmiteLaBase(fila) THEN fila ELSE empresa
  BY DEF GuardarEmpresa, fila
<1>4. empresa' \in Perfil /\ PerfilLegal' /\ (empresa'.activo => empresa.activo)
  BY <1>1, <1>2, <1>3 DEF AdmiteLaBase, PerfilLegal
<1>5. FilasBien' /\ Crecen
  BY <1>4, VentasSiguen DEF GuardarEmpresa, Termina, OrgInv, FilasBien, OrgTypeOK, Crecen, Creadas,
     FirmaConSuClave, FirmaVista
<1> QED BY <1>4, <1>5, TerminaBien DEF GuardarEmpresa

\* The deletion of the company takes it out of use and nothing else.
LEMMA EliminarEmpresaBien ==
  ASSUME OrgInv, EliminarEmpresa
  PROVE  OrgInv' /\ (empresa'.activo => empresa.activo)
<1>1. empresa' \in Perfil /\ PerfilLegal'
  <2>1. empresa \in Perfil /\ PerfilLegal
    BY DEF OrgInv, FilasBien, OrgTypeOK
  <2> QED BY <2>1 DEF EliminarEmpresa, Perfil, PerfilLegal, CumpleReglas, NotaDeVenta
<1>2. FilasBien' /\ Crecen
  BY <1>1, VentasSiguen DEF EliminarEmpresa, OrgInv, FilasBien, OrgTypeOK, Crecen, Creadas,
     FirmaConSuClave, FirmaVista
<1> QED BY <1>2, FilasPasoBien DEF EliminarEmpresa, OrgInv
\* The columns that are written leave a password with its file, whatever the row became.
LEMMA GuardarFirmaBien ==
  ASSUME OrgInv, NEW r \in Peticiones, GuardarFirma(r)
  PROVE  OrgInv'
<1> DEFINE p == peticion[r]
           fila == Escrita(p.copia, p.cambios, firma)
<1>1. /\ p.copia \in Firma /\ p.cambios \in Firma /\ firma \in Firma
      /\ FirmaUnida(p.copia) /\ FirmaUnida(p.cambios) /\ FirmaUnida(firma)
      /\ FirmaVista(p.cambios) /\ FirmaVista(firma)
      /\ p.cambios.archivo # Nada =>
           p.cambios.archivo # p.copia.archivo /\ p.cambios.clave # p.copia.clave
  BY DEF GuardarFirma, En, OrgInv, FilasBien, OrgTypeOK, PeticionBien, FirmaConSuClave, FirmaUnida
<1>2. /\ fila \in Firma /\ FirmaUnida(fila)
      /\ fila.archivo \in {p.cambios.archivo, firma.archivo}
      /\ fila.clave \in {p.cambios.clave, firma.clave}
  BY <1>1, EscritaFirma
<1> HIDE DEF fila
<1>3. firma' = fila /\ cuantas' = cuantas
  BY DEF GuardarFirma, Termina, fila
<1>4. firma' \in Firma /\ FirmaConSuClave' /\ FirmaVista(firma)'
  BY <1>1, <1>2, <1>3 DEF FirmaConSuClave, FirmaUnida, FirmaVista
<1>5. FilasBien' /\ Crecen
  BY <1>4, VentasSiguen DEF GuardarFirma, Termina, OrgInv, FilasBien, OrgTypeOK, Crecen, Creadas,
     PerfilLegal
<1> QED BY <1>5, TerminaBien DEF GuardarFirma

\* What the rows of the company, its signature and its sales are when only series change.
LEMMA SeriesBien ==
  ASSUME OrgInv, UNCHANGED <<empresa, firma, venta, cuantas>>,
         sucursal' \in [Sucursales -> {Nada} \cup Sucursal],
         punto' \in [Puntos -> {Nada} \cup Punto],
         Creadas(sucursal) \subseteq Creadas(sucursal'),
         \A p \in Creadas(punto) :
           p \in Creadas(punto') /\ punto'[p].modalidad = punto[p].modalidad
  PROVE  FilasBien' /\ Crecen
<1>1. (\A v \in Creadas(venta) : VentaBien(venta[v]))'
  <2> SUFFICES ASSUME NEW v \in Creadas(venta) PROVE VentaBien(venta[v])'
    BY DEF Creadas
  <2>1. VentaBien(venta[v])
    BY DEF OrgInv, FilasBien
  <2>2. venta[v].punto # Nada => venta[v].punto \in Creadas(punto)
    BY <2>1 DEF VentaBien, Venta, Creadas, OrgInv, FilasBien, OrgTypeOK
  <2> QED BY <2>1, <2>2 DEF VentaBien, Creadas
<1> QED BY <1>1 DEF OrgInv, FilasBien, OrgTypeOK, PerfilLegal, FirmaConSuClave, FirmaVista,
                    Crecen, Creadas

\* The branches that are out of use stay so, and the same of the points.
SeriesDeBaja ==
  /\ \A s \in Creadas(sucursal) : sucursal'[s].activo => sucursal[s].activo
  /\ \A p \in Creadas(punto) : punto'[p].activo => punto[p].activo

\* A new row takes a place that was free.
LEMMA AltasBien ==
  ASSUME OrgInv, NEW r \in Peticiones, GuardarSucursal(r) \/ GuardarPunto(r)
  PROVE  OrgInv' /\ SeriesDeBaja
<1>1. CASE GuardarSucursal(r)
  <2>1. peticion[r].fila \in Sucursal
    BY <1>1 DEF GuardarSucursal, En, OrgInv, PeticionBien
  <2>2. /\ sucursal' \in [Sucursales -> {Nada} \cup Sucursal]
        /\ \A s \in Creadas(sucursal) : s \in Creadas(sucursal') /\ sucursal'[s] = sucursal[s]
    BY <1>1, <2>1 DEF GuardarSucursal, Creadas, OrgInv, FilasBien, OrgTypeOK
  <2>3. FilasBien' /\ Crecen
    BY <1>1, <2>2, SeriesBien
       DEF GuardarSucursal, Termina, OrgInv, FilasBien, OrgTypeOK, Creadas
  <2> QED BY <1>1, <2>2, <2>3, TerminaBien DEF GuardarSucursal, SeriesDeBaja
<1>2. CASE GuardarPunto(r)
  <2>1. peticion[r].fila \in Punto
    BY <1>2 DEF GuardarPunto, En, OrgInv, PeticionBien
  <2>2. /\ punto' \in [Puntos -> {Nada} \cup Punto]
        /\ \A p \in Creadas(punto) : p \in Creadas(punto') /\ punto'[p] = punto[p]
    BY <1>2, <2>1 DEF GuardarPunto, Creadas, OrgInv, FilasBien, OrgTypeOK
  <2>3. FilasBien' /\ Crecen
    BY <1>2, <2>2, SeriesBien
       DEF GuardarPunto, Termina, OrgInv, FilasBien, OrgTypeOK, Creadas
  <2> QED BY <1>2, <2>2, <2>3, TerminaBien DEF GuardarPunto, SeriesDeBaja
<1> QED BY <1>1, <1>2

\* An update does not bring back a branch or a point that was deleted meanwhile.
LEMMA CambiosBien ==
  ASSUME OrgInv, NEW r \in Peticiones, GuardarCambioSucursal(r) \/ GuardarCambioPunto(r)
  PROVE  OrgInv' /\ SeriesDeBaja
<1> DEFINE p == peticion[r]
<1>1. CASE GuardarCambioSucursal(r)
  <2> DEFINE fila == Escrita(p.copia, p.cambios, sucursal[p.de])
  <2>1. /\ p.copia \in Sucursal /\ p.copia.activo /\ p.cambios \in CambiosDeSucursal
        /\ p.de \in Sucursales /\ sucursal[p.de] \in Sucursal /\ p.de \in Creadas(sucursal)
    BY <1>1 DEF GuardarCambioSucursal, En, OrgInv, FilasBien, OrgTypeOK, PeticionBien, Creadas
  <2>2. fila \in Sucursal /\ (fila.activo => sucursal[p.de].activo)
    BY <2>1, EscritaSucursal
  <2> HIDE DEF fila
  <2>3. sucursal' \in {sucursal, [sucursal EXCEPT ![p.de] = fila]}
    BY <1>1 DEF GuardarCambioSucursal, fila
  <2>4. /\ sucursal' \in [Sucursales -> {Nada} \cup Sucursal]
        /\ \A s \in Creadas(sucursal) :
             s \in Creadas(sucursal') /\ (sucursal'[s].activo => sucursal[s].activo)
    BY <2>1, <2>2, <2>3, OrganizacionSupuestos DEF Creadas, OrgInv, FilasBien, OrgTypeOK
  <2>5. FilasBien' /\ Crecen
    BY <1>1, <2>4, SeriesBien
       DEF GuardarCambioSucursal, Termina, OrgInv, FilasBien, OrgTypeOK, Creadas
  <2> QED BY <1>1, <2>4, <2>5, TerminaBien DEF GuardarCambioSucursal, SeriesDeBaja
<1>2. CASE GuardarCambioPunto(r)
  <2> DEFINE fila == Escrita(p.copia, p.cambios, punto[p.de])
  <2>1. /\ p.copia \in Punto /\ p.copia.activo /\ p.cambios \in CambiosDePunto
        /\ p.de \in Puntos /\ punto[p.de] \in Punto /\ p.de \in Creadas(punto)
    BY <1>2 DEF GuardarCambioPunto, En, OrgInv, FilasBien, OrgTypeOK, PeticionBien, Creadas
  <2>2. /\ fila \in Punto /\ (fila.activo => punto[p.de].activo)
        /\ fila.modalidad = punto[p.de].modalidad
    BY <2>1, EscritaPunto
  <2>3. punto' = [punto EXCEPT ![p.de] = fila]
    BY <1>2 DEF GuardarCambioPunto
  <2> HIDE DEF fila
  <2>4. /\ punto' \in [Puntos -> {Nada} \cup Punto]
        /\ \A q \in Creadas(punto) :
             /\ q \in Creadas(punto') /\ punto'[q].modalidad = punto[q].modalidad
             /\ punto'[q].activo => punto[q].activo
    BY <2>1, <2>2, <2>3, OrganizacionSupuestos DEF Creadas, OrgInv, FilasBien, OrgTypeOK
  <2>5. FilasBien' /\ Crecen
    BY <1>2, <2>4, SeriesBien
       DEF GuardarCambioPunto, Termina, OrgInv, FilasBien, OrgTypeOK, Creadas
  <2> QED BY <1>2, <2>4, <2>5, TerminaBien DEF GuardarCambioPunto, SeriesDeBaja
<1> QED BY <1>1, <1>2

\* A deletion takes its row out of use and nothing else.
LEMMA EliminarSerieBien ==
  ASSUME OrgInv,
         \/ \E s \in Sucursales : EliminarSucursal(s)
         \/ \E p \in Puntos : EliminarPunto(p)
  PROVE  OrgInv' /\ SeriesDeBaja
<1>1. ASSUME NEW s \in Sucursales, EliminarSucursal(s) PROVE OrgInv' /\ SeriesDeBaja
  <2>1. sucursal[s] \in Sucursal
    BY <1>1 DEF EliminarSucursal, Viva, OrgInv, FilasBien, OrgTypeOK
  <2>2. PICK fila \in Sucursal : fila = [sucursal[s] EXCEPT !.activo = FALSE]
    BY <2>1 DEF Sucursal
  <2>3. /\ sucursal' = [sucursal EXCEPT ![s] = fila] /\ ~fila.activo
    BY <1>1, <2>1, <2>2 DEF EliminarSucursal, Sucursal
  <2>4. /\ sucursal' \in [Sucursales -> {Nada} \cup Sucursal]
        /\ \A t \in Creadas(sucursal) :
             t \in Creadas(sucursal') /\ (sucursal'[t].activo => sucursal[t].activo)
    BY <2>2, <2>3, OrganizacionSupuestos DEF Creadas, OrgInv, FilasBien, OrgTypeOK
  <2>5. FilasBien' /\ Crecen
    BY <1>1, <2>4, SeriesBien DEF EliminarSucursal, OrgInv, FilasBien, OrgTypeOK, Creadas
  <2> QED BY <1>1, <2>4, <2>5, FilasPasoBien DEF EliminarSucursal, SeriesDeBaja, OrgInv
<1>2. ASSUME NEW p \in Puntos, EliminarPunto(p) PROVE OrgInv' /\ SeriesDeBaja
  <2>1. punto[p] \in Punto
    BY <1>2 DEF EliminarPunto, Viva, OrgInv, FilasBien, OrgTypeOK
  <2>2. PICK fila \in Punto : fila = [punto[p] EXCEPT !.activo = FALSE]
    BY <2>1 DEF Punto
  <2>3. /\ punto' = [punto EXCEPT ![p] = fila] /\ ~fila.activo
        /\ fila.modalidad = punto[p].modalidad
    BY <1>2, <2>1, <2>2 DEF EliminarPunto, Punto
  <2>4. /\ punto' \in [Puntos -> {Nada} \cup Punto]
        /\ \A q \in Creadas(punto) :
             /\ q \in Creadas(punto') /\ punto'[q].modalidad = punto[q].modalidad
             /\ punto'[q].activo => punto[q].activo
    BY <2>2, <2>3, OrganizacionSupuestos DEF Creadas, OrgInv, FilasBien, OrgTypeOK
  <2>5. FilasBien' /\ Crecen
    BY <1>2, <2>4, SeriesBien DEF EliminarPunto, OrgInv, FilasBien, OrgTypeOK, Creadas
  <2> QED BY <1>2, <2>4, <2>5, FilasPasoBien DEF EliminarPunto, SeriesDeBaja, OrgInv
<1> QED BY <1>1, <1>2

\* The rows of the sales, when only they change: a sale that was there keeps its point, and
\* what it was born as.
LEMMA VentasBien ==
  ASSUME OrgInv, UNCHANGED <<empresa, firma, sucursal, punto, cuantas>>,
         venta' \in [Ventas -> {Nada} \cup Venta],
         Creadas(venta) \subseteq Creadas(venta'),
         \A v \in Creadas(venta') : VentaBien(venta'[v])
  PROVE  FilasBien' /\ Crecen
<1>1. (\A v \in Creadas(venta) : VentaBien(venta[v]))'
  BY DEF VentaBien, Creadas
<1> QED BY <1>1 DEF OrgInv, FilasBien, OrgTypeOK, PerfilLegal, FirmaConSuClave, FirmaVista,
                    Crecen, Creadas

\* A sale that is registered takes a place that was free.
LEMMA GuardarVentaBien ==
  ASSUME OrgInv, NEW r \in Peticiones, GuardarVenta(r)
  PROVE  OrgInv' /\ \A v \in Creadas(venta) : venta'[v] = venta[v]
<1>1. VentaBien(peticion[r].fila)
  BY DEF GuardarVenta, En, OrgInv, PeticionBien
<1>2. PICK v \in Ventas \ Creadas(venta) : venta' = [venta EXCEPT ![v] = peticion[r].fila]
  BY DEF GuardarVenta
<1>3. /\ venta' \in [Ventas -> {Nada} \cup Venta]
      /\ \A w \in Creadas(venta) : w \in Creadas(venta') /\ venta'[w] = venta[w]
      /\ \A w \in Creadas(venta') : VentaBien(venta'[w])
  BY <1>1, <1>2 DEF Creadas, VentaBien, OrgInv, FilasBien, OrgTypeOK
<1>4. FilasBien' /\ Crecen
  BY <1>3, VentasBien DEF GuardarVenta, Termina, Creadas
<1>5. \A q \in Peticiones : En(q, "EMISION") => peticion[q].de \in Creadas(venta)
  BY DEF En, OrgInv, PeticionBien
<1> QED BY <1>3, <1>4, <1>5, TerminaBien DEF GuardarVenta

\* The change of a draft waits for whoever issues the sale, and issues nothing.
LEMMA GuardarCambioVentaBien ==
  ASSUME OrgInv, NEW r \in Peticiones, GuardarCambioVenta(r)
  PROVE  OrgInv' /\ \A v \in Creadas(venta) : ~Emitida(v)
<1> DEFINE p == peticion[r]
           fila == Escrita(p.copia, p.cambios, venta[p.de])
<1>1. /\ p.copia \in Venta /\ p.cambios \in [tipo : Tipos]
      /\ p.de \in Ventas /\ p.de \in Creadas(venta) /\ VentaBien(venta[p.de])
  BY DEF GuardarCambioVenta, En, OrgInv, FilasBien, OrgTypeOK, PeticionBien, Creadas
<1>2. /\ fila \in Venta /\ fila.estado = venta[p.de].estado /\ fila.punto = venta[p.de].punto
      /\ fila.nacio = venta[p.de].nacio /\ fila.artesano = venta[p.de].artesano
  BY <1>1, EscritaVenta DEF VentaBien
<1>3. venta' = [venta EXCEPT ![p.de] = fila]
  BY DEF GuardarCambioVenta
<1> HIDE DEF fila
<1>4. VentaBien(fila)
  BY <1>1, <1>2 DEF VentaBien
<1>5. /\ venta' \in [Ventas -> {Nada} \cup Venta]
      /\ \A w \in Creadas(venta) : w \in Creadas(venta') /\ venta'[w].estado = venta[w].estado
      /\ \A w \in Creadas(venta') : VentaBien(venta'[w])
      /\ \A w \in Ventas \ {p.de} : venta'[w] = venta[w]
  BY <1>1, <1>2, <1>3, <1>4, OrganizacionSupuestos DEF Creadas, OrgInv, FilasBien, OrgTypeOK
<1>6. FilasBien' /\ Crecen
  BY <1>5, VentasBien DEF GuardarCambioVenta, Termina, Creadas
<1>7. \A q \in Peticiones : En(q, "EMISION") => peticion[q].de \in Ventas \ {p.de}
  BY DEF GuardarCambioVenta, Bloqueada, En, OrgInv, FilasBien, OrgTypeOK, PeticionBien, Creadas
<1> QED BY <1>5, <1>6, <1>7, TerminaBien DEF GuardarCambioVenta, Emitida

\* What is issued is what was registered: with a point, the kind of the point; of an artisan,
\* never an electronic invoice.
ComoNacio(v) ==
  Emitida(v) => /\ venta[v].punto # Nada => venta'[v].tipo = venta[v].nacio
                /\ venta[v].artesano => venta'[v].tipo = "NOTA_VENTA_FISICA"

\* Issuing a sale makes of it what its point and its company were when it was registered.
LEMMA EmitirBien ==
  ASSUME OrgInv, NEW r \in Peticiones, Emitir(r)
  PROVE  OrgInv' /\ \A v \in Creadas(venta) : ComoNacio(v)
<1> DEFINE v == peticion[r].de
<1>1. v \in Ventas /\ v \in Creadas(venta) /\ VentaBien(venta[v]) /\ EnEmision(venta[v])
  BY DEF Emitir, En, OrgInv, FilasBien, OrgTypeOK, PeticionBien, Creadas
<1>2. PICK fila : fila = [venta[v] EXCEPT !.estado = "EMITIDA"]
  OBVIOUS
<1>3. venta' = [venta EXCEPT ![v] = fila]
  BY <1>2 DEF Emitir
<1>4. /\ fila \in Venta /\ fila.punto = venta[v].punto /\ fila.tipo = venta[v].tipo
      /\ fila.nacio = venta[v].nacio /\ fila.artesano = venta[v].artesano
  BY <1>1, <1>2 DEF VentaBien, Venta
<1>5. VentaBien(fila)
  BY <1>1, <1>4 DEF VentaBien
<1>6. /\ venta' \in [Ventas -> {Nada} \cup Venta]
      /\ \A w \in Creadas(venta) :
           /\ w \in Creadas(venta') /\ venta'[w].punto = venta[w].punto
           /\ venta'[w].tipo = venta[w].tipo
      /\ \A w \in Creadas(venta') : VentaBien(venta'[w])
      /\ \A w \in Ventas \ {v} : venta'[w] = venta[w]
  BY <1>1, <1>3, <1>4, <1>5, OrganizacionSupuestos DEF Creadas, OrgInv, FilasBien, OrgTypeOK
<1>7. FilasBien' /\ Crecen
  BY <1>6, VentasBien DEF Emitir, Termina, Creadas
<1>8. \A q \in Peticiones : En(q, "EMISION") => peticion[q].de \in Creadas(venta)
  BY DEF En, OrgInv, PeticionBien
<1>9. OrgInv'
  BY <1>6, <1>7, <1>8, TerminaBien DEF Emitir
<1>10. /\ venta[v].punto # Nada => venta[v].tipo = venta[v].nacio
       /\ venta[v].artesano => venta[v].tipo = "NOTA_VENTA_FISICA"
  BY <1>1 DEF VentaBien, EnEmision, ModalidadDe, Venta, Tipos
<1>11. ASSUME NEW w \in Creadas(venta) PROVE ComoNacio(w)
  BY <1>6, <1>10 DEF ComoNacio, Emitida, Creadas, OrgInv, FilasBien, OrgTypeOK
<1> QED BY <1>9, <1>11

\* An emission that fails leaves the rows as they were.
LEMMA NoEmitirBien ==
  ASSUME OrgInv, NEW r \in Peticiones, NoEmitir(r)
  PROVE  OrgInv'
<1>1. FilasBien' /\ Crecen
  BY VentasSiguen DEF NoEmitir, Termina, OrgInv, FilasBien, OrgTypeOK, Crecen, Creadas,
     PerfilLegal, FirmaConSuClave, FirmaVista
<1> QED BY <1>1, TerminaBien DEF NoEmitir
-----------------------------------------------------------------------------
(* What every step keeps *)

\* Any step keeps the invariant, brings nothing back and issues each sale as it was registered.
LEMMA OrgPaso ==
  ASSUME OrgInv, [OrgNext]_orgVars
  PROVE  /\ OrgInv'
         /\ empresa'.activo => empresa.activo
         /\ SeriesDeBaja
         /\ \A v \in Creadas(venta) : ComoNacio(v)
<1> DEFINE Todo == /\ OrgInv'
                   /\ empresa'.activo => empresa.activo
                   /\ SeriesDeBaja
                   /\ \A v \in Creadas(venta) : ComoNacio(v)
<1>1. ASSUME UNCHANGED venta PROVE \A v \in Creadas(venta) : ComoNacio(v)
  BY <1>1 DEF ComoNacio, Emitida
<1>2. ASSUME UNCHANGED <<sucursal, punto>> PROVE SeriesDeBaja
  BY <1>2 DEF SeriesDeBaja
<1>3. ASSUME UNCHANGED orgVars PROVE Todo
  <2>1. FilasBien' /\ Crecen
    BY <1>3, VentasSiguen DEF orgVars, OrgInv, FilasBien, OrgTypeOK, Crecen, Creadas,
       PerfilLegal, FirmaConSuClave, FirmaVista
  <2>2. OrgInv'
    BY <1>3, <2>1, FilasPasoBien DEF orgVars, OrgInv
  <2> QED BY <1>1, <1>2, <1>3, <2>2 DEF orgVars
<1>4. CASE EliminarEmpresa
  BY <1>1, <1>2, <1>4, EliminarEmpresaBien DEF EliminarEmpresa
<1>5. ASSUME NEW s \in Sucursales, EliminarSucursal(s) PROVE Todo
  BY <1>1, <1>5, EliminarSerieBien DEF EliminarSucursal
<1>6. ASSUME NEW p \in Puntos, EliminarPunto(p) PROVE Todo
  BY <1>1, <1>6, EliminarSerieBien DEF EliminarPunto
<1>7. ASSUME NEW r \in Peticiones, Pedir(r) PROVE Todo
  <2>1. UNCHANGED <<empresa, firma, sucursal, punto, venta>>
    BY <1>7 DEF Pedir, PedirCambioEmpresa, PedirFirma, PedirSinFirma, PedirSucursal, PedirPunto,
       PedirCambioSucursal, PedirCambioPunto, PedirVenta, PedirCambioVenta, PedirEmision
  <2> QED BY <1>1, <1>2, <1>7, <2>1, PedirBien
<1>8. ASSUME NEW r \in Peticiones, Terminar(r) PROVE Todo
  <2>1. CASE GuardarEmpresa(r)
    BY <1>1, <1>2, <2>1, GuardarEmpresaBien DEF GuardarEmpresa
  <2>2. CASE GuardarFirma(r)
    BY <1>1, <1>2, <2>2, GuardarFirmaBien DEF GuardarFirma
  <2>3. CASE GuardarSucursal(r)
    BY <1>1, <2>3, AltasBien DEF GuardarSucursal
  <2>4. CASE GuardarPunto(r)
    BY <1>1, <2>4, AltasBien DEF GuardarPunto
  <2>5. CASE GuardarCambioSucursal(r)
    BY <1>1, <2>5, CambiosBien DEF GuardarCambioSucursal
  <2>6. CASE GuardarCambioPunto(r)
    BY <1>1, <2>6, CambiosBien DEF GuardarCambioPunto
  <2>7. CASE GuardarVenta(r)
    BY <1>2, <2>7, GuardarVentaBien DEF GuardarVenta, ComoNacio, Emitida
  <2>8. CASE GuardarCambioVenta(r)
    BY <1>2, <2>8, GuardarCambioVentaBien DEF GuardarCambioVenta, ComoNacio
  <2>9. CASE Emitir(r)
    BY <1>2, <2>9, EmitirBien DEF Emitir
  <2>10. CASE NoEmitir(r)
    BY <1>1, <1>2, <2>10, NoEmitirBien DEF NoEmitir
  <2> QED BY <1>8, <2>1, <2>2, <2>3, <2>4, <2>5, <2>6, <2>7, <2>8, <2>9, <2>10 DEF Terminar
<1> HIDE DEF Todo
<1>9. Todo
  BY <1>3, <1>4, <1>5, <1>6, <1>7, <1>8 DEF OrgNext, Todo
<1> QED BY <1>9 DEF Todo

\* The invariant holds in every state, for any company, requests, rows and changes.
THEOREM OrgInvariante == OrgSpec => []OrgInv
<1>1. OrgInv /\ [OrgNext]_orgVars => OrgInv'
  BY OrgPaso
<1> QED BY OrgInicioBien, <1>1, PTL DEF OrgSpec

\* Every row of Organizacion has its type.
THEOREM OrgTiposCorrectos == OrgSpec => []OrgTypeOK
<1>1. OrgInv => OrgTypeOK
  BY DEF OrgInv, FilasBien
<1> QED BY <1>1, OrgInvariante, PTL

\* The company never has a profile the rules forbid.
THEOREM PerfilSiempreLegal == OrgSpec => []PerfilLegal
<1>1. OrgInv => PerfilLegal
  BY DEF OrgInv, FilasBien
<1> QED BY <1>1, OrgInvariante, PTL

\* The password stored opens the file stored.
THEOREM FirmaSiempreConSuClave == OrgSpec => []FirmaConSuClave
<1>1. OrgInv => FirmaConSuClave
  BY DEF OrgInv, FilasBien
<1> QED BY <1>1, OrgInvariante, PTL

\* What is deleted stays deleted.
THEOREM BajasDefinitivas == OrgSpec => BajaDefinitiva
<1>1. OrgInv /\ [OrgNext]_orgVars =>
        [/\ empresa'.activo => empresa.activo
         /\ \A s \in Creadas(sucursal) : sucursal'[s].activo => sucursal[s].activo
         /\ \A p \in Creadas(punto) : punto'[p].activo => punto[p].activo]_orgVars
  BY OrgPaso DEF SeriesDeBaja
<1> QED BY <1>1, OrgInvariante, PTL DEF OrgSpec, BajaDefinitiva

\* No change between the registration and the emission yields a document of another kind.
THEOREM EmisionesLegales == OrgSpec => EmisionLegal
<1>1. OrgInv /\ [OrgNext]_orgVars =>
        [\A v \in Creadas(venta) :
           Emitida(v) /\ venta[v].punto # Nada => venta'[v].tipo = venta[v].nacio]_orgVars
  BY OrgPaso DEF ComoNacio
<1>2. OrgInv /\ [OrgNext]_orgVars =>
        [\A v \in Creadas(venta) :
           Emitida(v) /\ venta[v].artesano => venta'[v].tipo = "NOTA_VENTA_FISICA"]_orgVars
  BY OrgPaso DEF ComoNacio
<1> QED BY <1>1, <1>2, OrgInvariante, PTL
           DEF OrgSpec, EmisionLegal, EmiteComoSeRegistro, ArtesanoSinFactura
=============================================================================

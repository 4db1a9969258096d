---------------------------- MODULE MCAtributos ----------------------------
EXTENDS Atributos, FiniteSets, TLC

\* Texts take any datum, integers only the number, and may have a unit.
MCFormas   == {"texto", "entero"}
MCNumericas == {"entero"}
MCUnidades == {"kg"}
MCColumnas == {"s", "i"}
MCColumna  == [f \in MCFormas |-> IF f = "entero" THEN "i" ELSE "s"]
MCDatos    == {"uno", "otro"}
MCAdmite   == {<<d, f>> \in MCDatos \X MCFormas : d = "uno" \/ f = "texto"}
MCDefectos == {"otro", "sin"}
MCSin == "sin"
MCIgual == "igual"
MCNulo == "nulo"

\* Three at most of: categories ever assigned, snapshots, requests in flight, deletions;
\* with a request in flight one category, but to remove an assignment; with two snapshots,
\* or one and a request, none below another and no default in play; with the unit out of
\* use, no requests, and one snapshot if there is no product; known only from what was
\* undone, no requests.
Asignadas == {c \in Categorias : asig[c] # Nada}
EnCurso   == {r \in Solicitudes : sesion[r] # Nada}
Retira(r) == sesion[r].que = "VISTA" /\ sesion[r].orden.que = "QUITAR"
MCAcotado ==
  /\ Cardinality(Asignadas) + Len(cambios) + Cardinality(EnCurso) + Cardinality(borrados) <= 3
  /\ \A r \in EnCurso : Cardinality(Asignadas) <= 1 \/ Retira(r)
  /\ Len(cambios) + Cardinality(EnCurso) >= 2 /\ cambios # <<>>
       => /\ \A c \in Categorias : padre[c] = Raiz
          /\ \A c \in Asignadas : asig[c].ajuste.defecto = Sin
  /\ unidades # Unidades => EnCurso = {} /\ Len(cambios) <= 1 /\ (cambios = <<>> \/ Vivos = {})
  /\ cambios = <<>> /\ huella \cap Unidades # {} => EnCurso = {}

\* A remap may be in flight in all of them; of the other requests: over a unit, or once a
\* change is recorded, only those whose outcome depends most on it; over deleted products,
\* the two that deactivate values; with values waiting for a remap, none.
Orden(r, que) == sesion[r].que \in {"VISTA", "PRONOSTICO"} /\ sesion[r].orden.que \in que
Sensible(r) ==
  \/ sesion[r].que = "AJUSTE" \/ Orden(r, {"ANOTAR", "BAJA", "QUITAR"})
  \/ Orden(r, {"ASIGNAR", "CONFIGURAR"}) /\ sesion[r].orden.rellenar
  \/ Orden(r, {"RECATEGORIZAR"}) /\ sesion[r].orden.dato = Igual
MCEnCurso ==
  \A r \in EnCurso : sesion[r].que # "REMAPEO" =>
    /\ conversiones = 0 /\ Len(cambios) + Cardinality(borrados) <= 1
    /\ cambios # <<>> => Sensible(r)
    /\ borrados # {} => Orden(r, {"BAJA", "QUITAR"})
    /\ Existe /\ definicion.unidad # Sin => Orden(r, {"ANOTAR", "BAJA", "CREAR"})
MCSimetria == Permutations(Categorias)
MCSpec == AtrInit /\ [][AtrNext /\ (MCAcotado /\ MCEnCurso)']_atrVars
=============================================================================

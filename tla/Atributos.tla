------------------------------ MODULE Atributos ------------------------------
(***************************************************************************)
(* The life of an attribute: its definition and unit, the categories it is *)
(* assigned to, the values of the products, the remaps of the values that  *)
(* did not survive a conversion, and the snapshots that undo its changes.  *)
(*                                                                         *)
(* Attributes do not touch each other's rows: there is one here, and a     *)
(* request that another one makes fail is a request that is not made.      *)
(* Writers take the catalog lock and read after it, so each is an action,  *)
(* but for two: a remap is resolved with no lock at all, and the settings  *)
(* of an assignment are loaded before it.  What may surprise is previewed: *)
(* the preview shows what will happen and signs the state that it read,    *)
(* and the confirmation is carried out if the state is that one again.     *)
(* Units have no catalog lock: a unit is deactivated under the lock of its *)
(* row, which the attribute that takes it takes too.                       *)
(*                                                                         *)
(* Abstracted: the units of the system, which nobody changes, and what a   *)
(* unit says, which changes under the guard of its deactivation; the names *)
(* of the attributes in use, which are unique, so that the clean-up of a   *)
(* move that makes two of one name meet never runs.  The categories are    *)
(* all active, and those of one that gets a child over its products        *)
(* (Catalogo) go on inheriting the same.  The signature leaves out the     *)
(* times of the rows, so a state left and resumed is accepted.  A value is *)
(* a datum and the typed column it is in.                                  *)
(***************************************************************************)
EXTENDS Naturals, Sequences

CONSTANTS
  Categorias, Productos,
  Solicitudes,          \* requests that keep what they read
  Formas,              \* definitions: a type with its options and limits
  Columna,             \* of each form, the typed column it reads
  Columnas,
  Datos,
  Castea,              \* <<d, f>>: d can be written in the type of f
  Admite,              \* and is also among its options and within its limits
  Unidades, Numericas, \* units, and the forms that may have one
  Raiz, Nada, Sin,    \* no parent, no category or row, no default or unit
  Defectos,            \* the defaults in play
  Igual, Nulo,         \* an edition that does not send the value, that clears it
  MaxConversiones,     \* bound: conversions that leave remaps
  MaxHistoria          \* bound: snapshots not reverted

VARIABLES
  padre,         \* the hierarchy
  donde,         \* categoria_principal_id; Nada before the product is created
  borrados,      \* products deactivated
  definicion,    \* form, unit and activo; Nada before the attribute is created
  asig,          \* CategoriaAtributo of each category, Nada if there never was one
  valor,         \* ProductoAtributoValor of each product
  remapeo,       \* its last remap not reverted; n = 0 if none
  conversiones,
  cambios,       \* snapshots not reverted, the last one at the end
  huella,        \* what some snapshot, reverted or not, holds: units; Nada for values or defaults
  unidades,      \* those in use
  sesion

atrVars == <<padre, donde, borrados, definicion, asig, valor, remapeo, conversiones, cambios, huella, unidades, sesion>>

Jerarquia == INSTANCE Arbol WITH Nodos <- Categorias

Normal(f, u)  == u # Sin => f \in Numericas
Definiciones  == {d \in [forma : Formas, unidad : Unidades \cup {Sin}, activo : BOOLEAN] :
                    Normal(d.forma, d.unidad)}
Ajustes       == [obligatorio : BOOLEAN, defecto : Defectos]
Asignaciones  == [activo : BOOLEAN, ajuste : Ajustes]
Filas         == [activo : BOOLEAN, columna : Columnas, dato : Datos]

ASSUME AtributosSupuestos ==
  /\ Columna \in [Formas -> Columnas]
  /\ Admite \subseteq Castea /\ Castea \subseteq Datos \X Formas
  /\ Raiz \notin Categorias
  /\ Nada \notin Categorias \cup Definiciones \cup Asignaciones \cup Filas
  /\ {Sin, Igual, Nulo} \cap Datos = {} /\ Igual # Nulo
  /\ {Sin, Nada} \cap Unidades = {} /\ Numericas \subseteq Formas
  /\ Sin \in Defectos /\ Defectos \subseteq Datos \cup {Sin}
  /\ MaxConversiones \in Nat /\ MaxHistoria \in Nat

Remapeos      == {r \in [n : 0..MaxConversiones, activo : BOOLEAN] : r.activo => r.n # 0}
Fotos         == [definicion : Definiciones, asig : [Categorias -> Asignaciones \cup {Nada}],
                  valor : [Productos -> Filas \cup {Nada}], remapeo : [Productos -> Remapeos]]
Cambios       == [operacion : {"ACTUALIZAR", "ANOTAR", "BAJA"}, antes : Fotos, despues : Fotos]

\* What is previewed: settings that require a value or fill it, removals, a unit over
\* history, and a change of the category of a product.
Previstas == {o \in [que : {"ASIGNAR", "CONFIGURAR"}, categoria : Categorias, ajuste : Ajustes, rellenar : BOOLEAN] :
                o.ajuste.obligatorio \/ o.rellenar}
DeAsignar    == {o \in Previstas : o.que = "ASIGNAR"}
DeConfigurar == Previstas \ DeAsignar
DeCrear      == {o \in [que : {"CREAR"}, categoria : Categorias, ajuste : Ajustes, rellenar : BOOLEAN,
                        definicion : Definiciones] :
                   o.definicion.activo /\ (o.ajuste.obligatorio \/ o.rellenar)}
DeQuitar     == [que : {"QUITAR"}, categoria : Categorias]
DeBaja       == [que : {"BAJA"}]
DeAnotar     == [que : {"ANOTAR"}, unidad : Unidades]
DeMudar      == [que : {"RECATEGORIZAR"}, producto : Productos, categoria : Categorias,
                 dato : Datos \cup {Igual, Nulo}]
Ordenes      == Previstas \cup DeCrear \cup DeQuitar \cup DeBaja \cup DeAnotar \cup DeMudar

Sesiones == [que : {"REMAPEO"}, producto : Productos, n : 1..MaxConversiones, forma : Formas]
              \cup [que : {"AJUSTE"}, categoria : Categorias, copia : Ajustes]

AtrInit ==
  /\ padre = [c \in Categorias |-> Raiz]
  /\ donde = [x \in Productos |-> Nada]
  /\ borrados = {}
  /\ definicion = Nada
  /\ asig = [c \in Categorias |-> Nada]
  /\ valor = [x \in Productos |-> Nada]
  /\ remapeo = [x \in Productos |-> [n |-> 0, activo |-> FALSE]]
  /\ conversiones = 0
  /\ cambios = <<>> /\ huella = {}
  /\ unidades = Unidades
  /\ sesion = [t \in Solicitudes |-> Nada]

-----------------------------------------------------------------------------
(* Where the attribute applies, and what its values are worth *)

Vivos          == {x \in Productos : donde[x] # Nada} \ borrados
Hoja(c)        == \A d \in Categorias : padre[d] # c
ConAsignacion  == {c \in Categorias : asig[c] # Nada /\ asig[c].activo}

Existe         == definicion # Nada
Vigente        == Existe /\ definicion.activo

\* Of the assignments S, the one in force in c is the first one met on the way up.
AplicaCon(S, c)   == Vigente /\ S \cap Jerarquia!Ancestros(c, padre, Categorias) # {}
OrigenCon(S, c)   == Jerarquia!MasCercano(c, S, padre, Categorias)
RequiereCon(S, c) == AplicaCon(S, c) /\ asig[OrigenCon(S, c)].ajuste.obligatorio

AplicaEn(c)    == AplicaCon(ConAsignacion, c)
OrigenDe(c)    == OrigenCon(ConAsignacion, c)
RequiereEn(c)  == RequiereCon(ConAsignacion, c)
DefectoEn(c)   == asig[OrigenDe(c)].ajuste.defecto
Afectados(c)   == {x \in Vivos : AplicaEn(donde[x]) /\ OrigenDe(donde[x]) = c}

Fila(d, f)     == [activo |-> TRUE, columna |-> Columna[f], dato |-> d]
Activo(x)      == valor[x] # Nada /\ valor[x].activo

\* The completeness check takes the datum from whichever column holds it; the readers
\* and the conversions look only at the column of the type.
Valido(x)      == Activo(x) /\ <<valor[x].dato, definicion.forma>> \in Admite
Legible(x)     == Valido(x) /\ valor[x].columna = Columna[definicion.forma]
Pendientes     == {x \in Productos : remapeo[x].activo}

-----------------------------------------------------------------------------
(* The definition, its snapshots and their reversal *)

Foto == [definicion |-> definicion, asig |-> asig, valor |-> valor, remapeo |-> remapeo]

\* What makes a unit more than a word: values, remaps and defaults, now or in a snapshot.
Deja(foto) ==
  \/ \E x \in Productos : foto.valor[x] # Nada \/ foto.remapeo[x].n # 0
  \/ \E c \in Categorias : foto.asig[c] # Nada /\ foto.asig[c].ajuste.defecto # Sin

\* The unit of an attribute is locked and must be active whenever the attribute is written.
Disponible(u) == u \in unidades \cup {Sin}

ConHistoria == huella # {} \/ Deja(Foto)
UnidadCambiable(u) == u = definicion.unidad \/ ~ConHistoria

Fotografiar(operacion) ==
  /\ Len(cambios) < MaxHistoria
  /\ cambios' = Append(cambios, [operacion |-> operacion, antes |-> Foto, despues |-> Foto'])
  /\ huella' = huella \cup ({definicion.unidad, definicion'.unidad} \ {Sin})
                     \cup (IF Deja(Foto) \/ Deja(Foto') THEN {Nada} ELSE {})

Convertible(x, f) ==
  valor[x].columna = Columna[definicion.forma] /\ <<valor[x].dato, f>> \in Admite

Inconvertibles(f) == {x \in Productos : Activo(x) /\ ~Convertible(x, f)}

\* Faulty variant of ConvertirValores: what does not convert leaves no remap.
ConvertirSinRemapear(f) ==
  /\ valor' = [x \in Productos |->
                 IF Activo(x) /\ Convertible(x, f) THEN [valor[x] EXCEPT !.columna = Columna[f]] ELSE valor[x]]
  /\ UNCHANGED <<remapeo, conversiones>>

\* Values that convert move to the new column; the others stay and get a remap.
ConvertirValores(f) ==
  /\ valor' = [x \in Productos |->
                 IF Activo(x) /\ Convertible(x, f) THEN [valor[x] EXCEPT !.columna = Columna[f]] ELSE valor[x]]
  /\ IF Inconvertibles(f) = {}
     THEN UNCHANGED <<remapeo, conversiones>>
     ELSE /\ conversiones < MaxConversiones
          /\ conversiones' = conversiones + 1
          /\ remapeo' = [x \in Productos |->
                           IF x \in Inconvertibles(f) THEN [n |-> conversiones + 1, activo |-> TRUE]
                           ELSE remapeo[x]]

ExigidaEn == {c \in ConAsignacion : asig[c].ajuste.obligatorio}

\* A conversion is refused over pending remaps, and where a required value would be
\* lost; a change of unit, over any history.
Actualizar(f, u) ==
  /\ Vigente
  /\ <<f, u>> # <<definicion.forma, definicion.unidad>>
  /\ Normal(f, u) /\ Disponible(u)
  /\ UnidadCambiable(u)
  /\ IF f = definicion.forma
     THEN UNCHANGED <<valor, remapeo, conversiones>>
     ELSE /\ Pendientes = {}
          /\ \A c \in ExigidaEn : Afectados(c) \cap Inconvertibles(f) = {}
          /\ ConvertirValores(f)
  /\ definicion' = [definicion EXCEPT !.forma = f, !.unidad = u]
  /\ UNCHANGED asig
  /\ Fotografiar(IF definicion.unidad = Sin /\ u # Sin THEN "ANOTAR" ELSE "ACTUALIZAR")
  /\ UNCHANGED <<padre, donde, borrados, sesion>>

\* The values are, from now on, in this unit.
Anotar(u) ==
  /\ Vigente /\ definicion.unidad = Sin /\ definicion.forma \in Numericas /\ Disponible(u)
  /\ definicion' = [definicion EXCEPT !.unidad = u]
  /\ UNCHANGED <<padre, donde, borrados, asig, valor, remapeo, conversiones>>
  /\ Fotografiar("ANOTAR")

\* Deactivation: the attribute, its assignments and its values.
DarDeBaja ==
  /\ Vigente
  /\ Pendientes = {}
  /\ definicion' = [definicion EXCEPT !.activo = FALSE]
  /\ asig' = [c \in Categorias |->
                IF asig[c] = Nada THEN Nada ELSE [asig[c] EXCEPT !.activo = FALSE]]
  /\ valor' = [x \in Productos |->
                 IF valor[x] = Nada THEN Nada ELSE [valor[x] EXCEPT !.activo = FALSE]]
  /\ UNCHANGED remapeo
  /\ Fotografiar("BAJA")
  /\ UNCHANGED <<padre, donde, borrados, conversiones>>

Ultima  == cambios[Len(cambios)]
Intacta == cambios # <<>> /\ Foto = Ultima.despues

Restaurar(foto) ==
  /\ definicion' = foto.definicion
  /\ asig' = foto.asig
  /\ valor' = foto.valor
  /\ remapeo' = foto.remapeo

\* Undo, and reactivation, which is the undo of a deactivation.
Revertir ==
  /\ Intacta
  /\ Restaurar(Ultima.antes)
  /\ cambios' = SubSeq(cambios, 1, Len(cambios) - 1)
  /\ UNCHANGED <<padre, donde, borrados, conversiones, huella, sesion>>

-----------------------------------------------------------------------------
(* Units *)

\* Faulty variant of EnUso: only the definition is looked at.
EnUsoAhora(u) == Existe /\ definicion.unidad = u

\* Some attribute has it, active or not, or some snapshot, reverted or not.
EnUso(u) == (Existe /\ definicion.unidad = u) \/ u \in huella

DesactivarUnidad(u) ==
  /\ u \in unidades /\ ~EnUso(u)
  /\ unidades' = unidades \ {u}
  /\ UNCHANGED <<padre, donde, borrados, definicion, asig, valor, remapeo, conversiones, cambios, huella, sesion>>

ReactivarUnidad(u) ==
  /\ u \notin unidades
  /\ unidades' = unidades \cup {u}
  /\ UNCHANGED <<padre, donde, borrados, definicion, asig, valor, remapeo, conversiones, cambios, huella, sesion>>

-----------------------------------------------------------------------------
(* Assignments *)

\* Backfill: products with no row get the default; an inactive row that would be valid
\* comes back as it is, in the column it was in; active ones are left alone.
Rellenado(c, d, f) ==
  [x \in Productos |->
     IF x \notin Afectados(c)' THEN valor[x]
     ELSE IF valor[x] = Nada THEN Fila(d, f)
     ELSE IF <<valor[x].dato, f>> \in Admite THEN [valor[x] EXCEPT !.activo = TRUE]
     ELSE valor[x]]

\* Leaves the assignment of c active with these settings.
Ajustar(c, ajuste, rellenar, f) ==
  /\ UNCHANGED <<padre, donde, borrados, remapeo, conversiones, cambios, huella>>
  /\ asig' = [asig EXCEPT ![c] = [activo |-> TRUE, ajuste |-> ajuste]]
  /\ IF rellenar
     THEN /\ <<ajuste.defecto, f>> \in Castea
          /\ valor' = Rellenado(c, ajuste.defecto, f)
     ELSE UNCHANGED valor
  /\ ajuste.obligatorio => \A x \in Afectados(c)' : Valido(x)'

\* A default is checked against the definition when it is sent, not when it is kept.
DefectoEnviado(c, ajuste) ==
  \/ ajuste.defecto = Sin
  \/ <<ajuste.defecto, definicion.forma>> \in Admite
  \/ asig[c] # Nada /\ ajuste.defecto = asig[c].ajuste.defecto

Alta(d) == ~Existe /\ d.activo /\ Disponible(d.unidad) /\ definicion' = d

\* The attribute and its first assignment, in one transaction.
CrearAtributo(d, c, ajuste, rellenar) ==
  /\ Alta(d)
  /\ ajuste.defecto = Sin \/ <<ajuste.defecto, d.forma>> \in Admite
  /\ Ajustar(c, ajuste, rellenar, d.forma)

\* Faulty variant of Asignar: the attribute may be inactive.
AsignarSiempre(c, ajuste, rellenar) ==
  /\ Existe
  /\ c \notin ConAsignacion
  /\ DefectoEnviado(c, ajuste)
  /\ UNCHANGED definicion
  /\ Ajustar(c, ajuste, rellenar, definicion.forma)

\* A new assignment, or the inactive one again.
Asignar(c, ajuste, rellenar) ==
  /\ Vigente
  /\ c \notin ConAsignacion
  /\ DefectoEnviado(c, ajuste)
  /\ UNCHANGED definicion
  /\ Ajustar(c, ajuste, rellenar, definicion.forma)

Configurar(c, ajuste, rellenar) ==
  /\ c \in ConAsignacion
  /\ DefectoEnviado(c, ajuste)
  /\ UNCHANGED definicion
  /\ Ajustar(c, ajuste, rellenar, definicion.forma)

\* Without the assignment of c another one, higher up, may come into force.
Restantes(c)     == ConAsignacion \ {c}
Desactivables(c) == {x \in Afectados(c) : Activo(x) /\ ~AplicaCon(Restantes(c), donde[x])}

\* Faulty variant of Quitar: nobody looks at what is left without a required value.
QuitarSinComprobar(c) ==
  /\ c \in ConAsignacion
  /\ Afectados(c) \cap Pendientes = {}
  /\ asig' = [asig EXCEPT ![c].activo = FALSE]
  /\ valor' = [x \in Productos |->
                 IF x \in Desactivables(c) THEN [valor[x] EXCEPT !.activo = FALSE] ELSE valor[x]]
  /\ UNCHANGED <<padre, donde, borrados, definicion, remapeo, conversiones, cambios, huella>>

Quitar(c) ==
  /\ c \in ConAsignacion
  /\ Afectados(c) \cap Pendientes = {}
  /\ \A x \in Afectados(c) : RequiereCon(Restantes(c), donde[x]) => Valido(x)
  /\ asig' = [asig EXCEPT ![c].activo = FALSE]
  /\ valor' = [x \in Productos |->
                 IF x \in Desactivables(c) THEN [valor[x] EXCEPT !.activo = FALSE] ELSE valor[x]]
  /\ UNCHANGED <<padre, donde, borrados, definicion, remapeo, conversiones, cambios, huella>>

\* Settings that need no confirmation: the route loads the row before the lock, and
\* only the columns that differ from that copy are written, whatever the row is by then.
LeerAjuste(t, c) ==
  /\ sesion[t] = Nada /\ c \in ConAsignacion
  /\ sesion' = [sesion EXCEPT ![t] = [que |-> "AJUSTE", categoria |-> c, copia |-> asig[c].ajuste]]
  /\ UNCHANGED <<padre, donde, borrados, definicion, asig, valor, remapeo, conversiones, cambios, huella>>

EscribirAjuste(t, obligatorio, defecto) ==
  /\ sesion[t] # Nada /\ sesion[t].que = "AJUSTE"
  /\ LET c == sesion[t].categoria
         copia == sesion[t].copia
     IN /\ obligatorio => copia.obligatorio
        /\ defecto \in {Sin, copia.defecto} \/ <<defecto, definicion.forma>> \in Admite
        /\ obligatorio => \A x \in Afectados(c) : Valido(x)
        /\ asig' = [asig EXCEPT ![c].ajuste =
                      [obligatorio |-> IF obligatorio = copia.obligatorio THEN @.obligatorio ELSE obligatorio,
                       defecto |-> IF defecto = copia.defecto THEN @.defecto ELSE defecto]]
  /\ sesion' = [sesion EXCEPT ![t] = Nada]
  /\ UNCHANGED <<padre, donde, borrados, definicion, valor, remapeo, conversiones, cambios, huella>>

-----------------------------------------------------------------------------
(* Remaps, resolved without the lock *)

LeerRemapeo(t, x) ==
  /\ sesion[t] = Nada
  /\ x \in Pendientes \cap Vivos
  /\ AplicaEn(donde[x])
  /\ sesion' = [sesion EXCEPT ![t] =
                  [que |-> "REMAPEO", producto |-> x, n |-> remapeo[x].n, forma |-> definicion.forma]]
  /\ UNCHANGED <<padre, donde, borrados, definicion, asig, valor, remapeo, conversiones, cambios, huella>>

\* It checks the datum against the definition it loaded, and writes.
ResolverRemapeo(t, d) ==
  /\ sesion[t] # Nada /\ sesion[t].que = "REMAPEO"
  /\ <<d, sesion[t].forma>> \in Admite
  /\ LET x == sesion[t].producto
     IN /\ valor' = [valor EXCEPT ![x] = [activo |-> TRUE, columna |-> Columna[sesion[t].forma], dato |-> d]]
        /\ remapeo' = [remapeo EXCEPT ![x].activo = @ /\ remapeo[x].n # sesion[t].n]
  /\ sesion' = [sesion EXCEPT ![t] = Nada]
  /\ UNCHANGED <<padre, donde, borrados, definicion, asig, conversiones, cambios, huella>>

Abandonar(t) ==
  /\ sesion[t] # Nada
  /\ sesion' = [sesion EXCEPT ![t] = Nada]
  /\ UNCHANGED <<padre, donde, borrados, definicion, asig, valor, remapeo, conversiones, cambios, huella>>

-----------------------------------------------------------------------------
(* Products and the hierarchy *)

\* The default that fills a required value that was not sent.
DefectoSirve(c) == <<DefectoEn(c), definicion.forma>> \in Admite

CrearProducto(x, c, v) ==
  /\ donde[x] = Nada /\ Hoja(c)
  /\ v # Igual => AplicaEn(c) /\ <<v, definicion.forma>> \in Admite
  /\ v = Igual /\ RequiereEn(c) => DefectoSirve(c)
  /\ donde' = [donde EXCEPT ![x] = c]
  /\ valor' = [valor EXCEPT ![x] =
                 IF v # Igual THEN Fila(v, definicion.forma)
                 ELSE IF RequiereEn(c) THEN Fila(DefectoEn(c), definicion.forma) ELSE @]
  /\ UNCHANGED <<padre, borrados, definicion, asig, remapeo, conversiones, cambios, huella, sesion>>

\* update_integral in the same category: what is sent is checked, what is not stays.
EditarProducto(x, v) ==
  /\ x \in Vivos /\ Hoja(donde[x])
  /\ v # Igual => AplicaEn(donde[x])
  /\ v = Nulo => ~RequiereEn(donde[x])
  /\ v \in Datos => <<v, definicion.forma>> \in Admite
  /\ v = Igual /\ ~Activo(x) /\ RequiereEn(donde[x]) => DefectoSirve(donde[x])
  /\ valor' = [valor EXCEPT ![x] =
                 IF v \in Datos THEN Fila(v, definicion.forma)
                 ELSE IF v = Nulo /\ Activo(x) THEN [@ EXCEPT !.activo = FALSE]
                 ELSE IF v = Igual /\ ~Activo(x) /\ RequiereEn(donde[x])
                 THEN Fila(DefectoEn(donde[x]), definicion.forma)
                 ELSE @]
  /\ UNCHANGED <<padre, donde, borrados, definicion, asig, remapeo, conversiones, cambios, huella, sesion>>

\* What becomes of the value of x in the category c, if v is sent.
Suerte(x, c, v) ==
  CASE ~AplicaEn(c)                    -> IF Activo(x) THEN "DESACTIVA" ELSE "NADA"
    [] AplicaEn(c) /\ v = Nulo         -> IF RequiereEn(c) THEN "FALTA"
                                          ELSE IF Activo(x) THEN "DESACTIVA" ELSE "NADA"
    [] AplicaEn(c) /\ v \in Datos      -> IF <<v, definicion.forma>> \notin Admite THEN "INCOMPATIBLE"
                                          ELSE IF Activo(x) THEN "CONSERVA" ELSE "NADA"
    [] AplicaEn(c) /\ v = Igual /\ Activo(x)  -> IF Legible(x) THEN "CONSERVA" ELSE "INCOMPATIBLE"
    [] AplicaEn(c) /\ v = Igual /\ ~Activo(x) -> IF ~RequiereEn(c) THEN "NADA"
                                          ELSE IF DefectoSirve(c) THEN "DEFECTO" ELSE "FALTA"

\* update_integral in another category, which is always previewed.
Recategorizar(x, c, v) ==
  /\ x \in Vivos /\ Hoja(c) /\ c # donde[x]
  /\ v # Igual => AplicaEn(c)
  /\ Suerte(x, c, v) \notin {"FALTA", "INCOMPATIBLE"}
  /\ donde' = [donde EXCEPT ![x] = c]
  /\ valor' = [valor EXCEPT ![x] =
                 IF v \in Datos THEN Fila(v, definicion.forma)
                 ELSE IF Suerte(x, c, v) = "DEFECTO" THEN Fila(DefectoEn(c), definicion.forma)
                 ELSE IF Suerte(x, c, v) = "DESACTIVA" THEN [@ EXCEPT !.activo = FALSE]
                 ELSE @]
  /\ UNCHANGED <<padre, borrados, definicion, asig, remapeo, conversiones, cambios, huella>>

\* The value is deactivated; the remap is not looked at.
BorrarProducto(x) ==
  /\ x \in Vivos
  /\ borrados' = borrados \cup {x}
  /\ valor' = [valor EXCEPT ![x] = IF @ = Nada THEN Nada ELSE [@ EXCEPT !.activo = FALSE]]
  /\ UNCHANGED <<padre, donde, definicion, asig, remapeo, conversiones, cambios, huella, sesion>>

\* A category changes its parent: the values of the products below are not looked at.
MoverCategoria(c, p) ==
  /\ p # padre[c]
  /\ p \notin Jerarquia!Descendientes(c, padre, Categorias)
  /\ \A x \in Vivos : donde[x] # p
  /\ padre' = [padre EXCEPT ![c] = p]
  /\ UNCHANGED <<donde, borrados, definicion, asig, valor, remapeo, conversiones, cambios, huella, sesion>>

-----------------------------------------------------------------------------
(* Previews and their confirmation *)

Ancestros(c) == Jerarquia!Ancestros(c, padre, Categorias)
Rama(c)      == Jerarquia!Descendientes(c, padre, Categorias)

\* Products that would get their settings from an assignment in c that there is not yet.
Alcanzables(c) ==
  {x \in Vivos : /\ donde[x] \in Rama(c)
                 /\ AplicaEn(donde[x]) => OrigenDe(donde[x]) \in Ancestros(c) \ {c}}

Alcance(o) == IF o.que = "CONFIGURAR" THEN Afectados(o.categoria) ELSE Alcanzables(o.categoria)
Faltos(productos) == {x \in productos : ~Valido(x)}

Prevision(o) ==
  LET suerte == Suerte(o.producto, o.categoria, o.dato)
  IN [suerte |-> suerte,
      dato |-> IF suerte = "DEFECTO" THEN DefectoEn(o.categoria)
               ELSE IF suerte # "CONSERVA" THEN Sin
               ELSE IF o.dato \in Datos THEN o.dato ELSE valor[o.producto].dato]

\* The settings in force in these categories, if the assignments were S.
Efectivas(categorias, S) ==
  {<<d, OrigenCon(S, d), asig[OrigenCon(S, d)].ajuste>> : d \in {e \in categorias : AplicaCon(S, e)}}

Impacto(c, afectados) ==
  [definicion |-> definicion, efectivas |-> Efectivas(Rama(c), ConAsignacion),
   productos |-> {<<x, donde[x]>> : x \in {y \in Vivos : donde[y] \in Rama(c)}},
   afectados |-> afectados, valores |-> [x \in afectados |-> valor[x]]]

\* Of a category, the way up and whether it still is a leaf.
Cadena(c) == {<<d, padre[d], Hoja(d)>> : d \in Ancestros(c)}

FirmaRetiro(c, afectados) ==
  <<Impacto(c, afectados), Pendientes \cap afectados, Efectivas({donde[x] : x \in afectados}, Restantes(c))>>

FirmaAnotacion == <<Foto, cambios>>

FirmaProducto(x, ambas) ==
  <<definicion, x \in Vivos, donde[x], {Cadena(c) : c \in ambas}, Efectivas(ambas, ConAsignacion), valor[x]>>

\* Faulty variant of Firma: the values are not signed.
FirmaSinValores(o) ==
  CASE o \in Previstas \cup DeCrear -> <<definicion, Alcance(o)>>
    [] o \in DeQuitar              -> <<definicion, asig, Afectados(o.categoria)>>
    [] o \in DeBaja \cup DeAnotar   -> <<definicion, asig, remapeo>>
    [] o \in DeMudar               -> <<definicion, asig, donde[o.producto]>>

\* What a preview signs.
Firma(o) ==
  CASE o \in Previstas \cup DeCrear -> Impacto(o.categoria, Alcance(o))
    [] o \in DeQuitar              -> FirmaRetiro(o.categoria, Afectados(o.categoria))
    [] o \in DeBaja                -> Foto
    [] o \in DeAnotar              -> FirmaAnotacion
    [] o \in DeMudar               -> FirmaProducto(o.producto, {donde[o.producto], o.categoria})

Emitir(t, o, mostrado, entera) ==
  /\ sesion' = [sesion EXCEPT ![t] = [que |-> "VISTA", orden |-> o, mostrado |-> mostrado,
                                     firma |-> Firma(o), entera |-> entera]]
  /\ UNCHANGED <<padre, donde, borrados, definicion, asig, valor, remapeo, conversiones, cambios, huella>>

\* The one time that the token of t is good for: the state that it signed.
Verificar(t, o) ==
  /\ sesion[t] # Nada /\ sesion[t].que = "VISTA"
  /\ sesion[t].orden = o /\ sesion[t].firma = Firma(o)
  /\ sesion' = [sesion EXCEPT ![t] = Nada]

PrevisualizarAsignacion(t, o) ==
  /\ sesion[t] = Nada /\ Existe /\ o.categoria \notin ConAsignacion
  /\ Emitir(t, o, [afectados |-> Alcance(o), faltan |-> Faltos(Alcance(o))], TRUE)

ConfirmarAsignacion(t, o) == Verificar(t, o) /\ Asignar(o.categoria, o.ajuste, o.rellenar)

PrevisualizarConfiguracion(t, o) ==
  /\ sesion[t] = Nada /\ o.categoria \in ConAsignacion
  /\ Emitir(t, o, [afectados |-> Alcance(o), faltan |-> Faltos(Alcance(o))], TRUE)

ConfirmarConfiguracion(t, o) == Verificar(t, o) /\ Configurar(o.categoria, o.ajuste, o.rellenar)

PrevisualizarCreacion(t, o) ==
  /\ sesion[t] = Nada /\ ~Existe
  /\ Emitir(t, o, [afectados |-> Alcance(o), faltan |-> Alcance(o)], TRUE)

ConfirmarCreacion(t, o) ==
  Verificar(t, o) /\ CrearAtributo(o.definicion, o.categoria, o.ajuste, o.rellenar)

PrevisualizarRetiro(t, o) ==
  /\ sesion[t] = Nada /\ o.categoria \in ConAsignacion
  /\ LET quitados == Desactivables(o.categoria)
     IN Emitir(t, o, [desactivados |-> quitados,
                      conservados |-> {x \in Afectados(o.categoria) : Activo(x)} \ quitados], TRUE)

ConfirmarRetiro(t, o) == Verificar(t, o) /\ Quitar(o.categoria)

PrevisualizarBaja(t, o) ==
  /\ sesion[t] = Nada /\ Vigente
  /\ Emitir(t, o, [desactivados |-> {x \in Productos : Activo(x)}, asignaciones |-> ConAsignacion], TRUE)

ConfirmarBaja(t, o) == Verificar(t, o) /\ DarDeBaja

\* Where there is no history there is nothing to confirm.
PrevisualizarAnotacion(t, o) ==
  /\ sesion[t] = Nada /\ Vigente /\ ConHistoria
  /\ definicion.unidad = Sin /\ Normal(definicion.forma, o.unidad) /\ Disponible(o.unidad)
  /\ Emitir(t, o, [desactivados |-> {}], TRUE)

ConfirmarAnotacion(t, o) == Verificar(t, o) /\ Anotar(o.unidad)

\* The preview of a product reads the state once to show it and once more to sign it.
Pronosticar(t, o) ==
  /\ sesion[t] = Nada
  /\ o.producto \in Vivos /\ Hoja(o.categoria) /\ o.categoria # donde[o.producto]
  /\ o.dato # Igual => AplicaEn(o.categoria)
  /\ sesion' = [sesion EXCEPT ![t] = [que |-> "PRONOSTICO", orden |-> o, mostrado |-> Prevision(o)]]
  /\ UNCHANGED <<padre, donde, borrados, definicion, asig, valor, remapeo, conversiones, cambios, huella>>

\* "entera" remembers whether what it showed still was what it signed.
FirmarPronostico(t, o) ==
  /\ sesion[t] # Nada /\ sesion[t].que = "PRONOSTICO" /\ sesion[t].orden = o
  /\ Emitir(t, o, sesion[t].mostrado, Prevision(o) = sesion[t].mostrado)

ConfirmarPronostico(t, o) == Verificar(t, o) /\ Recategorizar(o.producto, o.categoria, o.dato)

-----------------------------------------------------------------------------
\* Settings that neither require nor fill anything are not confirmed.
SinConfirmar == [obligatorio : {FALSE}, defecto : Defectos]

SobreElAtributo ==
  \/ \E f \in Formas, u \in Unidades \cup {Sin} : Actualizar(f, u)
  \/ Revertir
  \/ \E c \in Categorias, ajuste \in SinConfirmar :
       /\ \/ \E d \in Definiciones : CrearAtributo(d, c, ajuste, FALSE)
          \/ Asignar(c, ajuste, FALSE)
       /\ UNCHANGED sesion
  \/ \E t \in Solicitudes :
       \/ \E o \in DeAsignar : PrevisualizarAsignacion(t, o) \/ ConfirmarAsignacion(t, o)
       \/ \E o \in DeConfigurar : PrevisualizarConfiguracion(t, o) \/ ConfirmarConfiguracion(t, o)
       \/ \E o \in DeCrear : PrevisualizarCreacion(t, o) \/ ConfirmarCreacion(t, o)
       \/ \E o \in DeQuitar : PrevisualizarRetiro(t, o) \/ ConfirmarRetiro(t, o)
       \/ \E o \in DeBaja : PrevisualizarBaja(t, o) \/ ConfirmarBaja(t, o)
       \/ \E o \in DeAnotar : PrevisualizarAnotacion(t, o) \/ ConfirmarAnotacion(t, o)
       \/ \E o \in DeMudar : Pronosticar(t, o) \/ FirmarPronostico(t, o) \/ ConfirmarPronostico(t, o)
       \/ \E c \in Categorias : LeerAjuste(t, c)
       \/ \E obligatorio \in BOOLEAN, defecto \in Defectos : EscribirAjuste(t, obligatorio, defecto)
       \/ \E x \in Productos : LeerRemapeo(t, x)
       \/ \E d \in Datos : ResolverRemapeo(t, d)
       \/ Abandonar(t)
  \/ \E x \in Productos :
       \/ \E c \in Categorias, v \in Datos \cup {Igual} : CrearProducto(x, c, v)
       \/ \E v \in Datos \cup {Igual, Nulo} : EditarProducto(x, v)
       \/ BorrarProducto(x)
  \/ \E c \in Categorias, p \in Categorias \cup {Raiz} : MoverCategoria(c, p)

AtrNext ==
  \/ SobreElAtributo /\ UNCHANGED unidades
  \/ \E u \in Unidades : DesactivarUnidad(u) \/ ReactivarUnidad(u)

AtrSpec == AtrInit /\ [][AtrNext]_atrVars

-----------------------------------------------------------------------------
(* What an attribute promises *)

AtrTypeOK ==
  /\ padre \in [Categorias -> Categorias \cup {Raiz}]
  /\ donde \in [Productos -> Categorias \cup {Nada}]
  /\ borrados \in SUBSET Productos
  /\ definicion \in Definiciones \cup {Nada}
  /\ asig \in [Categorias -> Asignaciones \cup {Nada}]
  /\ valor \in [Productos -> Filas \cup {Nada}]
  /\ remapeo \in [Productos -> Remapeos]
  /\ conversiones \in 0..MaxConversiones
  /\ cambios \in Seq(Cambios) /\ Len(cambios) <= MaxHistoria
  /\ huella \subseteq Unidades \cup {Nada}
  /\ unidades \subseteq Unidades
  /\ \A t \in Solicitudes : sesion[t] # Nada =>
       IF sesion[t].que \in {"VISTA", "PRONOSTICO"} THEN sesion[t].orden \in Ordenes ELSE sesion[t] \in Sesiones

\* A request answers late when what it read is no longer so.
Tardia(t) ==
  /\ sesion[t] # Nada /\ sesion'[t] = Nada
  /\ \/ /\ sesion[t].que = "REMAPEO"
        /\ \/ sesion[t].producto \notin Pendientes \cap Vivos
           \/ remapeo[sesion[t].producto].n # sesion[t].n
           \/ definicion.forma # sesion[t].forma
           \/ ~AplicaEn(donde[sesion[t].producto])
     \/ /\ sesion[t].que = "AJUSTE"
        /\ asig[sesion[t].categoria] # [activo |-> TRUE, ajuste |-> sesion[t].copia]

AlguienTarde == \E t \in Solicitudes : Tardia(t)
Deshace      == Len(cambios') < Len(cambios)

\* A value in use stays readable or somebody is asked to remap it, through every
\* conversion, edition and assignment; undo and late answers are the exceptions.
Atendido(x) == Legible(x) \/ remapeo[x].activo
SinValoresPerdidos ==
  [][\A x \in Vivos : Activo(x) /\ Atendido(x) /\ ~Atendido(x)' /\ Activo(x)'
       => Deshace \/ AlguienTarde]_atrVars

\* A product comes to lack a required value, or to have in use one that does not apply,
\* only when its category is moved, when a change is undone, or after a late answer:
\* every other writer checks it.
Falta(x) == x \in Vivos /\ ~Valido(x) /\ RequiereEn(donde[x])
Sobra(x) == x \in Vivos /\ Vigente /\ Activo(x) /\ ~AplicaEn(donde[x])
SoloMoverDesajusta ==
  [][\A x \in Productos :
       padre' = padre /\ ~Deshace /\ ~AlguienTarde
         => (Falta(x)' => Falta(x)) /\ (Sobra(x)' => Sobra(x))]_atrVars

\* A deactivated attribute can be reactivated: nothing that is done meanwhile touches the
\* rows its snapshot will be compared with, but for late answers.
Reactivable == Intacta /\ Ultima.operacion = "BAJA"
BajaReversible ==
  [][Existe /\ ~definicion'.activo /\ (definicion.activo \/ Reactivable) => Reactivable' \/ AlguienTarde]_atrVars

\* An attribute, active or not, has a unit in use, and so does every state that its
\* snapshots may bring back: a unit is not deactivated under a history.
UnidadDisponible ==
  /\ Existe => Disponible(definicion.unidad)
  /\ \A i \in DOMAIN cambios : Disponible(cambios[i].antes.definicion.unidad)

\* A value written in one unit is never read in another, nor in one no longer in use: over
\* values, the unit changes only from none, or back to none by the undo that finds every
\* value as it was.
UnidadSegura ==
  [][/\ UnidadDisponible'
     /\ Existe /\ (\E x \in Productos : valor[x] # Nada) /\ definicion'.unidad # definicion.unidad
          => definicion.unidad = Sin \/ (Deshace /\ valor = Ultima.despues.valor)]_atrVars

Confirmada(t) ==
  /\ sesion[t] # Nada /\ sesion[t].que = "VISTA" /\ sesion'[t] = Nada
  /\ <<donde, definicion, asig, valor>>' # <<donde, definicion, asig, valor>>

Cambiados == {x \in Productos : valor'[x] # valor[x]}

\* What the preview m told of the order o is what this step does.
HizoLoVisto(o, m) ==
  CASE o \in Previstas \cup DeCrear -> Cambiados \subseteq m.faltan /\ Afectados(o.categoria)' = m.afectados
    [] o \in DeQuitar              -> /\ Cambiados = m.desactivados
                                      /\ \A x \in m.conservados : AplicaEn(donde[x])'
    [] o \in DeBaja                -> /\ Cambiados = m.desactivados
                                      /\ {c \in Categorias : asig'[c] # asig[c]} = m.asignaciones
    [] o \in DeAnotar              -> Cambiados = m.desactivados
    [] o \in DeMudar               ->
         LET x == o.producto
         IN /\ Cambiados \subseteq {x}
            /\ m.suerte = "DESACTIVA" => ~Activo(x)'
            /\ m.suerte \in {"CONSERVA", "DEFECTO"} => Activo(x)' /\ valor'[x].dato = m.dato
            /\ m.suerte = "NADA" => valor'[x] = valor[x] \/ o.dato \in Datos

\* What is confirmed is what was shown: whatever happened between, the values that change
\* and the products that get the settings are those that the preview told.
LoVistoEsLoHecho ==
  [][\A t \in Solicitudes :
       Confirmada(t) /\ sesion[t].entera
         => \A o \in {sesion[t].orden}, m \in {sesion[t].mostrado} : HizoLoVisto(o, m)]_atrVars
==============================================================================

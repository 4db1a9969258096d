-------------------------- MODULE TributosPruebas --------------------------
(***************************************************************************)
(* What Tributos guarantees for all products, taxes, measures and          *)
(* concurrent requests.                                                    *)
(***************************************************************************)
EXTENDS Tributos, FiniteSetTheorems, TLAPS

-----------------------------------------------------------------------------
(* The inductive invariant *)

DeFilas  == {"ASIGNA", "PERFIL"}
DeVenta  == {"VENTA", "VIGENTES"}
\* The changes that have locked their row, and those that have locked the company too.
ConFila    == {"CAMBIA", "EMPRESA", "COMPARADA"}
ConEmpresa == {"EMPRESA", "COMPARADA"}

\* Of each class one tax at most.
UnoPorClase(ts) == \A t, u \in ts : t.clase = u.clase => t = u

Sana(m) == m \notin rancias /\ medida[m] # Nada /\ medida[m].estado = "ACTIVA"

\* The active measures that r has compared itself with are still those it would meet.
SinChoque(r) ==
  \A m \in Medidas \ {peticion[r].medida} :
    Sana(m) /\ Coinciden(medida[m].datos, peticion[r].copia.datos) =>
      medida[m].datos.productos \cap Alcance(r) = {}

\* What r knows of the rows it has read.
PeticionBien(r) ==
  /\ En(r, DeFilas) =>
       (peticion[r].vistas \cap IVAs # {} => peticion[r].impuestos \cap IVAs # {})
  /\ En(r, DeVenta) => UnoPorClase(peticion[r].tributos)
  /\ En(r, Cambios) =>
       /\ medida[peticion[r].medida] # Nada
       /\ peticion[r].estado = "EDITA" => peticion[r].nuevos \in Datos
  /\ En(r, ConFila) => /\ peticion[r].medida \in peticion[r].cerrojos
                       /\ \A m \in peticion[r].cerrojos : medida[m] # Nada
                       /\ peticion[r].copia.datos.confirmada
  /\ En(r, {"COMPARADA"}) => SinChoque(r)

\* No row has two holders, nor has the company.
CerrojosBien ==
  \A r, q \in Peticiones : r # q =>
    /\ En(r, Cambios) /\ En(q, Cambios) => peticion[r].cerrojos \cap peticion[q].cerrojos = {}
    /\ ~(En(r, ConEmpresa) /\ En(q, ConEmpresa))

Inv ==
  /\ TypeOK
  /\ \A r \in Peticiones : PeticionBien(r)
  /\ CerrojosBien
  /\ UnTributoPorClase
  /\ ActivasSanas

-----------------------------------------------------------------------------
(* Lemmas *)

\* A set without two elements has at most one.
LEMMA UnoOCero ==
  ASSUME NEW S, \A x, y \in S : x = y
  PROVE  Cardinality(S) \in {0, 1}
<1>1. CASE S = {}
  BY <1>1, FS_EmptySet
<1>2. CASE S # {}
  <2>1. PICK x \in S : S = {x}
    BY <1>2
  <2> QED BY <2>1, FS_Singleton
<1> QED BY <1>1, <1>2

\* What a request does tells what it keeps.
LEMMA FormaPeticion ==
  ASSUME TypeOK, NEW r \in Peticiones
  PROVE  /\ En(r, DeFilas) => peticion[r] \in FilasPedidas
         /\ En(r, Cambios) => peticion[r] \in CambiosPedidos
         /\ En(r, DeVenta) => peticion[r] \in VentasPedidas
BY DEF TypeOK, Peticion, En, DeFilas, DeVenta, Cambios, FilasPedidas, CambiosPedidos, VentasPedidas

\* The three kinds of request are apart, and the locks belong to the changes.
LEMMA ClasesDePeticion ==
  /\ Cambios \cap DeFilas = {} /\ Cambios \cap DeVenta = {} /\ DeFilas \cap DeVenta = {}
  /\ ConFila \subseteq Cambios /\ ConEmpresa \subseteq ConFila
BY DEF Cambios, DeFilas, DeVenta, ConFila, ConEmpresa

\* The initial state is consistent.
LEMMA InicioBien == Init => Inv
BY TributosSupuestos
   DEF Init, Inv, TypeOK, PeticionBien, En, CerrojosBien, UnTributoPorClase, ActivasSanas, Impuestos

\* What a request knows stays true while nobody else writes the rows it has locked and no
\* other measure becomes active.
LEMMA SigueBien ==
  ASSUME Inv, NEW q \in Peticiones, peticion'[q] = peticion[q],
         \A m \in Medidas : medida[m] # Nada => medida'[m] # Nada,
         En(q, ConFila) => \A m \in peticion[q].cerrojos : medida'[m] = medida[m],
         En(q, {"COMPARADA"}) => \A m \in Medidas : m # peticion[q].medida /\ Sana(m)' =>
           Sana(m) /\ medida'[m] = medida[m]
  PROVE  PeticionBien(q)'
<1>1. PeticionBien(q) /\ TypeOK
  BY DEF Inv
<1>2. \A S : En(q, S)' = En(q, S)
  BY DEF En
<1>3. En(q, Cambios) => peticion[q].medida \in Medidas
  BY <1>1, FormaPeticion DEF CambiosPedidos
<1>4. ASSUME En(q, {"COMPARADA"}) PROVE SinChoque(q)'
  <2>1. En(q, ConFila) /\ En(q, Cambios)
    BY <1>4 DEF En, ConFila, Cambios
  <2>2. SinChoque(q) /\ peticion[q].medida \in peticion[q].cerrojos
    BY <1>1, <1>4, <2>1 DEF PeticionBien
  <2>3. Alcance(q)' = Alcance(q)
    BY <2>1, <2>2 DEF Alcance
  <2> QED BY <1>4, <2>2, <2>3 DEF SinChoque
<1> QED BY <1>1, <1>2, <1>3, <1>4 DEF PeticionBien

\* Where neither measures nor what was written from an old copy change, a request that
\* stays as it was knows what it knew.
LEMMA SigueQuieta ==
  ASSUME Inv, NEW q \in Peticiones, peticion'[q] = peticion[q], UNCHANGED <<medida, rancias>>
  PROVE  PeticionBien(q)'
<1>1. \A m \in Medidas : Sana(m)' = Sana(m)
  BY DEF Sana
<1> QED BY <1>1, SigueBien

\* A request at rest has nothing to keep.
LEMMA NadaBien == ASSUME NEW q, peticion'[q] = Nada PROVE PeticionBien(q)'
BY DEF PeticionBien, En

\* Requests that end or begin take no lock.
LEMMA CerrojosSiguen ==
  ASSUME Inv,
         \A q \in Peticiones : \/ peticion'[q] = peticion[q]
                               \/ ~En(q, Cambios)'
                               \/ En(q, {"LEE"})' /\ peticion'[q].cerrojos = {}
  PROVE  CerrojosBien'
<1>1. CerrojosBien
  BY DEF Inv
<1>2. ASSUME NEW q \in Peticiones, En(q, ConEmpresa)' PROVE peticion'[q] = peticion[q] /\ En(q, ConEmpresa)
  BY <1>2 DEF En, ConEmpresa, Cambios
<1>3. ASSUME NEW q \in Peticiones, En(q, Cambios)'
      PROVE  \/ peticion'[q].cerrojos = {}
             \/ peticion'[q] = peticion[q] /\ En(q, Cambios)
  BY <1>3 DEF En
<1> QED BY <1>1, <1>2, <1>3 DEF CerrojosBien

\* Measures that do not change stay as sound as they were.
LEMMA SanasSiguen ==
  ASSUME Inv, UNCHANGED <<medida, rancias>>
  PROVE  ActivasSanas'
BY DEF Inv, ActivasSanas

\* The end of a request that changed no measure.
LEMMA SueltaBien ==
  ASSUME Inv, NEW r \in Peticiones, Suelta(r), UNCHANGED <<medida, rancias>>
  PROVE  /\ peticion' \in [Peticiones -> Peticion \cup {Nada}]
         /\ \A q \in Peticiones : PeticionBien(q)'
         /\ CerrojosBien' /\ ActivasSanas'
<1>1. /\ peticion' \in [Peticiones -> Peticion \cup {Nada}]
      /\ peticion'[r] = Nada /\ \A q \in Peticiones \ {r} : peticion'[q] = peticion[q]
  BY DEF Inv, TypeOK, Suelta
<1>2. CerrojosBien'
  BY <1>1, CerrojosSiguen DEF En
<1> QED BY <1>1, <1>2, SigueQuieta, NadaBien, SanasSiguen

\* The beginning of a request that is well formed and knows what it has read.
LEMMA TomaBien ==
  ASSUME Inv, NEW r \in Peticiones, NEW p \in Peticion, Toma(r, p), UNCHANGED <<medida, rancias>>,
         p.que \in Cambios => p.que = "LEE" /\ p.cerrojos = {},
         PeticionBien(r)'
  PROVE  /\ peticion' \in [Peticiones -> Peticion \cup {Nada}]
         /\ \A q \in Peticiones : PeticionBien(q)'
         /\ CerrojosBien' /\ ActivasSanas'
<1>1. /\ peticion' \in [Peticiones -> Peticion \cup {Nada}]
      /\ peticion'[r] = p /\ \A q \in Peticiones \ {r} : peticion'[q] = peticion[q]
  BY DEF Inv, TypeOK, Toma
<1>2. CerrojosBien'
  BY <1>1, CerrojosSiguen DEF En
<1> QED BY <1>1, <1>2, SigueQuieta, SanasSiguen

-----------------------------------------------------------------------------
(* The company and the taxes of a product *)

\* The deletion of the company writes nothing that the others depend on.
LEMMA PasoEliminarEmpresa ==
  ASSUME Inv, EliminarEmpresa
  PROVE  Inv'
<1>1. UNCHANGED <<perfil, medida, venta, peticion, rancias>> /\ empresa' \in BOOLEAN
  BY DEF EliminarEmpresa
<1>2. TypeOK'
  BY <1>1 DEF Inv, TypeOK
<1>3. CerrojosBien'
  BY <1>1, CerrojosSiguen
<1> QED BY <1>1, <1>2, <1>3, SigueQuieta, SanasSiguen DEF Inv, UnTributoPorClase

\* An assignment replaces an IVA only by another.
LEMMA PasoPedirAsignacion ==
  ASSUME Inv, NEW r \in Peticiones, NEW p \in Productos, NEW i \in Impuestos, PedirAsignacion(r, p, i)
  PROVE  Inv'
<1> DEFINE n == [que |-> "ASIGNA", producto |-> p, impuestos |-> {i}, vistas |-> DelMismoTipo(p, i)]
<1>1. Toma(r, n) /\ UNCHANGED <<empresa, perfil, medida, venta, rancias>>
  BY DEF PedirAsignacion
<1>2. n \in Peticion
  BY DEF Inv, TypeOK, Peticion, FilasPedidas, DelMismoTipo
<1>3. n.vistas \cap IVAs # {} => n.impuestos \cap IVAs # {}
  BY DEF DelMismoTipo, Tipo
<1>4. n.que = "ASIGNA"
  OBVIOUS
<1> HIDE DEF n
<1>5. peticion'[r] = n
  BY <1>1 DEF Toma, Inv, TypeOK
<1>6. PeticionBien(r)'
  BY <1>3, <1>4, <1>5 DEF PeticionBien, En, DeFilas, DeVenta, Cambios, ConFila
<1>7. n.que \notin Cambios
  BY <1>4 DEF Cambios
<1> QED BY <1>1, <1>2, <1>6, <1>7, TomaBien DEF Inv, TypeOK, UnTributoPorClase

\* A valid profile brings an IVA.
LEMMA PerfilConIVA == ASSUME NEW s, PerfilValido(s) PROVE s \cap IVAs # {}
<1>1. Cardinality({}) = 0
  BY FS_EmptySet
<1> QED BY <1>1 DEF PerfilValido

\* A full profile may replace the IVA there was, since it brings one.
LEMMA PasoPedirPerfil ==
  ASSUME Inv, NEW r \in Peticiones, NEW p \in Productos, NEW s \in SUBSET Impuestos, PedirPerfil(r, p, s)
  PROVE  Inv'
<1> DEFINE n == [que |-> "PERFIL", producto |-> p, impuestos |-> s, vistas |-> perfil[p]]
<1>1. Toma(r, n) /\ UNCHANGED <<empresa, perfil, medida, venta, rancias>> /\ PerfilValido(s)
  BY DEF PedirPerfil
<1>2. n \in Peticion
  BY DEF Inv, TypeOK, Peticion, FilasPedidas
<1>3. n.impuestos \cap IVAs # {}
  BY <1>1, PerfilConIVA
<1>4. n.que = "PERFIL"
  OBVIOUS
<1> HIDE DEF n
<1>5. peticion'[r] = n
  BY <1>1 DEF Toma, Inv, TypeOK
<1>6. PeticionBien(r)'
  BY <1>3, <1>4, <1>5 DEF PeticionBien, En, DeFilas, DeVenta, Cambios, ConFila
<1>7. n.que \notin Cambios
  BY <1>4 DEF Cambios
<1> QED BY <1>1, <1>2, <1>6, <1>7, TomaBien DEF Inv, TypeOK, UnTributoPorClase

\* Whoever loses sight of a row replaces fewer.
LEMMA SueltaFilasBien ==
  ASSUME Inv, NEW r, NEW p, NEW salen, SueltaFilas(r, p, salen), UNCHANGED <<medida, rancias>>
  PROVE  /\ peticion' \in [Peticiones -> Peticion \cup {Nada}]
         /\ \A q \in Peticiones : PeticionBien(q)'
         /\ CerrojosBien' /\ ActivasSanas'
<1>1. ASSUME NEW q \in Peticiones
      PROVE  /\ peticion'[q] \in Peticion \cup {Nada} /\ PeticionBien(q)'
             /\ peticion'[q] = peticion[q] \/ ~En(q, Cambios)'
  <2>1. CASE peticion'[q] = Nada
    BY <2>1, NadaBien DEF En
  <2>2. CASE peticion'[q] = peticion[q]
    BY <2>2, SigueQuieta DEF Inv, TypeOK
  <2>3. CASE /\ peticion'[q] # Nada /\ peticion'[q] # peticion[q]
    <3>1. En(q, DeFilas) /\ peticion'[q] = [peticion[q] EXCEPT !.vistas = @ \ salen]
      BY <2>3 DEF SueltaFilas, DeFilas
    <3>2. peticion[q] \in FilasPedidas /\ PeticionBien(q)
      BY <3>1, FormaPeticion DEF Inv
    <3>3. /\ peticion'[q] \in FilasPedidas
          /\ peticion'[q].vistas \subseteq peticion[q].vistas
          /\ peticion'[q].impuestos = peticion[q].impuestos
      BY <3>1, <3>2 DEF FilasPedidas
    <3>4. peticion'[q].que \in DeFilas
      BY <3>3 DEF FilasPedidas, DeFilas
    <3>5. PeticionBien(q)' /\ ~En(q, Cambios)'
      BY <3>1, <3>2, <3>3, <3>4 DEF PeticionBien, En, DeFilas, DeVenta, Cambios, ConFila
    <3> QED BY <3>3, <3>5 DEF Peticion
  <2> QED BY <2>1, <2>2, <2>3
<1>2. peticion' \in [Peticiones -> Peticion \cup {Nada}]
  BY <1>1 DEF SueltaFilas
<1>3. CerrojosBien'
  BY <1>1, CerrojosSiguen
<1> QED BY <1>1, <1>2, <1>3, SanasSiguen

\* The rows are replaced.
LEMMA PasoEscribirFilas ==
  ASSUME Inv, NEW r \in Peticiones, EscribirFilas(r)
  PROVE  Inv'
<1>1. /\ En(r, DeFilas)
      /\ perfil' = [perfil EXCEPT ![peticion[r].producto] = (@ \ peticion[r].vistas) \cup peticion[r].impuestos]
      /\ SueltaFilas(r, peticion[r].producto, peticion[r].vistas)
      /\ UNCHANGED <<empresa, medida, venta, rancias>>
  BY DEF EscribirFilas, DeFilas
<1>2. peticion[r] \in FilasPedidas
  BY <1>1, FormaPeticion DEF Inv
<1>3. perfil' \in [Productos -> SUBSET Impuestos]
  BY <1>1, <1>2 DEF FilasPedidas, Inv, TypeOK
<1> QED BY <1>1, <1>3, SueltaFilasBien DEF Inv, TypeOK, UnTributoPorClase

\* The unique index refuses the rows.
LEMMA PasoRechazarFilas ==
  ASSUME Inv, NEW r \in Peticiones, RechazarFilas(r)
  PROVE  Inv'
BY SueltaBien DEF RechazarFilas, Inv, TypeOK, UnTributoPorClase

\* A tax is taken from a product.
LEMMA PasoEliminarImpuesto ==
  ASSUME Inv, NEW p \in Productos, NEW i \in Impuestos, EliminarImpuesto(p, i)
  PROVE  Inv'
<1>1. perfil' \in [Productos -> SUBSET Impuestos]
  BY DEF EliminarImpuesto, Inv, TypeOK
<1> QED BY <1>1, SueltaFilasBien DEF EliminarImpuesto, Inv, TypeOK, UnTributoPorClase

-----------------------------------------------------------------------------
(* Measures *)

\* The UPDATE of the columns that changed leaves a well-formed row, and the one that the
\* request wanted when its copy was up to date.
LEMMA GuardadaBien ==
  ASSUME NEW f \in Medida, NEW c \in Medida, NEW e \in Estados, NEW n \in Datos, NEW s \in SUBSET Productos
  PROVE  /\ Guardada(f, c, e, n, s) \in Medida
         /\ Guardada(f, c, e, n, s).datos.productos = s
         /\ c = f => /\ Guardada(f, c, e, n, s).estado = e
                     /\ Guardada(f, c, e, n, s).datos = [n EXCEPT !.productos = s]
<1> DEFINE g == Guardada(f, c, e, n, s)
           cols == {"clase", "desde", "hasta", "productos", "confirmada"}
<1>1. DOMAIN n = cols /\ DOMAIN c.datos = cols /\ DOMAIN f.datos = cols
  BY DEF Datos, Medida
<1>2. /\ g.estado = IF e # c.estado THEN e ELSE f.estado
      /\ g.datos = [campo \in cols |-> IF campo = "productos" THEN s
                      ELSE IF n[campo] # c.datos[campo] THEN n[campo] ELSE f.datos[campo]]
      /\ g = [estado |-> g.estado, datos |-> g.datos]
  BY <1>1 DEF Guardada
<1> HIDE DEF g
<1>3. g.datos \in Datos
  <2> DEFINE d == g.datos
  <2>1. /\ d.clase \in {n.clase, f.datos.clase} /\ d.desde \in {n.desde, f.datos.desde}
        /\ d.hasta \in {n.hasta, f.datos.hasta} /\ d.productos = s
        /\ d.confirmada \in {n.confirmada, f.datos.confirmada}
    BY <1>2
  <2>2. d = [clase |-> d.clase, desde |-> d.desde, hasta |-> d.hasta, productos |-> d.productos,
             confirmada |-> d.confirmada]
    BY <1>2
  <2> HIDE DEF d
  <2>3. d \in Datos
    BY <2>1, <2>2 DEF Datos, Medida
  <2> QED BY <2>3 DEF d
<1>4. g.estado \in Estados
  BY <1>2 DEF Medida
<1>5. g \in Medida
  BY <1>2, <1>3, <1>4 DEF Medida
<1>6. ASSUME c = f PROVE g.datos = [n EXCEPT !.productos = s]
  BY <1>1, <1>2, <1>6 DEF Datos
<1> QED BY <1>2, <1>5, <1>6 DEF g

\* A new measure is a draft.
LEMMA PasoCrearMedida ==
  ASSUME Inv, NEW m \in Medidas, NEW d \in Reglas, CrearMedida(m, d)
  PROVE  Inv'
<1> DEFINE n == [estado |-> "BORRADOR", datos |-> d]
<1>1. /\ n \in Medida /\ n # Nada /\ n.estado # "ACTIVA"
  BY TributosSupuestos DEF Medida, Estados
<1>2. /\ medida[m] = Nada /\ medida' = [medida EXCEPT ![m] = n]
      /\ UNCHANGED <<empresa, perfil, venta, peticion, rancias>>
  BY DEF CrearMedida
<1> HIDE DEF n
<1>3. /\ medida' \in [Medidas -> Medida \cup {Nada}]
      /\ medida'[m] = n /\ \A k \in Medidas \ {m} : medida'[k] = medida[k]
  BY <1>1, <1>2 DEF Inv, TypeOK
<1>4. \A k \in Medidas : Sana(k)' => Sana(k) /\ medida'[k] = medida[k]
  BY <1>1, <1>2, <1>3 DEF Sana
<1>5. ASSUME NEW q \in Peticiones, En(q, ConFila), NEW k \in peticion[q].cerrojos
      PROVE  medida'[k] = medida[k]
  <2>1. En(q, Cambios) /\ peticion[q] \in CambiosPedidos /\ medida[k] # Nada
    BY <1>5, FormaPeticion DEF Inv, PeticionBien, En, ConFila, Cambios
  <2> QED BY <1>2, <1>3, <2>1 DEF CambiosPedidos
<1>6. \A k \in Medidas : medida[k] # Nada => medida'[k] # Nada
  BY <1>2, <1>3
<1>7. \A q \in Peticiones : PeticionBien(q)'
  BY <1>2, <1>4, <1>5, <1>6, SigueBien
<1>8. ActivasSanas'
  BY <1>4 DEF Inv, ActivasSanas, Sana
<1>9. CerrojosBien'
  BY <1>2, CerrojosSiguen
<1> QED BY <1>2, <1>3, <1>7, <1>8, <1>9 DEF Inv, TypeOK, UnTributoPorClase

\* The router loads the measure.
LEMMA PasoPedirCambio ==
  ASSUME Inv, NEW r \in Peticiones, NEW m \in Medidas, NEW e \in {"ACTIVA", "INACTIVA", "EDITA"},
         NEW d \in Datos \cup {Nada}, e = "EDITA" => d \in Datos, PedirCambio(r, m, e, d)
  PROVE  Inv'
<1> DEFINE n == [que |-> "LEE", medida |-> m, copia |-> medida[m], estado |-> e, nuevos |-> d, cerrojos |-> {}]
<1>1. Toma(r, n) /\ UNCHANGED <<empresa, perfil, medida, venta, rancias>> /\ medida[m] # Nada
  BY DEF PedirCambio
<1>2. n \in Peticion
  BY <1>1 DEF Inv, TypeOK, Peticion, CambiosPedidos, Cambios
<1>3. n.que = "LEE" /\ n.cerrojos = {} /\ n.medida = m /\ (n.estado = "EDITA" => n.nuevos \in Datos)
  OBVIOUS
<1> HIDE DEF n
<1>4. peticion'[r] = n
  BY <1>1 DEF Toma, Inv, TypeOK
<1>5. PeticionBien(r)'
  BY <1>1, <1>3, <1>4 DEF PeticionBien, En, DeFilas, DeVenta, Cambios, ConFila
<1> QED BY <1>1, <1>2, <1>3, <1>5, TomaBien DEF Inv, TypeOK, UnTributoPorClase

\* What a commit leaves: the row of the measure as the request wanted it, or the measure
\* among those written from an old copy.
LEMMA GuardarBien ==
  ASSUME Inv, NEW r \in Peticiones, En(r, Cambios),
         NEW e \in Estados, NEW n \in Datos, NEW s \in SUBSET Productos, Guardar(r, e, n, s)
  PROVE  /\ peticion[r].medida \in Medidas /\ medida[peticion[r].medida] \in Medida
         /\ peticion[r].copia \in Medida
         /\ medida' \in [Medidas -> Medida \cup {Nada}]
         /\ medida'[peticion[r].medida] # Nada
         /\ \A k \in Medidas \ {peticion[r].medida} : medida'[k] = medida[k]
         /\ rancias \subseteq rancias' /\ rancias' \subseteq Medidas
         /\ peticion[r].medida \notin rancias' =>
              /\ peticion[r].copia = medida[peticion[r].medida]
              /\ medida'[peticion[r].medida].estado = e
              /\ medida'[peticion[r].medida].datos = [n EXCEPT !.productos = s]
         /\ peticion' = [peticion EXCEPT ![r] = Nada]
<1> DEFINE m == peticion[r].medida
           c == peticion[r].copia
           g == Guardada(medida[m], c, e, n, s)
<1>1. m \in Medidas /\ c \in Medida /\ medida[m] \in Medida
  BY FormaPeticion DEF Inv, TypeOK, PeticionBien, CambiosPedidos
<1>2. /\ g \in Medida
      /\ c = medida[m] => g.estado = e /\ g.datos = [n EXCEPT !.productos = s]
  BY <1>1, GuardadaBien
<1>3. /\ medida' = [medida EXCEPT ![m] = g]
      /\ rancias' = IF c = medida[m] THEN rancias ELSE rancias \cup {m}
      /\ peticion' = [peticion EXCEPT ![r] = Nada]
  BY DEF Guardar, Suelta
<1> HIDE DEF g, m, c
<1>4. /\ medida'[m] = g /\ \A k \in Medidas \ {m} : medida'[k] = medida[k]
      /\ medida' \in [Medidas -> Medida \cup {Nada}]
  BY <1>1, <1>2, <1>3 DEF Inv, TypeOK
<1>5. g # Nada
  BY <1>2, TributosSupuestos
<1>6. rancias \subseteq rancias' /\ rancias' \subseteq Medidas /\ (m \notin rancias' => c = medida[m])
  BY <1>1, <1>3 DEF Inv, TypeOK
<1> QED BY <1>1, <1>2, <1>3, <1>4, <1>5, <1>6 DEF m, c

\* A commit over a row that no other request has locked, and that leaves no active measure
\* that meets another, is sound.
LEMMA TrasGuardar ==
  ASSUME Inv, NEW r \in Peticiones, En(r, Cambios),
         NEW m \in Medidas, peticion[r].medida = m,
         NEW e \in Estados, NEW n \in Datos, NEW s \in SUBSET Productos, Guardar(r, e, n, s),
         UNCHANGED <<empresa, perfil, venta>>,
         \A q \in Peticiones \ {r} : En(q, ConFila) => m \notin peticion[q].cerrojos,
         Sana(m)' =>
           /\ \A q \in Peticiones \ {r} : ~En(q, {"COMPARADA"})
           /\ medida'[m].datos.confirmada
           /\ \A k \in Medidas \ {m} :
                Sana(k) /\ Coinciden(medida[k].datos, medida'[m].datos) =>
                  medida[k].datos.productos \cap medida'[m].datos.productos = {}
  PROVE  Inv'
<1>1. /\ m \in Medidas /\ medida[m] \in Medida
      /\ medida' \in [Medidas -> Medida \cup {Nada}] /\ medida'[m] # Nada
      /\ \A k \in Medidas \ {m} : medida'[k] = medida[k]
      /\ rancias \subseteq rancias' /\ rancias' \subseteq Medidas
      /\ peticion' = [peticion EXCEPT ![r] = Nada]
  BY GuardarBien
<1>2. /\ peticion' \in [Peticiones -> Peticion \cup {Nada}]
      /\ peticion'[r] = Nada /\ \A q \in Peticiones \ {r} : peticion'[q] = peticion[q]
  BY <1>1 DEF Inv, TypeOK
<1>3. TypeOK'
  BY <1>1, <1>2 DEF Inv, TypeOK
<1>4. \A k \in Medidas : medida[k] # Nada => medida'[k] # Nada
  BY <1>1
<1>5. \A k \in Medidas \ {m} : Sana(k)' => Sana(k)
  BY <1>1 DEF Sana
<1>6. ASSUME NEW q \in Peticiones \ {r} PROVE PeticionBien(q)'
  <2>1. ASSUME En(q, ConFila), NEW k \in peticion[q].cerrojos PROVE medida'[k] = medida[k]
    <3>1. k \in Medidas
      BY <2>1, FormaPeticion DEF Inv, En, ConFila, Cambios, CambiosPedidos
    <3> QED BY <1>1, <2>1, <3>1
  <2>2. ASSUME En(q, {"COMPARADA"}), NEW k \in Medidas, Sana(k)' PROVE Sana(k) /\ medida'[k] = medida[k]
    BY <1>1, <1>5, <2>2
  <2> QED BY <1>2, <1>4, <2>1, <2>2, SigueBien
<1>7. \A q \in Peticiones : PeticionBien(q)'
  BY <1>2, <1>6, NadaBien
<1>8. CerrojosBien'
  BY <1>2, CerrojosSiguen DEF En
<1>9. ActivasSanas'
  <2>1. ASSUME NEW k \in Medidas, Sana(k)' PROVE medida'[k].datos.confirmada
    BY <1>1, <1>5, <2>1 DEF Inv, ActivasSanas, Sana
  <2>2. ASSUME NEW k \in Medidas, NEW j \in Medidas, k # j, Sana(k)', Sana(j)',
               Coinciden(medida'[k].datos, medida'[j].datos)
        PROVE  medida'[k].datos.productos \cap medida'[j].datos.productos = {}
    <3>1. CASE k # m /\ j # m
      <4>1. Sana(k) /\ Sana(j) /\ medida'[k] = medida[k] /\ medida'[j] = medida[j]
        BY <1>1, <1>5, <2>2, <3>1
      <4> QED BY <2>2, <4>1 DEF Inv, ActivasSanas, Sana
    <3>2. CASE k = m
      <4>1. Sana(j) /\ medida'[j] = medida[j]
        BY <1>1, <1>5, <2>2, <3>2
      <4>2. Coinciden(medida[j].datos, medida'[m].datos)
        BY <2>2, <3>2, <4>1 DEF Coinciden
      <4> QED BY <2>2, <3>2, <4>1, <4>2
    <3>3. CASE j = m
      <4>1. Sana(k) /\ medida'[k] = medida[k]
        BY <1>1, <1>5, <2>2, <3>3
      <4> QED BY <2>2, <3>3, <4>1
    <3> QED BY <3>1, <3>2, <3>3
  <2> QED BY <2>1, <2>2 DEF ActivasSanas, Sana
<1> QED BY <1>3, <1>7, <1>8, <1>9 DEF Inv, UnTributoPorClase

\* A row nobody has locked is in the hands of none of the others.
LEMMA LibreDeOtros ==
  ASSUME NEW r, Libre(r)
  PROVE  /\ En(r, Cambios)
         /\ \A q \in Peticiones : En(q, Cambios) => peticion[r].medida \notin peticion[q].cerrojos
BY DEF Libre, Bloqueada, En, Cambios

\* A draft edited is still a draft; an active measure edited by who had read a draft is
\* among those written from an old copy.
LEMMA PasoEditarMedida ==
  ASSUME Inv, NEW r \in Peticiones, EditarMedida(r)
  PROVE  Inv'
<1>0. PICK m : m = peticion[r].medida
  OBVIOUS
<1> DEFINE c == peticion[r].copia
           n == peticion[r].nuevos
<1>1. /\ Libre(r) /\ Guardar(r, c.estado, n, n.productos) /\ UNCHANGED <<empresa, perfil, venta>>
      /\ c.estado # "ACTIVA" /\ peticion[r].estado = "EDITA"
  BY DEF EditarMedida, Editable
<1>2. En(r, Cambios) /\ \A q \in Peticiones : En(q, Cambios) => m \notin peticion[q].cerrojos
  BY <1>0, <1>1, LibreDeOtros
<1>3. /\ m \in Medidas /\ c \in Medida /\ n \in Datos
  BY <1>0, <1>1, <1>2, FormaPeticion DEF Inv, PeticionBien, CambiosPedidos
<1>4. c.estado \in Estados /\ n.productos \in SUBSET Productos
  BY <1>3 DEF Medida, Datos
<1>5. m \notin rancias' => medida'[m].estado # "ACTIVA"
  BY <1>1, <1>2, <1>3, <1>4, <1>0, GuardarBien
<1> HIDE DEF c, n
<1>6. ~Sana(m)'
  BY <1>5 DEF Sana
<1>7. \A q \in Peticiones : En(q, ConFila) => En(q, Cambios)
  BY DEF En, ConFila, Cambios
<1> QED BY <1>0, <1>1, <1>2, <1>3, <1>4, <1>6, <1>7, TrasGuardar

\* So is an active measure that a request read inactive and deactivates.
LEMMA PasoDesactivarMedida ==
  ASSUME Inv, NEW r \in Peticiones, DesactivarMedida(r)
  PROVE  Inv'
<1>0. PICK m : m = peticion[r].medida
  OBVIOUS
<1> DEFINE c == peticion[r].copia
           a == Alcance(r)
<1>1. Libre(r) /\ Guardar(r, "INACTIVA", c.datos, a) /\ UNCHANGED <<empresa, perfil, venta>>
  BY DEF DesactivarMedida
<1>2. En(r, Cambios) /\ \A q \in Peticiones : En(q, Cambios) => m \notin peticion[q].cerrojos
  BY <1>0, <1>1, LibreDeOtros
<1>3. m \in Medidas /\ c \in Medida /\ medida[m] \in Medida
  BY <1>0, <1>2, FormaPeticion DEF Inv, TypeOK, PeticionBien, CambiosPedidos
<1>4. c.datos \in Datos /\ a \in SUBSET Productos /\ "INACTIVA" \in Estados
  BY <1>0, <1>3 DEF Medida, Datos, Alcance, Estados
<1> HIDE DEF c, a
<1>5. m \notin rancias' => medida'[m].estado = "INACTIVA"
  BY <1>1, <1>2, <1>4, <1>0, GuardarBien
<1>6. ~Sana(m)'
  BY <1>5 DEF Sana
<1>7. \A q \in Peticiones : En(q, ConFila) => En(q, Cambios)
  BY DEF En, ConFila, Cambios
<1> QED BY <1>0, <1>1, <1>2, <1>3, <1>4, <1>6, <1>7, TrasGuardar

\* An activation writes the row as it read it, and meets no measure it has compared it with:
\* it still holds the row and the company.
LEMMA PasoActivarMedida ==
  ASSUME Inv, NEW r \in Peticiones, ActivarMedida(r)
  PROVE  Inv'
<1>0. PICK m : m = peticion[r].medida
  OBVIOUS
<1> DEFINE c == peticion[r].copia
           a == Alcance(r)
<1>1. /\ En(r, {"COMPARADA"})
      /\ Guardar(r, "ACTIVA", c.datos, a) /\ UNCHANGED <<empresa, perfil, venta>>
  BY DEF ActivarMedida
<1>2. En(r, Cambios) /\ En(r, ConFila) /\ En(r, ConEmpresa)
  BY <1>1 DEF En, Cambios, ConFila, ConEmpresa
<1>3. /\ m \in Medidas /\ c \in Medida /\ medida[m] \in Medida
      /\ m \in peticion[r].cerrojos /\ c.datos.confirmada /\ SinChoque(r)
  BY <1>0, <1>1, <1>2, FormaPeticion DEF Inv, TypeOK, PeticionBien, CambiosPedidos
<1>4. c.datos \in Datos /\ a \in SUBSET Productos /\ "ACTIVA" \in Estados
  BY <1>0, <1>3 DEF Medida, Datos, Alcance, Estados
<1>5. a = medida[m].datos.productos
  BY <1>0 DEF Alcance
<1> HIDE DEF c, a
<1>6. m \notin rancias' => c = medida[m] /\ medida'[m].datos = [c.datos EXCEPT !.productos = a]
  BY <1>1, <1>2, <1>4, <1>0, GuardarBien DEF c
<1>7. m \notin rancias' => medida'[m].datos = c.datos
  BY <1>4, <1>5, <1>6 DEF Datos
<1>8. \A q \in Peticiones \ {r} : (En(q, ConFila) => m \notin peticion[q].cerrojos) /\ ~En(q, {"COMPARADA"})
  BY <1>2, <1>3 DEF Inv, CerrojosBien, En, ConFila, ConEmpresa, Cambios
<1>9. ASSUME m \notin rancias', NEW k \in Medidas \ {m}, Sana(k), Coinciden(medida[k].datos, c.datos)
      PROVE  medida[k].datos.productos \cap c.datos.productos = {}
  <2>1. a = c.datos.productos
    BY <1>5, <1>6, <1>9
  <2> QED BY <1>0, <1>3, <1>9, <2>1 DEF SinChoque, a, c
<1>10. Sana(m)' => m \notin rancias'
  BY DEF Sana
<1>11. m \notin rancias' => medida'[m].datos.confirmada
  BY <1>3, <1>7
<1>12. ASSUME Sana(m)', NEW k \in Medidas \ {m}, Sana(k), Coinciden(medida[k].datos, medida'[m].datos)
       PROVE  medida[k].datos.productos \cap medida'[m].datos.productos = {}
  BY <1>7, <1>9, <1>10, <1>12
<1> QED BY <1>0, <1>1, <1>2, <1>3, <1>4, <1>8, <1>10, <1>11, <1>12, TrasGuardar

\* A request goes on, having learnt what it now knows.
LEMMA AvanzaBien ==
  ASSUME Inv, NEW r \in Peticiones, NEW p \in Peticion, peticion' = [peticion EXCEPT ![r] = p],
         UNCHANGED <<medida, rancias>>, PeticionBien(r)'
  PROVE  /\ peticion' \in [Peticiones -> Peticion \cup {Nada}]
         /\ \A q \in Peticiones : PeticionBien(q)'
         /\ ActivasSanas'
<1>1. /\ peticion' \in [Peticiones -> Peticion \cup {Nada}]
      /\ \A q \in Peticiones \ {r} : peticion'[q] = peticion[q]
  BY DEF Inv, TypeOK
<1> QED BY <1>1, SigueQuieta, SanasSiguen

\* An activation locks its row, with a confirmed copy.
LEMMA PasoBloquearMedida ==
  ASSUME Inv, NEW r \in Peticiones, BloquearMedida(r)
  PROVE  Inv'
<1> DEFINE p == [peticion[r] EXCEPT !.que = "CAMBIA", !.cerrojos = {peticion[r].medida}]
<1>1. /\ Libre(r) /\ peticion[r].copia.datos.confirmada /\ peticion' = [peticion EXCEPT ![r] = p]
      /\ UNCHANGED <<empresa, perfil, medida, venta, rancias>>
  BY DEF BloquearMedida, Activable
<1>2. En(r, Cambios) /\ \A q \in Peticiones : En(q, Cambios) => peticion[r].medida \notin peticion[q].cerrojos
  BY <1>1, LibreDeOtros
<1>3. peticion[r] \in CambiosPedidos /\ PeticionBien(r)
  BY <1>2, FormaPeticion DEF Inv
<1>4. /\ p \in CambiosPedidos /\ p.que = "CAMBIA" /\ p.cerrojos = {peticion[r].medida}
      /\ p.medida = peticion[r].medida /\ p.copia = peticion[r].copia
      /\ p.estado = peticion[r].estado /\ p.nuevos = peticion[r].nuevos
  BY <1>3 DEF CambiosPedidos, Cambios
<1> HIDE DEF p
<1>5. peticion'[r] = p /\ \A q \in Peticiones \ {r} : peticion'[q] = peticion[q]
  BY <1>1 DEF Inv, TypeOK
<1>6. PeticionBien(r)'
  BY <1>1, <1>2, <1>3, <1>4, <1>5 DEF PeticionBien, En, DeFilas, DeVenta, Cambios, ConFila
<1>7. CerrojosBien'
  BY <1>2, <1>4, <1>5 DEF Inv, CerrojosBien, En, ConEmpresa, Cambios
<1>8. p \in Peticion
  BY <1>4 DEF Peticion
<1> QED BY <1>1, <1>6, <1>7, <1>8, AvanzaBien DEF Inv, TypeOK, UnTributoPorClase

\* Then the company, which nobody else has.
LEMMA PasoBloquearEmpresa ==
  ASSUME Inv, NEW r \in Peticiones, BloquearEmpresa(r)
  PROVE  Inv'
<1> DEFINE p == [peticion[r] EXCEPT !.que = "EMPRESA"]
<1>1. /\ En(r, {"CAMBIA"}) /\ ~EmpresaBloqueada /\ peticion' = [peticion EXCEPT ![r] = p]
      /\ UNCHANGED <<empresa, perfil, medida, venta, rancias>>
  BY DEF BloquearEmpresa, EmpresaLibre
<1>2. En(r, Cambios) /\ En(r, ConFila) /\ \A q \in Peticiones : ~En(q, ConEmpresa)
  BY <1>1 DEF EmpresaBloqueada, En, Cambios, ConFila, ConEmpresa
<1>3. peticion[r] \in CambiosPedidos /\ PeticionBien(r)
  BY <1>2, FormaPeticion DEF Inv
<1>4. /\ p \in CambiosPedidos /\ p.que = "EMPRESA" /\ p.cerrojos = peticion[r].cerrojos
      /\ p.medida = peticion[r].medida /\ p.copia = peticion[r].copia
      /\ p.estado = peticion[r].estado /\ p.nuevos = peticion[r].nuevos
  BY <1>3 DEF CambiosPedidos, Cambios
<1> HIDE DEF p
<1>5. peticion'[r] = p /\ \A q \in Peticiones \ {r} : peticion'[q] = peticion[q]
  BY <1>1 DEF Inv, TypeOK
<1>6. PeticionBien(r)'
  BY <1>1, <1>2, <1>3, <1>4, <1>5 DEF PeticionBien, En, DeFilas, DeVenta, Cambios, ConFila
<1>7. CerrojosBien'
  BY <1>2, <1>4, <1>5 DEF Inv, CerrojosBien, En, ConEmpresa, Cambios
<1>8. p \in Peticion
  BY <1>4 DEF Peticion
<1> QED BY <1>1, <1>6, <1>7, <1>8, AvanzaBien DEF Inv, TypeOK, UnTributoPorClase

\* Then the active measures its own could meet, and finds that it meets none.
LEMMA PasoCompararMedida ==
  ASSUME Inv, NEW r \in Peticiones, CompararMedida(r)
  PROVE  Inv'
<1> DEFINE p == [peticion[r] EXCEPT !.que = "COMPARADA", !.cerrojos = @ \cup Vecinas(r)]
<1>1. /\ En(r, {"EMPRESA"}) /\ ~Choca(r) /\ peticion' = [peticion EXCEPT ![r] = p]
      /\ \A m \in Vecinas(r) : ~Bloqueada(m)
      /\ UNCHANGED <<empresa, perfil, medida, venta, rancias>>
  BY DEF CompararMedida
<1>2. En(r, Cambios) /\ En(r, ConFila) /\ En(r, ConEmpresa)
  BY <1>1 DEF En, Cambios, ConFila, ConEmpresa
<1>3. peticion[r] \in CambiosPedidos /\ PeticionBien(r)
  BY <1>2, FormaPeticion DEF Inv
<1>4. /\ Vecinas(r) \subseteq Medidas
      /\ \A m \in Vecinas(r) : medida[m] # Nada
      /\ \A m \in Vecinas(r), q \in Peticiones : En(q, Cambios) => m \notin peticion[q].cerrojos
  BY <1>1 DEF Vecinas, Bloqueada
<1>5. /\ p \in CambiosPedidos /\ p.que = "COMPARADA" /\ p.cerrojos = peticion[r].cerrojos \cup Vecinas(r)
      /\ p.medida = peticion[r].medida /\ p.copia = peticion[r].copia
      /\ p.estado = peticion[r].estado /\ p.nuevos = peticion[r].nuevos
  BY <1>3, <1>4 DEF CambiosPedidos, Cambios
<1> HIDE DEF p
<1>6. peticion'[r] = p /\ \A q \in Peticiones \ {r} : peticion'[q] = peticion[q]
  BY <1>1 DEF Inv, TypeOK
<1>7. SinChoque(r)'
  <2>1. ASSUME NEW m \in Medidas \ {peticion[r].medida}, Sana(m),
               Coinciden(medida[m].datos, peticion[r].copia.datos)
        PROVE  medida[m].datos.productos \cap Alcance(r) = {}
    <3>1. medida[m].datos.confirmada
      BY <2>1 DEF Inv, ActivasSanas, Sana
    <3>2. m \in Vecinas(r)
      BY <2>1, <3>1 DEF Vecinas, Sana
    <3> QED BY <1>1, <3>2 DEF Choca
  <2>2. Alcance(r)' = Alcance(r)
    BY <1>1, <1>5, <1>6 DEF Alcance
  <2> QED BY <1>1, <1>5, <1>6, <2>1, <2>2 DEF SinChoque, Sana
<1>8. PeticionBien(r)'
  BY <1>1, <1>2, <1>3, <1>4, <1>5, <1>6, <1>7 DEF PeticionBien, En, DeFilas, DeVenta, Cambios, ConFila
<1>9. CerrojosBien'
  <2>1. \A q \in Peticiones \ {r} :
           /\ En(q, Cambios) => p.cerrojos \cap peticion[q].cerrojos = {}
           /\ ~En(q, ConEmpresa)
    BY <1>2, <1>4, <1>5 DEF Inv, CerrojosBien
  <2> QED BY <1>5, <1>6, <2>1 DEF Inv, CerrojosBien, En, ConEmpresa, Cambios
<1>10. p \in Peticion
  BY <1>5 DEF Peticion
<1> QED BY <1>1, <1>8, <1>9, <1>10, AvanzaBien DEF Inv, TypeOK, UnTributoPorClase

\* A change is refused.
LEMMA PasoRechazarCambio ==
  ASSUME Inv, NEW r \in Peticiones, RechazarCambio(r)
  PROVE  Inv'
BY SueltaBien DEF RechazarCambio, Inv, TypeOK, UnTributoPorClase

\* The database aborts one.
LEMMA PasoInterbloqueo ==
  ASSUME Inv, NEW r \in Peticiones, Interbloqueo(r)
  PROVE  Inv'
BY SueltaBien DEF Interbloqueo, Inv, TypeOK, UnTributoPorClase

-----------------------------------------------------------------------------
(* Sales *)

\* Replacing all the taxes of a class by one leaves one of each class.
LEMMA ResolverBien ==
  ASSUME NEW tributos, UnoPorClase(tributos), NEW p, NEW ms, NEW ts \in Resolver(tributos, p, ms)
  PROVE  UnoPorClase(ts)
<1> DEFINE alcanzan == {m \in ms : p \in medida[m].datos.productos}
           clases   == {medida[m].datos.clase : m \in alcanzan}
           ganan    == {g \in [clases -> alcanzan] :
                         \A c \in clases : g[c] \in {m \in alcanzan : medida[m].datos.clase = c}}
           Con(g)   == {t \in tributos : t.clase \notin clases} \cup
                         {[clase |-> c, origen |-> g[c]] : c \in clases}
<1>0. ts \in {Con(g) : g \in ganan}
  BY Zenon DEF Resolver
<1> HIDE DEF Con, ganan
<1>1. PICK gana : ts = Con(gana)
  BY <1>0
<1> USE DEF Con
<1> HIDE DEF clases
<1>2. ASSUME NEW t \in ts PROVE \/ t \in tributos /\ t.clase \notin clases
                                \/ t.clase \in clases /\ t = [clase |-> t.clase, origen |-> gana[t.clase]]
  BY <1>1
<1> QED BY <1>2 DEF UnoPorClase

\* With one tax of each class, none is counted twice.
LEMMA PorClaseBien ==
  ASSUME NEW ts, UnoPorClase(ts)
  PROVE  PorClase(ts) \in [Clases -> Nat] /\ \A c \in Clases : PorClase(ts)[c] <= 1
<1>1. ASSUME NEW c \in Clases PROVE Cardinality({t \in ts : t.clase = c}) \in {0, 1}
  BY UnoOCero DEF UnoPorClase
<1> QED BY <1>1 DEF PorClase

\* The taxes read are of different classes: DetalleValido says that they are of different types.
LEMMA PasoPedirVenta ==
  ASSUME Inv, NEW r \in Peticiones, NEW v \in Ventas, NEW p \in Productos, PedirVenta(r, v, p)
  PROVE  Inv'
<1> DEFINE ts == {[clase |-> ClaseDe(i), origen |-> i] : i \in perfil[p]}
           n == [que |-> "VENTA", venta |-> v, producto |-> p, tributos |-> ts, medidas |-> {}]
<1>1. /\ Toma(r, n) /\ UNCHANGED <<empresa, perfil, medida, venta, rancias>>
      /\ \A i, j \in perfil[p] : Tipo(i) = Tipo(j) => i = j
  BY DEF PedirVenta, DetalleValido
<1>2. perfil[p] \subseteq Impuestos
  BY DEF Inv, TypeOK
<1>3. ts \subseteq [clase : Clases, origen : Impuestos]
  BY <1>2 DEF ClaseDe, Clases
<1>4. UnoPorClase(ts)
  BY <1>1 DEF UnoPorClase, ClaseDe, Tipo
<1> HIDE DEF ts
<1>5. n \in Peticion /\ n.que = "VENTA" /\ n.tributos = ts
  BY <1>3 DEF Peticion, VentasPedidas
<1> HIDE DEF n
<1>6. peticion'[r] = n
  BY <1>1 DEF Toma, Inv, TypeOK
<1>7. PeticionBien(r)'
  BY <1>4, <1>5, <1>6 DEF PeticionBien, En, DeFilas, DeVenta, Cambios, ConFila
<1>8. n.que \notin Cambios
  BY <1>5 DEF Cambios
<1> QED BY <1>1, <1>5, <1>7, <1>8, TomaBien DEF Inv, TypeOK, UnTributoPorClase

\* The measures in force are read.
LEMMA PasoLeerMedidas ==
  ASSUME Inv, NEW r \in Peticiones, NEW dia, LeerMedidas(r, dia)
  PROVE  Inv'
<1> DEFINE p == [peticion[r] EXCEPT !.que = "VIGENTES", !.medidas = EnVigor(dia)]
<1>1. /\ En(r, {"VENTA"}) /\ peticion' = [peticion EXCEPT ![r] = p]
      /\ UNCHANGED <<empresa, perfil, medida, venta, rancias>>
  BY DEF LeerMedidas
<1>2. En(r, DeVenta)
  BY <1>1 DEF En, DeVenta
<1>3. peticion[r] \in VentasPedidas /\ PeticionBien(r)
  BY <1>2, FormaPeticion DEF Inv
<1>4. p \in VentasPedidas /\ p.que = "VIGENTES" /\ p.tributos = peticion[r].tributos
  BY <1>3 DEF VentasPedidas, EnVigor
<1> HIDE DEF p
<1>5. peticion'[r] = p /\ \A q \in Peticiones \ {r} : peticion'[q] = peticion[q]
  BY <1>1 DEF Inv, TypeOK
<1>6. PeticionBien(r)' /\ ~En(r, Cambios)'
  BY <1>2, <1>3, <1>4, <1>5 DEF PeticionBien, En, DeFilas, DeVenta, Cambios, ConFila
<1>7. CerrojosBien'
  BY <1>5, <1>6, CerrojosSiguen
<1>8. p \in Peticion
  BY <1>4 DEF Peticion
<1> QED BY <1>1, <1>6, <1>7, <1>8, AvanzaBien DEF Inv, TypeOK, UnTributoPorClase

\* The sale freezes one tax of each class.
LEMMA PasoRegistrarVenta ==
  ASSUME Inv, NEW r \in Peticiones, RegistrarVenta(r)
  PROVE  Inv'
<1> DEFINE p == peticion[r]
<1>1. PICK ts \in Resolver(p.tributos, p.producto, p.medidas) :
        venta' = [venta EXCEPT ![p.venta] = PorClase(ts)]
  BY DEF RegistrarVenta
<1>2. En(r, DeVenta) /\ Suelta(r) /\ UNCHANGED <<empresa, perfil, medida, rancias>>
  BY DEF RegistrarVenta, En, DeVenta
<1>3. UnoPorClase(p.tributos) /\ p.venta \in Ventas
  BY <1>2, FormaPeticion DEF Inv, PeticionBien, VentasPedidas
<1> HIDE DEF p
<1>4. UnoPorClase(ts)
  BY <1>3, ResolverBien
<1>5. PorClase(ts) \in [Clases -> Nat] /\ \A c \in Clases : PorClase(ts)[c] <= 1
  BY <1>4, PorClaseBien
<1>6. venta' \in [Ventas -> [Clases -> Nat] \cup {Nada}] /\ UnTributoPorClase'
  BY <1>1, <1>3, <1>5 DEF Inv, TypeOK, UnTributoPorClase
<1> QED BY <1>2, <1>6, SueltaBien DEF Inv, TypeOK

-----------------------------------------------------------------------------
(* Theorems *)

\* Every step keeps the invariant.
LEMMA PasoBien == Inv /\ [Next]_vars => Inv'
<1> SUFFICES ASSUME Inv, [Next]_vars PROVE Inv'
  OBVIOUS
<1>1. ASSUME NEW r \in Peticiones, Seguir(r) PROVE Inv'
  BY <1>1, PasoEscribirFilas, PasoRechazarFilas, PasoEditarMedida, PasoDesactivarMedida, PasoBloquearMedida,
     PasoBloquearEmpresa, PasoCompararMedida, PasoActivarMedida, PasoRechazarCambio, PasoInterbloqueo,
     PasoLeerMedidas, PasoRegistrarVenta DEF Seguir
<1>2. ASSUME NEW r \in Peticiones, NEW m \in Medidas, NEW e \in {"ACTIVA", "INACTIVA"}, PedirCambio(r, m, e, Nada)
      PROVE  Inv'
  BY <1>2, PasoPedirCambio
<1>3. ASSUME NEW r \in Peticiones, NEW m \in Medidas, NEW d \in Reglas, PedirCambio(r, m, "EDITA", d)
      PROVE  Inv'
  BY <1>3, PasoPedirCambio, TributosSupuestos
<1>4. CASE UNCHANGED vars
  <2>1. UNCHANGED <<empresa, perfil, medida, venta, peticion, rancias>>
    BY <1>4 DEF vars
  <2>2. CerrojosBien'
    BY <2>1, CerrojosSiguen
  <2> QED BY <2>1, <2>2, SigueQuieta, SanasSiguen DEF Inv, TypeOK, UnTributoPorClase
<1> QED BY <1>1, <1>2, <1>3, <1>4, PasoEliminarEmpresa, PasoPedirAsignacion, PasoPedirPerfil,
           PasoEliminarImpuesto, PasoCrearMedida, PasoPedirVenta DEF Next

\* What the requests in flight know of the rows stays true until they write.
THEOREM Invariante == Spec => []Inv
<1> QED BY InicioBien, PasoBien, PTL DEF Spec

\* Rows, measures, sales and requests keep their shapes: a measure written column by column
\* from any copy is still a measure.
THEOREM TiposBien == Spec => []TypeOK
<1>1. Inv => TypeOK
  BY DEF Inv
<1> QED BY <1>1, Invariante, PTL

\* resolve_sale over a valid detail: no sale is frozen with two taxes of one class.
THEOREM UnTributo == Spec => []UnTributoPorClase
<1>1. Inv => UnTributoPorClase
  BY DEF Inv
<1> QED BY <1>1, Invariante, PTL

\* The row and the company an activation holds are enough: two active measures of one class
\* do not meet, unless one was written from a copy that was no longer its row.
THEOREM MedidasSanas == Spec => []ActivasSanas
<1>1. Inv => ActivasSanas
  BY DEF Inv
<1> QED BY <1>1, Invariante, PTL

\* A step that replaces or removes the taxes of a product leaves it an IVA if it had one.
LEMMA PasoIva ==
  ASSUME Inv, [Next]_vars, NEW p \in Productos, perfil[p] \cap IVAs # {}
  PROVE  perfil'[p] \cap IVAs # {}
<1>1. ASSUME NEW r \in Peticiones, EscribirFilas(r) PROVE perfil'[p] \cap IVAs # {}
  <2>1. /\ En(r, DeFilas)
        /\ perfil' = [perfil EXCEPT ![peticion[r].producto] = (@ \ peticion[r].vistas) \cup peticion[r].impuestos]
    BY <1>1 DEF EscribirFilas, DeFilas
  <2>2. peticion[r].vistas \cap IVAs # {} => peticion[r].impuestos \cap IVAs # {}
    BY <2>1 DEF Inv, PeticionBien
  <2>3. CASE peticion[r].producto = p
    <3>1. perfil'[p] = (perfil[p] \ peticion[r].vistas) \cup peticion[r].impuestos
      BY <2>1, <2>3 DEF Inv, TypeOK
    <3> QED BY <2>2, <3>1
  <2>4. CASE peticion[r].producto # p
    BY <2>1, <2>4 DEF Inv, TypeOK
  <2> QED BY <2>3, <2>4
<1>2. ASSUME NEW k \in Productos, NEW i \in Impuestos, EliminarImpuesto(k, i) PROVE perfil'[p] \cap IVAs # {}
  BY <1>2 DEF EliminarImpuesto, Inv, TypeOK
<1>3. ASSUME NEW r \in Peticiones, Seguir(r), ~EscribirFilas(r) PROVE UNCHANGED perfil
  BY <1>3 DEF Seguir, RechazarFilas, EditarMedida, DesactivarMedida, BloquearMedida, BloquearEmpresa,
     CompararMedida, ActivarMedida, RechazarCambio, Interbloqueo, LeerMedidas, RegistrarVenta
<1> QED BY <1>1, <1>2, <1>3 DEF Next, vars, EliminarEmpresa, PedirAsignacion, PedirPerfil, CrearMedida,
           PedirCambio, PedirVenta

\* asignar_impuesto, the full update and the removal of a tax: a product that has an IVA
\* keeps one, however its requests cross.
THEOREM IvaNoSePierde == Spec => IvaPermanece
<1>1. Inv /\ [Next]_vars => [\A p \in Productos : perfil[p] \cap IVAs # {} => perfil[p]' \cap IVAs # {}]_vars
  BY PasoIva
<1> QED BY <1>1, Invariante, PTL DEF Spec, IvaPermanece
=============================================================================

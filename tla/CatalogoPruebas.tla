--------------------------- MODULE CatalogoPruebas ---------------------------
(***************************************************************************)
(* What Catalogo guarantees for every set of categories, products and      *)
(* clients.                                                                *)
(***************************************************************************)
EXTENDS Catalogo, TLAPS

-----------------------------------------------------------------------------
(* The inductive invariant, and the steps by what they do to the tree *)

\* The types of the tree and of the products; the previews apart.
Forma ==
  /\ estado \in [Categorias -> Estados]
  /\ padre \in [Categorias -> Categorias \cup {Raiz}]
  /\ esPadre \in [Categorias -> BOOLEAN]
  /\ cajon \in [Categorias -> Estados]
  /\ producto \in [Productos -> Estados]
  /\ donde \in [Productos -> Lugares \cup {Nadie}]
  /\ \A x \in Productos : producto[x] # "NINGUNA" => donde[x] \in Lugares
  /\ conStock \in SUBSET Productos

Inv == TypeOK /\ ArbolSano /\ ProductosColocados /\ PadreSenalado

\* A step that leaves the hierarchy and the products alone.
SoloFicha == UNCHANGED <<estado, padre, esPadre, cajon, producto, donde, conStock>>

\* What a step does, the previews apart.
Efecto ==
  \/ \E c \in Categorias, p \in Categorias \cup {Raiz} :
       \/ Insertar(c, p)
       \/ \E anterior \in Categorias \cup {Raiz} : Trasladar(c, p, anterior)
  \/ \E c \in Categorias :
       \/ Reactivar(c)
       \/ \E confirmado \in BOOLEAN : Borrar(c, confirmado)
  \/ \E x \in Productos :
       \/ \E c \in Categorias : CrearProducto(x, c) \/ CambiarCategoria(x, c)
       \/ BorrarProducto(x) \/ Entrar(x) \/ Salir(x)
  \/ \E X \in SUBSET Productos : \E destino \in [X -> Categorias] : Recategorizar(destino)
  \/ SoloFicha

-----------------------------------------------------------------------------
(* The previews *)

\* What a preview signs has its type.
LEMMA VistaTipo ==
  ASSUME Forma, NEW p \in Categorias, NEW copia \in Copias \cup {Nueva}
  PROVE  Vista(p, copia) \in Vistas
BY DEF Forma, Vista, Vistas, ConHijos, Directos, Vivos, Estados

\* The copy of a category has its type.
LEMMA CopiaTipo ==
  ASSUME Forma, NEW c \in Categorias PROVE Copia(c) \in Copias
BY DEF Forma, Copia, Copias

\* No copy of a category is that of a new one.
LEMMA NuevaAparte == Nueva \notin Copias
BY CatalogoSupuestos DEF Nueva, Copias

FichasBien == ficha \in [Peticiones -> Fichas \cup {Nadie}]

\* A client that previews holds a well formed card.
LEMMA PrevisualizarTipo ==
  ASSUME Forma, FichasBien, NEW t \in Peticiones, NEW p \in Categorias, NEW copia \in Copias \cup {Nueva},
         Previsualizar(t, p, copia)
  PROVE  FichasBien'
<1>1. Vista(p, copia) \in Vistas
  BY VistaTipo
<1>2. [padre |-> p, vista |-> Vista(p, copia), leida |-> Nueva] \in Fichas
  BY <1>1 DEF Fichas
<1> QED BY <1>2 DEF Previsualizar, FichasBien

\* A confirmation of a move keeps the copy it loads.
LEMMA LeerMovidaTipo ==
  ASSUME Forma, FichasBien, NEW t \in Peticiones, LeerMovida(t)
  PROVE  FichasBien'
<1>1. ficha[t] \in Fichas
  BY DEF FichasBien, LeerMovida
<1>2. PICK c \in Categorias : ficha[t].vista.copia.categoria = c
  BY DEF LeerMovida, Activas
<1>3. Copia(c) \in Copias
  BY CopiaTipo
<1>4. [ficha[t] EXCEPT !.leida = Copia(c)] \in Fichas
  BY <1>1, <1>3 DEF Fichas
<1>5. ficha' = [ficha EXCEPT ![t] = [ficha[t] EXCEPT !.leida = Copia(c)]]
  BY <1>1, <1>2 DEF LeerMovida, FichasBien
<1> QED BY <1>4, <1>5 DEF FichasBien

\* Every step is one of the effects and keeps the cards well formed.
LEMMA PasoTieneEfecto ==
  ASSUME TypeOK, Next
  PROVE  Efecto /\ FichasBien'
<1> USE NuevaAparte
<1>0. Forma /\ FichasBien
  BY DEF TypeOK, Forma, FichasBien
<1>1. ASSUME NEW c \in Categorias, NEW p \in Categorias \cup {Raiz}, Crear(c, p) \/ Mover(c, p)
      PROVE  Efecto /\ FichasBien'
  <2>1. padre[c] \in Categorias \cup {Raiz}
    BY <1>0 DEF Forma
  <2> QED BY <1>0, <1>1, <2>1 DEF Crear, Mover, Efecto, FichasBien
<1>2. ASSUME NEW c \in Categorias, Reactivar(c) \/ \E confirmado \in BOOLEAN : Borrar(c, confirmado)
      PROVE  Efecto /\ FichasBien'
  BY <1>0, <1>2 DEF Efecto, FichasBien, Reactivar, Borrar
<1>3. ASSUME NEW t \in Peticiones, NEW p \in Categorias, PrevisualizarCrear(t, p)
      PROVE  Efecto /\ FichasBien'
  BY <1>0, <1>3, PrevisualizarTipo DEF PrevisualizarCrear, Previsualizar, Efecto, SoloFicha
<1>4. ASSUME NEW t \in Peticiones, NEW p \in Categorias, NEW c \in Categorias, PrevisualizarMover(t, c, p)
      PROVE  Efecto /\ FichasBien'
  <2>1. Copia(c) \in Copias
    BY <1>0, CopiaTipo
  <2> QED BY <1>0, <1>4, <2>1, PrevisualizarTipo DEF PrevisualizarMover, Previsualizar, Efecto, SoloFicha
<1>5. ASSUME NEW t \in Peticiones, NEW c \in Categorias, ConfirmarCrear(t, c)
      PROVE  Efecto /\ FichasBien'
  <2>1. ficha[t].padre \in Categorias
    BY <1>0, <1>5 DEF ConfirmarCrear, FichasBien, Fichas
  <2> QED BY <1>0, <1>5, <2>1 DEF ConfirmarCrear, Efecto, FichasBien
<1>6. ASSUME NEW t \in Peticiones, LeerMovida(t)
      PROVE  Efecto /\ FichasBien'
  BY <1>0, <1>6, LeerMovidaTipo DEF LeerMovida, Efecto, SoloFicha
<1>7. ASSUME NEW t \in Peticiones, ConfirmarMover(t)
      PROVE  Efecto /\ FichasBien'
  <2>1. /\ ficha[t].padre \in Categorias /\ ficha[t].leida \in Copias
    BY <1>0, <1>7 DEF ConfirmarMover, FichasBien, Fichas
  <2>2. /\ ficha[t].leida.categoria \in Categorias
        /\ ficha[t].leida.padre \in Categorias \cup {Raiz}
    BY <2>1 DEF Copias
  <2> QED BY <1>0, <1>7, <2>1, <2>2 DEF ConfirmarMover, Efecto, FichasBien
<1>8. ASSUME NEW t \in Peticiones, Descartar(t)
      PROVE  Efecto /\ FichasBien'
  BY <1>0, <1>8 DEF Descartar, Efecto, SoloFicha, FichasBien
<1>9. ASSUME NEW x \in Productos,
             \/ \E c \in Categorias : CrearProducto(x, c) \/ CambiarCategoria(x, c)
             \/ BorrarProducto(x) \/ Entrar(x) \/ Salir(x)
      PROVE  Efecto /\ FichasBien'
  BY <1>0, <1>9 DEF Efecto, FichasBien, CrearProducto, CambiarCategoria, BorrarProducto, Entrar, Salir
<1>10. ASSUME NEW X \in SUBSET Productos, NEW destino \in [X -> Categorias], Recategorizar(destino)
       PROVE  Efecto /\ FichasBien'
  BY <1>0, <1>10 DEF Efecto, FichasBien, Recategorizar
<1> QED BY <1>1, <1>2, <1>3, <1>4, <1>5, <1>6, <1>7, <1>8, <1>9, <1>10 DEF Next

-----------------------------------------------------------------------------
(* The types *)

\* The two places of a product are places, and are different.
LEMMA LugaresAparte ==
  ASSUME NEW c \in Categorias, NEW d \in Categorias
  PROVE  /\ EnCategoria(c) \in Lugares /\ EnCajon(c) \in Lugares
         /\ EnCategoria(c) # EnCajon(d)
         /\ EnCategoria(c) = EnCategoria(d) => c = d
         /\ EnCajon(c) = EnCajon(d) => c = d
         /\ EnCategoria(c).categoria = c /\ EnCategoria(c).enCajon = FALSE
         /\ EnCajon(c).categoria = c /\ EnCajon(c).enCajon = TRUE
BY DEF EnCategoria, EnCajon, Lugares

\* The helpers of the writers keep the types.
LEMMA AyudasTipo ==
  ASSUME Forma
  PROVE  /\ \A P : Sincronizar(P) => esPadre' \in [Categorias -> BOOLEAN]
         /\ \A p : AplicarB3(p) =>
              /\ cajon' \in [Categorias -> Estados] /\ donde' \in [Productos -> Lugares \cup {Nadie}]
              /\ \A x \in Productos : donde[x] \in Lugares => donde'[x] \in Lugares
         /\ \A C : VaciarCajones(C) => cajon' \in [Categorias -> Estados]
<1>1. ASSUME NEW P, Sincronizar(P) PROVE esPadre' \in [Categorias -> BOOLEAN]
  <2>1. \A c \in Categorias : ConHijos(c)' \in BOOLEAN
    BY DEF ConHijos
  <2> QED BY <1>1, <2>1 DEF Sincronizar, Forma
<1>2. ASSUME NEW p, AplicarB3(p)
      PROVE  /\ cajon' \in [Categorias -> Estados] /\ donde' \in [Productos -> Lugares \cup {Nadie}]
             /\ \A x \in Productos : donde[x] \in Lugares => donde'[x] \in Lugares
  <2>1. CASE p \in Categorias /\ Directos(p) # {}
    <3>1. EnCajon(p) \in Lugares
      BY <2>1, LugaresAparte
    <3>2. donde' = [x \in Productos |-> IF donde[x] = EnCategoria(p) THEN EnCajon(p) ELSE donde[x]]
      BY <1>2, <2>1 DEF AplicarB3
    <3>3. cajon' \in [Categorias -> Estados]
      BY <1>2, <2>1 DEF AplicarB3, Forma, Estados
    <3> QED BY <3>1, <3>2, <3>3 DEF Forma
  <2>2. CASE ~(p \in Categorias /\ Directos(p) # {})
    BY <1>2, <2>2 DEF AplicarB3, Forma
  <2> QED BY <2>1, <2>2
<1>3. ASSUME NEW C, VaciarCajones(C) PROVE cajon' \in [Categorias -> Estados]
  BY <1>3 DEF VaciarCajones, Forma, Estados
<1> QED BY <1>1, <1>2, <1>3

\* Every effect keeps the types.
LEMMA FormaSigue ==
  ASSUME Forma, Efecto
  PROVE  Forma'
<1>1. ASSUME NEW c \in Categorias, NEW p \in Categorias \cup {Raiz}, Insertar(c, p)
      PROVE  Forma'
  BY <1>1, AyudasTipo DEF Insertar, Forma, Estados
<1>2. ASSUME NEW c \in Categorias, NEW p \in Categorias \cup {Raiz}, NEW a, Trasladar(c, p, a)
      PROVE  Forma'
  BY <1>2, AyudasTipo DEF Trasladar, Forma
<1>3. ASSUME NEW c \in Categorias, Reactivar(c)
      PROVE  Forma'
  BY <1>3, AyudasTipo DEF Reactivar, Forma, Estados
<1>4. ASSUME NEW c \in Categorias, NEW confirmado \in BOOLEAN, Borrar(c, confirmado)
      PROVE  Forma'
  BY <1>4, AyudasTipo DEF Borrar, Forma, Estados, Directos, Vivos
<1>5. ASSUME NEW x \in Productos, NEW c \in Categorias, CrearProducto(x, c) \/ CambiarCategoria(x, c)
      PROVE  Forma'
  BY <1>5, LugaresAparte, ZenonT(40) DEF CrearProducto, CambiarCategoria, Forma, Estados
<1>6. ASSUME NEW x \in Productos, BorrarProducto(x)
      PROVE  Forma'
  BY <1>6, AyudasTipo DEF BorrarProducto, Forma, Estados, Vivos
<1>7. ASSUME NEW x \in Productos, Entrar(x) \/ Salir(x)
      PROVE  Forma'
  BY <1>7 DEF Entrar, Salir, Forma
<1>8. ASSUME NEW X \in SUBSET Productos, NEW destino \in [X -> Categorias], Recategorizar(destino)
      PROVE  Forma'
  <2>1. cajon' \in [Categorias -> Estados]
    BY <1>8, AyudasTipo DEF Recategorizar
  <2>2. /\ donde' \in [Productos -> Lugares \cup {Nadie}]
        /\ \A x \in Productos : donde[x] \in Lugares => donde'[x] \in Lugares
    BY <1>8, LugaresAparte DEF Recategorizar, Forma
  <2> QED BY <1>8, <2>1, <2>2 DEF Recategorizar, Forma
<1>9. CASE SoloFicha
  BY <1>9 DEF SoloFicha, Forma
<1> QED BY <1>1, <1>2, <1>3, <1>4, <1>5, <1>6, <1>7, <1>8, <1>9 DEF Efecto

-----------------------------------------------------------------------------
(* The hierarchy *)

\* Hanging a category from an active one that is not below it closes no cycle.
LEMMA ColgarSinCiclo ==
  ASSUME Forma, ArbolSano,
         NEW c \in Categorias, NEW p \in Activas \cup {Raiz},
         c \in Activas => ~HaceCiclo(c, p) /\ p # c,
         c \notin Activas => p # c
  PROVE  Jerarquia!SinCiclos([padre EXCEPT ![c] = p])
<1> DEFINE nuevo == [padre EXCEPT ![c] = p]
<1> SUFFICES ASSUME NEW S \in SUBSET Categorias, \A n \in S : nuevo[n] \in S, NEW n0 \in S
             PROVE  FALSE
  BY DEF Jerarquia!SinCiclos
<1> HIDE DEF nuevo
<1>0. /\ \A n \in Categorias : nuevo[n] = IF n = c THEN p ELSE padre[n]
      /\ \A n \in Activas : padre[n] \in Activas \cup {Raiz}
      /\ Activas \subseteq Categorias
  BY DEF nuevo, Forma, ArbolSano, ActivasBajoActivas, Activas
<1>1. ASSUME NEW T \in SUBSET Categorias, NEW n1 \in T, \A n \in T : padre[n] \in T
      PROVE  FALSE
  BY <1>1 DEF ArbolSano, JerarquiaSinCiclos, Jerarquia!SinCiclos
<1>2. c \in S
  BY <1>0, <1>1
<1>3. p \in S /\ p \in Activas
  BY <1>0, <1>2, CatalogoSupuestos
<1>4. PICK D \in SUBSET Categorias :
        /\ c \in D \/ c \notin Activas
        /\ p \notin D
        /\ \A d \in Activas : padre[d] \in D => d \in D
  <2>1. CASE c \in Activas
    BY <2>1, <1>0, <1>3 DEF HaceCiclo, Jerarquia!Descendientes, Jerarquia!CerradoAbajo
  <2>2. CASE c \notin Activas
    <3>1. WITNESS {} \in SUBSET Categorias
    <3> QED BY <2>2
  <2> QED BY <2>1, <2>2
<1> DEFINE T == {s \in S : s \in Activas} \ D
<1>5. p \in T
  BY <1>3, <1>4
<1>6. ASSUME NEW n \in T PROVE padre[n] \in T
  <2>1. n # c /\ n \in Activas /\ n \in S
    BY <1>4
  <2>2. padre[n] \in S
    BY <2>1, <1>0
  <2>3. padre[n] \in Activas
    BY <2>1, <2>2, <1>0, CatalogoSupuestos
  <2>4. padre[n] \notin D
    BY <2>1, <1>4
  <2> QED BY <2>2, <2>3, <2>4
<1> QED BY <1>1, <1>5, <1>6

\* Every effect keeps the hierarchy a tree of active categories over active ones.
LEMMA ArbolSigue ==
  ASSUME Forma, ArbolSano, Efecto
  PROVE  ArbolSano'
<1> USE CatalogoSupuestos
<1>1. ASSUME NEW c \in Categorias, NEW p \in Categorias \cup {Raiz}, Insertar(c, p)
      PROVE  ArbolSano'
  <2>1. p \in Activas \cup {Raiz} /\ c \notin Activas /\ p # c
    BY <1>1 DEF Insertar, PadreValido, Activas
  <2>2. JerarquiaSinCiclos'
    BY <1>1, <2>1, ColgarSinCiclo DEF Insertar, JerarquiaSinCiclos, Jerarquia!SinCiclos
  <2>3. ActivasBajoActivas'
    BY <1>1, <2>1 DEF Insertar, AplicarB3, ArbolSano, ActivasBajoActivas, Activas, Forma
  <2> QED BY <2>2, <2>3 DEF ArbolSano
<1>2. ASSUME NEW c \in Categorias, NEW p \in Categorias \cup {Raiz}, NEW a, Trasladar(c, p, a)
      PROVE  ArbolSano'
  <2>1. p \in Activas \cup {Raiz} /\ p # c /\ ~HaceCiclo(c, p)
    BY <1>2 DEF Trasladar, PadreValido
  <2>2. JerarquiaSinCiclos'
    BY <1>2, <2>1, ColgarSinCiclo DEF Trasladar, JerarquiaSinCiclos, Jerarquia!SinCiclos
  <2>3. ActivasBajoActivas'
    BY <1>2, <2>1 DEF Trasladar, AplicarB3, ArbolSano, ActivasBajoActivas, Activas, Forma
  <2> QED BY <2>2, <2>3 DEF ArbolSano
<1>3. ASSUME NEW c \in Categorias, Reactivar(c)
      PROVE  ArbolSano'
  BY <1>3 DEF Reactivar, PadreValido, ArbolSano, JerarquiaSinCiclos, Jerarquia!SinCiclos,
              ActivasBajoActivas, Activas, Forma
<1>4. ASSUME NEW c \in Categorias, NEW confirmado \in BOOLEAN, Borrar(c, confirmado)
      PROVE  ArbolSano'
  <2>1. JerarquiaSinCiclos'
    BY <1>4 DEF Borrar, ArbolSano, JerarquiaSinCiclos, Jerarquia!SinCiclos
  <2>2. Activas' = Activas \ {c} /\ Hijas(c) = {} /\ cajon[c] # "ACTIVA"
    BY <1>4 DEF Borrar, Activas, Forma, ConHijos
  <2>3. ActivasBajoActivas'
    BY <1>4, <2>2 DEF Borrar, ArbolSano, ActivasBajoActivas, Hijas
  <2> QED BY <2>1, <2>3 DEF ArbolSano
<1>5. ASSUME UNCHANGED <<estado, padre>>, \A c \in Categorias : cajon'[c] = "ACTIVA" => cajon[c] = "ACTIVA"
      PROVE  ArbolSano'
  BY <1>5 DEF ArbolSano, JerarquiaSinCiclos, Jerarquia!SinCiclos, ActivasBajoActivas, Activas
<1>6. ASSUME NEW C, VaciarCajones(C)
      PROVE  \A c \in Categorias : cajon'[c] = "ACTIVA" => cajon[c] = "ACTIVA"
  BY <1>6 DEF VaciarCajones
<1>7. ASSUME NEW x \in Productos,
             \/ \E c \in Categorias : CrearProducto(x, c) \/ CambiarCategoria(x, c)
             \/ BorrarProducto(x) \/ Entrar(x) \/ Salir(x)
      PROVE  ArbolSano'
  BY <1>5, <1>6, <1>7 DEF CrearProducto, CambiarCategoria, BorrarProducto, Entrar, Salir
<1>8. ASSUME NEW X \in SUBSET Productos, NEW destino \in [X -> Categorias], Recategorizar(destino)
      PROVE  ArbolSano'
  BY <1>5, <1>6, <1>8 DEF Recategorizar
<1>9. CASE SoloFicha
  BY <1>5, <1>9 DEF SoloFicha
<1> QED BY <1>1, <1>2, <1>3, <1>4, <1>7, <1>8, <1>9 DEF Efecto

\* Every effect leaves the active products in active categories.
LEMMA ColocadosSigue ==
  ASSUME Forma, ArbolSano, ProductosColocados, Efecto
  PROVE  ProductosColocados'
<1> USE LugaresAparte
<1>1. ASSUME NEW p, AplicarB3(p), UNCHANGED producto, \A c \in Activas : c \in Activas'
      PROVE  ProductosColocados'
  <2>1. CASE p \in Categorias /\ Directos(p) # {}
    <3>1. cajon'[p] = "ACTIVA" /\ \A c \in Categorias : cajon[c] = "ACTIVA" => cajon'[c] = "ACTIVA"
      BY <1>1, <2>1 DEF AplicarB3, Forma
    <3>2. ASSUME NEW x \in Vivos
          PROVE  donde[x] \in Lugares /\ donde'[x] = IF donde[x] = EnCategoria(p) THEN EnCajon(p) ELSE donde[x]
      BY <1>1, <2>1, <3>2 DEF AplicarB3, Forma, Vivos
    <3>3. Vivos' = Vivos
      BY <1>1 DEF Vivos
    <3>4. \A x \in Vivos : donde[x] \in Lugares => donde[x].categoria \in Categorias
      BY DEF Lugares
    <3>5. ASSUME NEW x \in Vivos, donde[x] = EnCategoria(p)
          PROVE  donde'[x].enCajon /\ cajon'[donde'[x].categoria] = "ACTIVA"
      BY <2>1, <3>1, <3>2, <3>5
    <3>6. ASSUME NEW x \in Vivos, donde[x] # EnCategoria(p)
          PROVE  IF donde'[x].enCajon THEN cajon'[donde'[x].categoria] = "ACTIVA"
                                      ELSE donde'[x].categoria \in Activas'
      BY <1>1, <3>1, <3>2, <3>4, <3>6 DEF ProductosColocados
    <3> QED BY <3>3, <3>5, <3>6 DEF ProductosColocados
  <2>2. CASE ~(p \in Categorias /\ Directos(p) # {})
    BY <1>1, <2>2 DEF AplicarB3, ProductosColocados, Vivos
  <2> QED BY <2>1, <2>2
<1>2. ASSUME NEW c \in Categorias, NEW p \in Categorias \cup {Raiz}, Insertar(c, p)
      PROVE  ProductosColocados'
  <2>1. \A d \in Activas : d \in Activas'
    BY <1>2 DEF Insertar, Activas, Forma
  <2> QED BY <1>1, <1>2, <2>1 DEF Insertar
<1>3. ASSUME NEW c \in Categorias, NEW p \in Categorias \cup {Raiz}, NEW a, Trasladar(c, p, a)
      PROVE  ProductosColocados'
  <2>1. \A d \in Activas : d \in Activas'
    BY <1>3 DEF Trasladar, Activas
  <2> QED BY <1>1, <1>3, <2>1 DEF Trasladar
<1>4. ASSUME NEW c \in Categorias, Reactivar(c)
      PROVE  ProductosColocados'
  BY <1>4 DEF Reactivar, ProductosColocados, Activas, Vivos, Forma
<1>5. ASSUME NEW c \in Categorias, NEW confirmado \in BOOLEAN, Borrar(c, confirmado)
      PROVE  ProductosColocados'
  <2>1. Activas' = Activas \ {c} /\ UNCHANGED <<cajon, donde>>
    BY <1>5 DEF Borrar, Activas, Forma
  <2>2. ASSUME NEW x \in Vivos' PROVE x \in Vivos /\ donde[x] # EnCategoria(c) /\ donde[x] \in Lugares
    BY <1>5, <2>2 DEF Borrar, Vivos, Directos, Forma
  <2>3. ASSUME NEW x \in Vivos', ~donde[x].enCajon PROVE donde[x].categoria # c
    BY <2>2, <2>3 DEF EnCategoria, Lugares
  <2> QED BY <2>1, <2>2, <2>3 DEF ProductosColocados
<1>6. ASSUME NEW x \in Productos, NEW c \in Categorias, CrearProducto(x, c) \/ CambiarCategoria(x, c)
      PROVE  ProductosColocados'
  <2>1. ASSUME NEW y \in Vivos' PROVE donde'[y] = EnCategoria(c) \/ (y \in Vivos /\ donde'[y] = donde[y])
    BY <1>6, <2>1 DEF CrearProducto, CambiarCategoria, Vivos, Forma
  <2>2. c \in Activas /\ Activas' = Activas /\ cajon' = cajon
    BY <1>6 DEF CrearProducto, CambiarCategoria, Hoja, Activas
  <2>3. ASSUME NEW y \in Vivos', donde'[y] = EnCategoria(c)
        PROVE  ~donde'[y].enCajon /\ donde'[y].categoria \in Activas'
    BY <2>2, <2>3
  <2>4. ASSUME NEW y \in Vivos, donde'[y] = donde[y]
        PROVE  IF donde'[y].enCajon THEN cajon'[donde'[y].categoria] = "ACTIVA"
                                    ELSE donde'[y].categoria \in Activas'
    BY <2>2, <2>4 DEF ProductosColocados
  <2> QED BY <2>1, <2>3, <2>4 DEF ProductosColocados
<1>7. ASSUME NEW C, VaciarCajones(C), UNCHANGED estado,
             \A x \in Vivos' : x \in Vivos /\ donde'[x] \in Lugares /\
               (donde'[x] = donde[x] \/ \E c \in Activas : donde'[x] = EnCategoria(c))
      PROVE  ProductosColocados'
  <2> SUFFICES ASSUME NEW x \in Vivos'
               PROVE  IF donde'[x].enCajon THEN cajon'[donde'[x].categoria] = "ACTIVA"
                                           ELSE donde'[x].categoria \in Activas
    BY <1>7 DEF ProductosColocados, Activas
  <2>1. CASE ~donde'[x].enCajon
    <3>1. CASE donde'[x] = donde[x]
      BY <1>7, <2>1, <3>1 DEF ProductosColocados
    <3>2. ASSUME NEW c \in Activas, donde'[x] = EnCategoria(c) PROVE donde'[x].categoria \in Activas
      BY <3>2 DEF Activas
    <3> QED BY <1>7, <2>1, <3>1, <3>2
  <2>2. CASE donde'[x].enCajon
    <3>1. donde'[x] = donde[x] /\ x \in Vivos
      BY <1>7, <2>2, ZenonT(40) DEF Activas
    <3> DEFINE c == donde[x].categoria
    <3>2. c \in Categorias /\ cajon[c] = "ACTIVA"
      BY <1>7, <2>2, <3>1 DEF ProductosColocados, Lugares
    <3>3. donde'[x] = EnCajon(c)
      BY <1>7, <2>2, <3>1 DEF EnCajon, Lugares
    <3>4. x \in EnElCajon(c)'
      BY <3>3 DEF EnElCajon, EnCajon
    <3> QED BY <1>7, <3>1, <3>2, <3>4, <2>2 DEF VaciarCajones
  <2> QED BY <2>1, <2>2
<1>8. ASSUME NEW x \in Productos, BorrarProducto(x)
      PROVE  ProductosColocados'
  <2>1. \A y \in Vivos' : y \in Vivos /\ donde'[y] \in Lugares /\ donde'[y] = donde[y]
    BY <1>8 DEF BorrarProducto, Vivos, Forma
  <2> QED BY <1>7, <1>8, <2>1 DEF BorrarProducto
<1>9. ASSUME NEW x \in Productos, Entrar(x) \/ Salir(x)
      PROVE  ProductosColocados'
  BY <1>9 DEF Entrar, Salir, ProductosColocados, Activas, Vivos
<1>10. ASSUME NEW X \in SUBSET Productos, NEW destino \in [X -> Categorias], Recategorizar(destino)
       PROVE  ProductosColocados'
  <2>1. ASSUME NEW y \in Vivos'
        PROVE  /\ y \in Vivos /\ donde'[y] \in Lugares
               /\ donde'[y] = donde[y] \/ \E c \in Activas : donde'[y] = EnCategoria(c)
    <3>1. y \in Vivos /\ donde[y] \in Lugares
      BY <1>10, <2>1 DEF Recategorizar, Vivos, Forma
    <3>2. CASE y \in X
      BY <1>10, <3>1, <3>2 DEF Recategorizar, Pendiente, Hoja, Vivos
    <3>3. CASE y \notin X
      BY <1>10, <3>1, <3>3 DEF Recategorizar, Vivos
    <3> QED BY <3>1, <3>2, <3>3
  <2> QED BY <1>7, <1>10, <2>1 DEF Recategorizar
<1>11. CASE SoloFicha
  BY <1>11 DEF SoloFicha, ProductosColocados, Activas, Vivos
<1> QED BY <1>2, <1>3, <1>4, <1>5, <1>6, <1>8, <1>9, <1>10, <1>11 DEF Efecto

\* Every effect keeps the flag of every parent.
LEMMA SenaladoSigue ==
  ASSUME Forma, PadreSenalado, Efecto
  PROVE  PadreSenalado'
<1>1. ASSUME NEW P, Sincronizar(P), \A c \in Categorias \ P : ConHijos(c)' => ConHijos(c)
      PROVE  PadreSenalado'
  BY <1>1 DEF Sincronizar, PadreSenalado
<1>2. ASSUME UNCHANGED esPadre, \A c \in Categorias : ConHijos(c)' => ConHijos(c)
      PROVE  PadreSenalado'
  BY <1>2 DEF PadreSenalado
<1>3. ASSUME NEW c \in Categorias, NEW p \in Categorias \cup {Raiz}, Insertar(c, p)
      PROVE  PadreSenalado'
  <2>1. ASSUME NEW d \in Categorias \ {p} PROVE ConHijos(d)' => ConHijos(d)
    BY <1>3, <2>1 DEF Insertar, AplicarB3, ConHijos, Hijas, Activas, Forma
  <2> QED BY <1>1, <1>3, <2>1 DEF Insertar
<1>4. ASSUME NEW c \in Categorias, NEW p \in Categorias \cup {Raiz}, NEW a, Trasladar(c, p, a)
      PROVE  PadreSenalado'
  <2>1. ASSUME NEW d \in Categorias \ {p} PROVE ConHijos(d)' => ConHijos(d)
    BY <1>4, <2>1 DEF Trasladar, AplicarB3, ConHijos, Hijas, Activas, Forma
  <2> QED BY <1>1, <1>4, <2>1 DEF Trasladar
<1>5. ASSUME NEW c \in Categorias, Reactivar(c)
      PROVE  PadreSenalado'
  <2>1. ASSUME NEW d \in Categorias \ {padre[c]} PROVE ConHijos(d)' => ConHijos(d)
    BY <1>5, <2>1 DEF Reactivar, ConHijos, Hijas, Activas, Forma
  <2> QED BY <1>1, <1>5, <2>1 DEF Reactivar
<1>6. ASSUME NEW c \in Categorias, NEW confirmado \in BOOLEAN, Borrar(c, confirmado)
      PROVE  PadreSenalado'
  <2>1. ASSUME NEW d \in Categorias PROVE ConHijos(d)' => ConHijos(d)
    BY <1>6 DEF Borrar, ConHijos, Hijas, Activas, Forma
  <2> QED BY <1>1, <1>6, <2>1 DEF Borrar
<1>7. ASSUME UNCHANGED <<estado, padre>>, \A c \in Categorias : cajon'[c] = "ACTIVA" => cajon[c] = "ACTIVA"
      PROVE  \A c \in Categorias : ConHijos(c)' => ConHijos(c)
  BY <1>7 DEF ConHijos, Hijas, Activas
<1>8. ASSUME NEW C, VaciarCajones(C)
      PROVE  \A c \in Categorias : cajon'[c] = "ACTIVA" => cajon[c] = "ACTIVA"
  BY <1>8 DEF VaciarCajones
<1>9. ASSUME NEW x \in Productos,
             \/ \E c \in Categorias : CrearProducto(x, c) \/ CambiarCategoria(x, c)
             \/ BorrarProducto(x) \/ Entrar(x) \/ Salir(x)
      PROVE  PadreSenalado'
  BY <1>2, <1>7, <1>8, <1>9 DEF CrearProducto, CambiarCategoria, BorrarProducto, Entrar, Salir
<1>10. ASSUME NEW X \in SUBSET Productos, NEW destino \in [X -> Categorias], Recategorizar(destino)
      PROVE  PadreSenalado'
  BY <1>2, <1>7, <1>8, <1>10 DEF Recategorizar
<1>11. CASE SoloFicha
  BY <1>2, <1>7, <1>11 DEF SoloFicha
<1> QED BY <1>3, <1>4, <1>5, <1>6, <1>9, <1>10, <1>11 DEF Efecto

-----------------------------------------------------------------------------
(* Theorems *)

\* The empty catalog is consistent.
LEMMA InicioBien == Init => Inv
<1> SUFFICES ASSUME Init PROVE Inv
  OBVIOUS
<1> USE CatalogoSupuestos
<1>1. TypeOK
  BY DEF Init, TypeOK, Estados
<1>2. ArbolSano
  BY DEF Init, ArbolSano, JerarquiaSinCiclos, Jerarquia!SinCiclos, ActivasBajoActivas, Activas
<1>3. ProductosColocados /\ PadreSenalado
  BY DEF Init, ProductosColocados, PadreSenalado, Vivos, ConHijos, Hijas, Activas
<1> QED BY <1>1, <1>2, <1>3 DEF Inv

\* Every step of the catalog keeps it consistent.
LEMMA PasoBien == Inv /\ [Next]_vars => Inv'
<1> SUFFICES ASSUME Inv, [Next]_vars PROVE Inv'
  OBVIOUS
<1>1. Forma /\ FichasBien
  BY DEF Inv, TypeOK, Forma, FichasBien
<1>2. Efecto /\ FichasBien'
  <2>1. CASE Next
    BY <2>1, PasoTieneEfecto DEF Inv
  <2>2. CASE UNCHANGED vars
    BY <2>2, <1>1 DEF vars, Efecto, SoloFicha, FichasBien
  <2> QED BY <2>1, <2>2
<1>3. Forma' /\ ArbolSano' /\ ProductosColocados' /\ PadreSenalado'
  BY <1>1, <1>2, FormaSigue, ArbolSigue, ColocadosSigue, SenaladoSigue DEF Inv
<1>4. TypeOK'
  BY <1>2, <1>3 DEF TypeOK, Forma, FichasBien
<1> QED BY <1>3, <1>4 DEF Inv

\* The tree, the places of the products and the flags of the parents are consistent in
\* every reachable state.
THEOREM InvarianteInductivo == Spec => []Inv
<1> QED BY InicioBien, PasoBien, PTL DEF Spec

\* Every variable of the catalog keeps its type: a product that exists has its category.
THEOREM TiposCorrectos == Spec => []TypeOK
<1>1. Inv => TypeOK
  BY DEF Inv
<1> QED BY <1>1, InvarianteInductivo, PTL

\* Moves with copies read before the lock, reactivations and deletions never close a
\* cycle nor leave an active category below an inactive one.
THEOREM ArbolSiempreSano == Spec => []ArbolSano
<1>1. Inv => ArbolSano
  BY DEF Inv
<1> QED BY <1>1, InvarianteInductivo, PTL

\* No active product is left in an inactive category or in a closed temporary one.
THEOREM ProductosSiempreColocados == Spec => []ProductosColocados
<1>1. Inv => ProductosColocados
  BY DEF Inv
<1> QED BY <1>1, InvarianteInductivo, PTL

\* A category with active children always says so.
THEOREM PadresSenalados == Spec => []PadreSenalado
<1>1. Inv => PadreSenalado
  BY DEF Inv
<1> QED BY <1>1, InvarianteInductivo, PTL

\* The tree and the flag of its parents hold together.
THEOREM ArbolSiempreCoherente == Spec => []ArbolCoherente
<1>1. ArbolSano /\ PadreSenalado => ArbolCoherente
  BY DEF ArbolCoherente
<1> QED BY <1>1, ArbolSiempreSano, PadresSenalados, PTL

\* In a sound hierarchy the walk from the roots meets every active category, so
\* get_category_tree never refuses to answer.
THEOREM ArbolSiempreLegible == Spec => []ArbolLegible
<1>1. ArbolSano /\ TypeOK => ArbolLegible
  <2> SUFFICES ASSUME ArbolSano, TypeOK PROVE Visitadas = Activas
    BY DEF ArbolLegible
  <2> DEFINE Raices == {r \in Activas : padre[r] = Raiz}
  <2>1. ASSUME NEW r \in Raices, NEW d \in Jerarquia!Descendientes(r, padre, Activas)
        PROVE  d \in Activas
    <3>1. Activas \in SUBSET Categorias /\ Jerarquia!CerradoAbajo(Activas, padre, Activas)
      BY DEF Activas, Jerarquia!CerradoAbajo
    <3> QED BY <2>1, <3>1 DEF Jerarquia!Descendientes
  <2>2. ASSUME NEW d \in Activas, d \notin Visitadas PROVE FALSE
    <3> DEFINE S == Activas \ Visitadas
    <3>1. PICK n \in S : padre[n] \notin S
      BY <2>2 DEF ArbolSano, JerarquiaSinCiclos, Jerarquia!SinCiclos, Activas
    <3>2. CASE padre[n] = Raiz
      <4>1. n \in Jerarquia!Descendientes(n, padre, Activas)
        BY <3>1 DEF Jerarquia!Descendientes, Activas
      <4> QED BY <3>1, <3>2, <4>1 DEF Visitadas
    <3>3. CASE padre[n] # Raiz
      <4>1. padre[n] \in Visitadas
        BY <3>1, <3>3 DEF ArbolSano, ActivasBajoActivas, Activas
      <4>2. PICK r \in Raices : padre[n] \in Jerarquia!Descendientes(r, padre, Activas)
        BY <4>1 DEF Visitadas
      <4>3. n \in Jerarquia!Descendientes(r, padre, Activas)
        BY <3>1, <4>2 DEF Jerarquia!Descendientes, Jerarquia!CerradoAbajo, Activas
      <4> QED BY <3>1, <4>3 DEF Visitadas
    <3> QED BY <3>2, <3>3
  <2> QED BY <2>1, <2>2 DEF Visitadas
<1>2. Inv => ArbolLegible
  BY <1>1 DEF Inv
<1> QED BY <1>2, InvarianteInductivo, PTL

\* Only a reactivation puts children and direct products together.
THEOREM SoloLaReactivacionMezcla == Spec => SoloReactivarMezcla
<1> DEFINE Permitido == \A c \in Categorias :
       Mezclada(c)' /\ ~Mezclada(c)
         => \E d \in Categorias : padre[d] = c /\ estado[d] = "INACTIVA" /\ estado'[d] = "ACTIVA"
<1>1. ASSUME Forma, Efecto PROVE Permitido
  <2>1. ASSUME \A q \in Categorias : Mezclada(q)' => Mezclada(q) PROVE Permitido
    BY <2>1
  <2>2. ASSUME NEW p \in Categorias \cup {Raiz}, AplicarB3(p), Vivos' = Vivos,
               \A q \in Categorias \ {p} : ConHijos(q)' => ConHijos(q)
        PROVE  Permitido
    <3>1. ASSUME NEW q \in Categorias \ {p} PROVE Directos(q)' \subseteq Directos(q)
      <4>1. ASSUME NEW x \in Directos(q)' PROVE x \in Directos(q)
        <5>1. x \in Vivos /\ x \in Productos /\ donde'[x] = EnCategoria(q)
          BY <2>2, <4>1 DEF Directos, Vivos, EnCategoria
        <5>2. CASE p \in Categorias /\ Directos(p) # {}
          <6>1. donde'[x] = IF donde[x] = EnCategoria(p) THEN EnCajon(p) ELSE donde[x]
            BY <2>2, <5>1, <5>2 DEF AplicarB3
          <6>2. EnCajon(p) # EnCategoria(q)
            BY <3>1, <5>2, LugaresAparte
          <6> QED BY <5>1, <6>1, <6>2 DEF Directos
        <5>3. CASE ~(p \in Categorias /\ Directos(p) # {})
          BY <2>2, <5>1, <5>3 DEF AplicarB3, Directos
        <5> QED BY <5>2, <5>3
      <4> QED BY <4>1
    <3>2. ASSUME p \in Categorias PROVE Directos(p)' = {}
      <4>1. CASE Directos(p) # {}
        <5>1. ASSUME NEW x \in Productos PROVE donde'[x] # EnCategoria(p)
          <6>1. EnCajon(p) # EnCategoria(p)
            BY <3>2, LugaresAparte
          <6> QED BY <2>2, <3>2, <4>1, <5>1, <6>1 DEF AplicarB3
        <5> QED BY <5>1 DEF Directos, Vivos, EnCategoria
      <4>2. CASE Directos(p) = {}
        BY <2>2, <4>2 DEF AplicarB3, Directos, EnCategoria
      <4> QED BY <4>1, <4>2
    <3> QED BY <2>2, <3>1, <3>2 DEF Mezclada
  <2>3. ASSUME NEW c \in Categorias, NEW p \in Categorias \cup {Raiz}, Insertar(c, p)
        PROVE  Permitido
    <3>1. ASSUME NEW d \in Categorias \ {p} PROVE ConHijos(d)' => ConHijos(d)
      BY <1>1, <2>3, <3>1 DEF Insertar, AplicarB3, ConHijos, Hijas, Activas, Forma
    <3> QED BY <2>2, <2>3, <3>1 DEF Insertar, Vivos
  <2>4. ASSUME NEW c \in Categorias, NEW p \in Categorias \cup {Raiz}, NEW a, Trasladar(c, p, a)
        PROVE  Permitido
    <3>1. ASSUME NEW d \in Categorias \ {p} PROVE ConHijos(d)' => ConHijos(d)
      BY <1>1, <2>4, <3>1 DEF Trasladar, AplicarB3, ConHijos, Hijas, Activas, Forma
    <3> QED BY <2>2, <2>4, <3>1 DEF Trasladar, Vivos
  <2>5. ASSUME NEW c \in Categorias, Reactivar(c)
        PROVE  Permitido
    <3>1. ASSUME NEW q \in Categorias, q # padre[c] PROVE Mezclada(q)' => Mezclada(q)
      BY <1>1, <2>5, <3>1 DEF Reactivar, Mezclada, Directos, Vivos, EnCategoria, ConHijos, Hijas, Activas, Forma
    <3>2. estado[c] = "INACTIVA" /\ estado'[c] = "ACTIVA"
      BY <1>1, <2>5 DEF Reactivar, Forma
    <3> QED BY <3>1, <3>2
  <2>6. ASSUME NEW c \in Categorias, NEW confirmado \in BOOLEAN, Borrar(c, confirmado)
        PROVE  Permitido
    <3>1. ASSUME NEW q \in Categorias PROVE Mezclada(q)' => Mezclada(q)
      BY <1>1, <2>6 DEF Borrar, Mezclada, Directos, Vivos, EnCategoria, ConHijos, Hijas, Activas, Forma
    <3> QED BY <2>1, <3>1
  <2>7. ASSUME UNCHANGED <<estado, padre>>, \A q \in Categorias : cajon'[q] = "ACTIVA" => cajon[q] = "ACTIVA",
               \A x \in Vivos' : (x \in Vivos /\ donde'[x] = donde[x]) \/
                                 \E c \in Categorias : Hoja(c) /\ donde'[x] = EnCategoria(c)
        PROVE  Permitido
    <3>1. ASSUME NEW q \in Categorias PROVE ConHijos(q)' => ConHijos(q)
      BY <2>7 DEF ConHijos, Hijas, Activas
    <3>2. ASSUME NEW q \in Categorias, ConHijos(q), NEW x \in Directos(q)' PROVE x \in Directos(q)
      <4>1. x \in Vivos' /\ donde'[x] = EnCategoria(q)
        BY <3>2 DEF Directos, EnCategoria
      <4>2. ASSUME NEW c \in Categorias, Hoja(c), donde'[x] = EnCategoria(c) PROVE FALSE
        BY <3>2, <4>1, <4>2, LugaresAparte DEF Hoja
      <4> QED BY <2>7, <4>1, <4>2 DEF Directos
    <3> QED BY <2>1, <3>1, <3>2 DEF Mezclada
  <2>8. ASSUME NEW C, VaciarCajones(C)
        PROVE  \A q \in Categorias : cajon'[q] = "ACTIVA" => cajon[q] = "ACTIVA"
    BY <2>8 DEF VaciarCajones
  <2>9. ASSUME NEW x \in Productos, NEW c \in Categorias, CrearProducto(x, c) \/ CambiarCategoria(x, c)
        PROVE  Permitido
    <3>1. ASSUME NEW y \in Vivos'
          PROVE  (y \in Vivos /\ donde'[y] = donde[y]) \/ donde'[y] = EnCategoria(c)
      BY <1>1, <2>9, <3>1 DEF CrearProducto, CambiarCategoria, Vivos, Forma
    <3>2. Hoja(c) /\ UNCHANGED <<estado, padre, cajon>>
      BY <2>9 DEF CrearProducto, CambiarCategoria
    <3> QED BY <2>7, <3>1, <3>2
  <2>10. ASSUME NEW x \in Productos, BorrarProducto(x) \/ Entrar(x) \/ Salir(x)
        PROVE  Permitido
    <3>1. ASSUME NEW y \in Vivos' PROVE y \in Vivos /\ donde'[y] = donde[y]
      BY <1>1, <2>10, <3>1 DEF BorrarProducto, Entrar, Salir, Vivos, Forma
    <3> QED BY <2>7, <2>8, <2>10, <3>1 DEF BorrarProducto, Entrar, Salir
  <2>11. ASSUME NEW X \in SUBSET Productos, NEW destino \in [X -> Categorias], Recategorizar(destino)
        PROVE  Permitido
    <3>1. ASSUME NEW y \in Vivos'
          PROVE  (y \in Vivos /\ donde'[y] = donde[y]) \/
                 \E c \in Categorias : Hoja(c) /\ donde'[y] = EnCategoria(c)
      <4>1. y \in Vivos /\ donde'[y] = IF y \in X THEN EnCategoria(destino[y]) ELSE donde[y]
        BY <1>1, <2>11, <3>1 DEF Recategorizar, Vivos, Forma
      <4> QED BY <2>11, <4>1 DEF Recategorizar, Pendiente
    <3> QED BY <2>7, <2>8, <2>11, <3>1 DEF Recategorizar
  <2>12. CASE SoloFicha
    BY <2>7, <2>12 DEF SoloFicha, Vivos
  <2> QED BY <1>1, <2>3, <2>4, <2>5, <2>6, <2>9, <2>10, <2>11, <2>12 DEF Efecto
<1>2. Inv /\ [Next]_vars =>
        [\A c \in Categorias :
           Mezclada(c)' /\ ~Mezclada(c)
             => \E d \in Categorias : padre[d] = c /\ estado[d] = "INACTIVA" /\ estado'[d] = "ACTIVA"]_vars
  <2>1. ASSUME Inv, Next PROVE Permitido
    BY <1>1, <2>1, PasoTieneEfecto DEF Inv, TypeOK, Forma
  <2> QED BY <2>1
<1> QED BY <1>2, InvarianteInductivo, PTL DEF Spec, SoloReactivarMezcla

\* A confirmation reclassifies exactly the products its preview showed.
THEOREM ConfirmaSoloLoVisto == Spec => ConfirmaLoVisto
<1> DEFINE Fiel == \A t \in Peticiones :
       ficha[t] # Nadie /\ ficha'[t] = Nadie /\ <<estado, padre>>' # <<estado, padre>>
         => {x \in Vivos : donde'[x] # donde[x]} = ficha[t].vista.directos
<1>1. ASSUME NEW t \in Peticiones, TypeOK, ficha[t] # Nadie, NEW copia, Vigente(t, copia), AplicarB3(ficha[t].padre)
      PROVE  {x \in Vivos : donde'[x] # donde[x]} = ficha[t].vista.directos
  <2> DEFINE p == ficha[t].padre
  <2>1. p \in Categorias
    BY <1>1 DEF TypeOK, Fichas
  <2>2. ficha[t].vista.directos = Directos(p) /\ Directos(p) # {}
    BY <1>1 DEF Vigente, Vista
  <2>3. \A x \in Vivos : donde'[x] = IF donde[x] = EnCategoria(p) THEN EnCajon(p) ELSE donde[x]
    BY <1>1, <2>1, <2>2 DEF AplicarB3, Vivos
  <2>4. EnCategoria(p) # EnCajon(p)
    BY <2>1, LugaresAparte
  <2> QED BY <2>2, <2>3, <2>4 DEF Directos
<1>2. ASSUME TypeOK, Next PROVE Fiel
  <2> SUFFICES ASSUME NEW t \in Peticiones, ficha[t] # Nadie, ficha'[t] = Nadie,
                      <<estado, padre>>' # <<estado, padre>>
               PROVE  {x \in Vivos : donde'[x] # donde[x]} = ficha[t].vista.directos
    OBVIOUS
  <2>1. ASSUME NEW u \in Peticiones, u # t PROVE ~(\E c \in Categorias : ConfirmarCrear(u, c)) /\ ~ConfirmarMover(u)
    BY <1>2, <2>1 DEF ConfirmarCrear, ConfirmarMover, TypeOK
  <2>2. ~(UNCHANGED ficha) /\ ~(UNCHANGED <<estado, padre>>)
    OBVIOUS
  <2>3. \/ \E c \in Categorias : ConfirmarCrear(t, c)
        \/ ConfirmarMover(t)
    BY <1>2, <2>1, <2>2 DEF Next, Crear, Mover, Reactivar, Borrar, PrevisualizarCrear, PrevisualizarMover,
         Previsualizar, LeerMovida, Descartar, CrearProducto, CambiarCategoria, BorrarProducto,
         Entrar, Salir, Recategorizar
  <2> QED BY <1>1, <1>2, <2>3 DEF ConfirmarCrear, ConfirmarMover, Insertar, Trasladar
<1>3. Inv /\ [Next]_vars => [Fiel]_vars
  BY <1>2 DEF Inv
<1> QED BY <1>3, InvarianteInductivo, PTL DEF Spec, ConfirmaLoVisto
==============================================================================

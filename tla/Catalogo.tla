------------------------------- MODULE Catalogo -------------------------------
(***************************************************************************)
(* The category hierarchy and the place of the products in it.             *)
(*                                                                         *)
(* Every writer takes the catalog lock first and reads afterwards, so it   *)
(* is one action.  The exception is the confirmation of a move: it loads   *)
(* the category before the lock, and its session goes on answering with    *)
(* that copy.  A preview is a request of its own, any time before.         *)
(*                                                                         *)
(* The temporary category "Sin clasificar" of p is cajon[p]: it is created *)
(* once for each parent, never moves, and takes no children.               *)
(*                                                                         *)
(* Abstracted: names (a duplicate among siblings refuses a request, which  *)
(* is a request that is not made), companies and bodegas of a product,     *)
(* its data and taxes, the attributes (Atributos), the amount of stock.    *)
(* Movements of inventory do not take the lock: Entrar and Salir.          *)
(***************************************************************************)
CONSTANTS
  Categorias,
  Productos,
  Peticiones,   \* clients that preview and then confirm
  Raiz,         \* no parent
  Nadie

ASSUME CatalogoSupuestos == Raiz \notin Categorias /\ Nadie \notin Categorias

VARIABLES
  estado,       \* of each category: not created, active or inactive
  padre,        \* parent_id
  esPadre,      \* es_padre, the stored projection
  cajon,        \* the temporary category below each one
  producto,     \* state of each product
  donde,        \* its categoria_principal_id; Nadie before it is created
  conStock,     \* products with stock
  ficha         \* what each client holds of its preview

vars == <<estado, padre, esPadre, cajon, producto, donde, conStock, ficha>>

Jerarquia == INSTANCE Arbol WITH Nodos <- Categorias

Estados == {"NINGUNA", "ACTIVA", "INACTIVA"}
Lugares == [categoria : Categorias, enCajon : BOOLEAN]
EnCategoria(c) == [categoria |-> c, enCajon |-> FALSE]
EnCajon(c)     == [categoria |-> c, enCajon |-> TRUE]

Activas      == {c \in Categorias : estado[c] = "ACTIVA"}
Vivos        == {x \in Productos : producto[x] = "ACTIVA"}
Hijas(c)     == {d \in Activas : padre[d] = c}
ConHijos(c)  == Hijas(c) # {} \/ cajon[c] = "ACTIVA"
Directos(c)  == {x \in Vivos : donde[x] = EnCategoria(c)}
EnElCajon(c) == {x \in Vivos : donde[x] = EnCajon(c)}

\* What a preview of the children of p signs: copia is the category to move, or Nadie.
Copia(c)     == [categoria |-> c, padre |-> padre[c]]
Copias       == [categoria : Categorias, padre : Categorias \cup {Raiz}]
Nueva        == [categoria |-> Nadie, padre |-> Raiz]
Vista(p, copia) == [activa |-> p \in Activas, conHijos |-> ConHijos(p),
                    directos |-> Directos(p), cajon |-> cajon[p], copia |-> copia]
Vistas       == [activa : BOOLEAN, conHijos : BOOLEAN, directos : SUBSET Productos,
                 cajon : Estados, copia : Copias \cup {Nueva}]
Fichas       == [padre : Categorias, vista : Vistas, leida : Copias \cup {Nueva}]

Init ==
  /\ estado = [c \in Categorias |-> "NINGUNA"]
  /\ padre = [c \in Categorias |-> Raiz]
  /\ esPadre = [c \in Categorias |-> FALSE]
  /\ cajon = [c \in Categorias |-> "NINGUNA"]
  /\ producto = [x \in Productos |-> "NINGUNA"]
  /\ donde = [x \in Productos |-> Nadie]
  /\ conStock = {}
  /\ ficha = [t \in Peticiones |-> Nadie]

-----------------------------------------------------------------------------
(* Helpers of the writers *)

\* Faulty variant of Sincronizar: the parent that gains the child is not looked at.
SincronizarAnterior(P) ==
  esPadre' = [c \in Categorias |-> IF c \in P /\ ~ConHijos(c)' THEN FALSE ELSE esPadre[c]]

\* _sync_parent_projection, for the categories of P, as the request leaves the tree.
Sincronizar(P) ==
  esPadre' = [c \in Categorias |-> IF c \in P THEN ConHijos(c)' ELSE esPadre[c]]

\* A parent that will take a child: active, and never a temporary category.
PadreValido(p) == p = Raiz \/ p \in Activas

\* Faulty variant of AplicarB3: the temporary category that exists is not reactivated.
AplicarB3SinReactivar(p) ==
  IF p \in Categorias /\ Directos(p) # {}
  THEN /\ cajon' = [cajon EXCEPT ![p] = IF @ = "NINGUNA" THEN "ACTIVA" ELSE @]
       /\ donde' = [x \in Productos |-> IF donde[x] = EnCategoria(p) THEN EnCajon(p) ELSE donde[x]]
  ELSE UNCHANGED <<cajon, donde>>

\* Rule B3: the products directly in a leaf that becomes a parent go to its temporary
\* category, created or reactivated.  Only active products make it happen; all move.
AplicarB3(p) ==
  IF p \in Categorias /\ Directos(p) # {}
  THEN /\ cajon' = [cajon EXCEPT ![p] = "ACTIVA"]
       /\ donde' = [x \in Productos |-> IF donde[x] = EnCategoria(p) THEN EnCajon(p) ELSE donde[x]]
  ELSE UNCHANGED <<cajon, donde>>

\* desactivar_defaults_vacios: the projection of the parent stays as it was.
VaciarCajones(C) ==
  cajon' = [c \in Categorias |->
              IF c \in C /\ cajon[c] = "ACTIVA" /\ EnElCajon(c)' = {} THEN "INACTIVA" ELSE cajon[c]]

\* A product may be put in c: an active leaf.
Hoja(c) == c \in Activas /\ ~ConHijos(c)

-----------------------------------------------------------------------------
(* Categories *)

Insertar(c, p) ==
  /\ estado[c] = "NINGUNA"
  /\ PadreValido(p)
  /\ AplicarB3(p)
  /\ estado' = [estado EXCEPT ![c] = "ACTIVA"]
  /\ padre' = [padre EXCEPT ![c] = p]
  /\ Sincronizar({p})
  /\ UNCHANGED <<producto, conStock>>

\* Without a confirmation, only where no product would be moved.
Crear(c, p) ==
  /\ p \in Categorias => Directos(p) = {}
  /\ Insertar(c, p)
  /\ UNCHANGED ficha

\* _detect_cycle walks down from the category that moves, along active children.
HaceCiclo(c, p) == p \in Jerarquia!Descendientes(c, padre, Activas)

\* anterior is the parent that the session of the request knows.
Trasladar(c, p, anterior) ==
  /\ p # anterior
  /\ p # c /\ ~HaceCiclo(c, p)
  /\ PadreValido(p)
  /\ AplicarB3(p)
  /\ padre' = [padre EXCEPT ![c] = p]
  /\ UNCHANGED estado
  /\ Sincronizar({anterior, p})
  /\ UNCHANGED <<producto, conStock>>

Mover(c, p) ==
  /\ estado[c] # "NINGUNA"
  /\ p \in Categorias => Directos(p) = {}
  /\ Trasladar(c, p, padre[c])
  /\ UNCHANGED ficha

\* The direct products of the parent are not reclassified.
Reactivar(c) ==
  /\ estado[c] = "INACTIVA"
  /\ PadreValido(padre[c])
  /\ estado' = [estado EXCEPT ![c] = "ACTIVA"]
  /\ UNCHANGED <<padre, cajon>>
  /\ Sincronizar({padre[c], c})
  /\ UNCHANGED <<producto, donde, conStock, ficha>>

\* The products without stock go with it, once the caller has confirmed.
Borrar(c, confirmado) ==
  /\ c \in Activas
  /\ ~ConHijos(c)
  /\ Directos(c) \cap conStock = {}
  /\ confirmado \/ Directos(c) = {}
  /\ estado' = [estado EXCEPT ![c] = "INACTIVA"]
  /\ producto' = [x \in Productos |-> IF x \in Directos(c) THEN "INACTIVA" ELSE producto[x]]
  /\ UNCHANGED <<padre, cajon>>
  /\ Sincronizar({padre[c]})
  /\ UNCHANGED <<donde, conStock, ficha>>

-----------------------------------------------------------------------------
(* Previews of B3 and their confirmations.  The token signs the operation,  *)
(* its payload and Vista; one over no products is never accepted, and is    *)
(* not kept here.                                                           *)

Previsualizar(t, p, copia) ==
  /\ ficha[t] = Nadie
  /\ p \in Activas /\ Directos(p) # {}
  /\ ficha' = [ficha EXCEPT ![t] = [padre |-> p, vista |-> Vista(p, copia), leida |-> Nueva]]
  /\ UNCHANGED <<estado, padre, esPadre, cajon, producto, donde, conStock>>

PrevisualizarCrear(t, p)    == Previsualizar(t, p, Nueva)
PrevisualizarMover(t, c, p) == c \in Activas /\ Previsualizar(t, p, Copia(c))

\* Under the lock: the token holds for what the session reads now.
Vigente(t, copia) ==
  /\ ficha[t].vista = Vista(ficha[t].padre, copia)
  /\ Directos(ficha[t].padre) # {}

ConfirmarCrear(t, c) ==
  /\ ficha[t] # Nadie /\ ficha[t].vista.copia = Nueva
  /\ Vigente(t, Nueva)
  /\ Insertar(c, ficha[t].padre)
  /\ ficha' = [ficha EXCEPT ![t] = Nadie]

\* The confirmation of a move loads the category before it takes the lock.
LeerMovida(t) ==
  /\ ficha[t] # Nadie /\ ficha[t].vista.copia # Nueva /\ ficha[t].leida = Nueva
  /\ ficha[t].vista.copia.categoria \in Activas
  /\ ficha' = [ficha EXCEPT ![t].leida = Copia(ficha[t].vista.copia.categoria)]
  /\ UNCHANGED <<estado, padre, esPadre, cajon, producto, donde, conStock>>

ConfirmarMover(t) ==
  /\ ficha[t] # Nadie /\ ficha[t].leida # Nueva
  /\ Vigente(t, ficha[t].leida)
  /\ Trasladar(ficha[t].leida.categoria, ficha[t].padre, ficha[t].leida.padre)
  /\ ficha' = [ficha EXCEPT ![t] = Nadie]

\* The token is not used, expires or is refused.
Descartar(t) ==
  /\ ficha[t] # Nadie
  /\ ficha' = [ficha EXCEPT ![t] = Nadie]
  /\ UNCHANGED <<estado, padre, esPadre, cajon, producto, donde, conStock>>

-----------------------------------------------------------------------------
(* Products *)

\* Faulty variant of CrearProducto: any active category.
CrearProductoDondeSea(x, c) ==
  /\ producto[x] = "NINGUNA" /\ c \in Activas
  /\ producto' = [producto EXCEPT ![x] = "ACTIVA"]
  /\ donde' = [donde EXCEPT ![x] = EnCategoria(c)]
  /\ UNCHANGED <<estado, padre, esPadre, cajon, conStock, ficha>>

CrearProducto(x, c) ==
  /\ producto[x] = "NINGUNA"
  /\ Hoja(c)
  /\ producto' = [producto EXCEPT ![x] = "ACTIVA"]
  /\ donde' = [donde EXCEPT ![x] = EnCategoria(c)]
  /\ UNCHANGED <<estado, padre, esPadre, cajon, conStock, ficha>>

\* update_integral: the temporary category it leaves is not looked at.
CambiarCategoria(x, c) ==
  /\ x \in Vivos
  /\ donde[x] # EnCategoria(c)
  /\ Hoja(c)
  /\ donde' = [donde EXCEPT ![x] = EnCategoria(c)]
  /\ UNCHANGED <<estado, padre, esPadre, cajon, producto, conStock, ficha>>

BorrarProducto(x) ==
  /\ x \in Vivos
  /\ x \notin conStock
  /\ producto' = [producto EXCEPT ![x] = "INACTIVA"]
  /\ UNCHANGED donde
  /\ VaciarCajones(IF donde[x].enCajon THEN {donde[x].categoria} ELSE {})
  /\ UNCHANGED <<estado, padre, esPadre, conStock, ficha>>

\* recategorizar_productos: each one from a temporary category to a leaf below its parent.
Pendiente(x, c) ==
  /\ x \in Vivos
  /\ donde[x].enCajon /\ cajon[donde[x].categoria] = "ACTIVA"
  /\ Hoja(c)
  /\ c # donde[x].categoria
  /\ donde[x].categoria \in Jerarquia!Ancestros(c, padre, Activas)

Recategorizar(destino) ==
  /\ DOMAIN destino # {}
  /\ \A x \in DOMAIN destino : Pendiente(x, destino[x])
  /\ donde' = [x \in Productos |->
                 IF x \in DOMAIN destino THEN EnCategoria(destino[x]) ELSE donde[x]]
  /\ UNCHANGED producto
  /\ VaciarCajones({donde[x].categoria : x \in DOMAIN destino})
  /\ UNCHANGED <<estado, padre, esPadre, conStock, ficha>>

\* Confirmed movements: they look neither at the lock nor at the state of the product.
Entrar(x) ==
  /\ producto[x] # "NINGUNA" /\ conStock' = conStock \cup {x}
  /\ UNCHANGED <<estado, padre, esPadre, cajon, producto, donde, ficha>>
Salir(x) ==
  /\ x \in conStock /\ conStock' = conStock \ {x}
  /\ UNCHANGED <<estado, padre, esPadre, cajon, producto, donde, ficha>>

-----------------------------------------------------------------------------
Next ==
  \/ \E c \in Categorias :
       \/ \E p \in Categorias \cup {Raiz} : Crear(c, p) \/ Mover(c, p)
       \/ Reactivar(c)
       \/ \E confirmado \in BOOLEAN : Borrar(c, confirmado)
  \/ \E t \in Peticiones :
       \/ \E p \in Categorias :
            PrevisualizarCrear(t, p) \/ \E c \in Categorias : PrevisualizarMover(t, c, p)
       \/ \E c \in Categorias : ConfirmarCrear(t, c)
       \/ LeerMovida(t) \/ ConfirmarMover(t) \/ Descartar(t)
  \/ \E x \in Productos :
       \/ \E c \in Categorias : CrearProducto(x, c) \/ CambiarCategoria(x, c)
       \/ BorrarProducto(x) \/ Entrar(x) \/ Salir(x)
  \/ \E X \in SUBSET Productos : \E destino \in [X -> Categorias] : Recategorizar(destino)

Spec == Init /\ [][Next]_vars

-----------------------------------------------------------------------------
(* What the tree reads rely on, and what the documents promise *)

TypeOK ==
  /\ estado \in [Categorias -> Estados]
  /\ padre \in [Categorias -> Categorias \cup {Raiz}]
  /\ esPadre \in [Categorias -> BOOLEAN]
  /\ cajon \in [Categorias -> Estados]
  /\ producto \in [Productos -> Estados]
  /\ donde \in [Productos -> Lugares \cup {Nadie}]
  /\ \A x \in Productos : producto[x] # "NINGUNA" => donde[x] \in Lugares
  /\ conStock \in SUBSET Productos
  /\ ficha \in [Peticiones -> Fichas \cup {Nadie}]

\* The hierarchy is a tree: no sequence of moves, with copies read before the lock among
\* them, closes a cycle, although the search for one only walks active categories.
JerarquiaSinCiclos == Jerarquia!SinCiclos(padre)

\* What is active hangs from what is active, so the tree reads never refuse to answer.
ActivasBajoActivas ==
  \A c \in Categorias :
    /\ c \in Activas => padre[c] \in Activas \cup {Raiz}
    /\ cajon[c] = "ACTIVA" => c \in Activas

ArbolSano == JerarquiaSinCiclos /\ ActivasBajoActivas

\* get_category_tree: the nodes met from the roots down.  It answers 409 unless they are
\* all the active categories.
Visitadas == UNION {Jerarquia!Descendientes(c, padre, Activas) : c \in {r \in Activas : padre[r] = Raiz}}
ArbolLegible == Visitadas = Activas

\* An active product is in an active category: neither the cascade of a deletion nor the
\* closing of an emptied temporary category leaves one behind.
ProductosColocados ==
  \A x \in Vivos :
    IF donde[x].enCajon THEN cajon[donde[x].categoria] = "ACTIVA" ELSE donde[x].categoria \in Activas

\* Products come to be directly in a category with active children only by reactivating
\* a child over them: every other way to gain a child reclassifies them first.
Mezclada(c) == ConHijos(c) /\ Directos(c) # {}
SoloReactivarMezcla ==
  [][\A c \in Categorias :
       Mezclada(c)' /\ ~Mezclada(c)
         => \E d \in Categorias : padre[d] = c /\ estado[d] = "INACTIVA" /\ estado'[d] = "ACTIVA"]_vars

\* The stored flag of a parent is never missing.
PadreSenalado == \A c \in Categorias : ConHijos(c) => esPadre[c]

\* The tree and the flag of its parents hold together through every move and deletion.
ArbolCoherente == ArbolSano /\ PadreSenalado

\* A confirmation reclassifies the products that its preview showed, no more and no less.
ConfirmaLoVisto ==
  [][\A t \in Peticiones :
       ficha[t] # Nadie /\ ficha'[t] = Nadie /\ <<estado, padre>>' # <<estado, padre>>
         => {x \in Vivos : donde'[x] # donde[x]} = ficha[t].vista.directos]_vars
==============================================================================

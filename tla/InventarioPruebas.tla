------------------------- MODULE InventarioPruebas -------------------------
(***************************************************************************)
(* What Inventario guarantees for every number of requests, bodegas,       *)
(* products and movements, and, with the sums its books needed, what       *)
(* Reportes guarantees for every number of sales, purchases, withholdings, *)
(* branches, bodegas, articles and days.                                   *)
(***************************************************************************)
EXTENDS Inventario, Reportes, FiniteSetTheorems, WellFoundedInduction, TLAPS

-----------------------------------------------------------------------------
(* The inductive invariant *)

\* The products of the movement (or of the transfer) a request r is confirming.
Prods(r) == IF r.cola = <<>> THEN {} ELSE ProductosDe(dato[r.cola[1]])

\* The stock rows as request t sees them when its state is r.
Vistas(t, r) == [f \in Filas |-> IF cFila[f] = t THEN r.filas[f] ELSE stock[f]]

EsVista(v) == /\ v = [suma |-> v.suma, leido |-> v.leido, prods |-> v.prods]
              /\ v.prods = [p \in Productos |-> v.prods[p]]

ConActual == {"insertar", "producto", "escribir", "validarProducto"}
Sumando == {"suma", "producto", "escribir"}
Validando == {"validarSuma", "validarProducto"}

\* The movements a request works on exist and move the same products.
ColaBien(t, r) ==
  /\ r.fase = "ocioso" <=> r.cola = <<>>
  /\ r.fase = "ocioso" => r.pos = 1
  /\ r.fase # "ocioso" => r.mov \in Movimientos /\ r.pos \in 1..Len(r.cola)
  /\ \A i \in 1..Len(r.cola) : /\ estado[r.cola[i]] # "LIBRE"
                               /\ dato[r.cola[i]].lineas = dato[r.cola[1]].lineas
  /\ r.faltan \subseteq Prods(r)
  /\ r.fase \in ConActual => r.actual \in r.faltan
  /\ r.fase = "integridad" => r.faltan = Prods(r)

\* A request locks rows of its own products only, and all the products once it validates.
CerrojosBien(t, r) ==
  /\ \A f \in Filas : cFila[f] = t => f[2] \in Prods(r)
  /\ \A p \in Productos : cProd[p] = t => p \in Prods(r)
  /\ r.fase \in Sumando => \A p \in Prods(r) \ r.faltan : cProd[p] = t
  /\ r.fase \in Validando \cup {"cerrar"} => \A p \in Prods(r) : cProd[p] = t

\* What a request has validated stays the sum of the stock it sees.
TotalesBien(t, r, v) ==
  /\ r.fase \in Validando => \A p \in Prods(r) \ r.faltan : v.prods[p] = Total(Vistas(t, r), p)
  /\ r.fase = "validarProducto" => v.suma = Total(Vistas(t, r), r.actual)
  /\ r.fase = "cerrar" => \A p \in Prods(r) : v.prods[p] = Total(Vistas(t, r), p)

\* A movement inserted and not yet committed belongs to one request.
NuevosPropios ==
  \A t, u \in Peticiones : t # u =>
    \A i \in 1..Len(req[t].cola), j \in 1..Len(req[u].cola) :
      req[t].cola[i] = req[u].cola[j] => estado[req[t].cola[i]] # "NUEVO"

Inv ==
  /\ TypeOK
  /\ vista = [t \in Peticiones |-> vista[t]]
  /\ \A t \in Peticiones : /\ EsVista(vista[t])
                           /\ ColaBien(t, req[t])
                           /\ CerrojosBien(t, req[t])
                           /\ TotalesBien(t, req[t], vista[t])
  /\ NuevosPropios
  /\ ProductoEsSuma

-----------------------------------------------------------------------------
(* Lemmas *)

\* What a request has in its queue are movements that were created.
LEMMA EnCola ==
  ASSUME Inv, NEW u \in Peticiones, NEW i \in 1..Len(req[u].cola)
  PROVE  req[u].cola[i] \in Movimientos /\ estado[req[u].cola[i]] # "LIBRE"
<1>1. req[u].cola \in Seq(Movimientos) /\ ColaBien(u, req[u])
  BY DEF Inv, TypeOK, Peticion
<1> QED BY <1>1 DEF ColaBien

\* The sum of a product's rows depends on those rows only.
LEMMA TotalIgual ==
  ASSUME NEW g, NEW h, NEW p, \A b \in Bodegas : g[<<b, p>>] = h[<<b, p>>]
  PROVE  Total(g, p) = Total(h, p)
<1>1. [b \in Bodegas |-> g[<<b, p>>]] = [b \in Bodegas |-> h[<<b, p>>]]
  OBVIOUS
<1> QED BY <1>1 DEF Total

\* The initial state is consistent.
LEMMA InicioBien == Init => Inv
<1> SUFFICES ASSUME Init PROVE Inv
  OBVIOUS
<1> USE InventarioSupuestos
<1>0. PICK d \in Datos : dato = [m \in Movimientos |-> d]
  BY DEF Init
<1>1. TypeOK
  <2>1. Reposo \in Peticion
    BY DEF Reposo, Peticion, Fases, Modos, Filas
  <2> QED BY <1>0, <2>1 DEF Init, TypeOK, EstadosMov, Filas
<1>2. ASSUME NEW t \in Peticiones
      PROVE  EsVista(vista[t]) /\ ColaBien(t, req[t]) /\ CerrojosBien(t, req[t])
             /\ TotalesBien(t, req[t], vista[t])
  BY DEF Init, EsVista, ColaBien, CerrojosBien, TotalesBien, Reposo, SinVista, Prods,
         ConActual, Sumando, Validando
<1>3. NuevosPropios
  BY DEF Init, NuevosPropios, Reposo
<1>4. ProductoEsSuma
  BY DEF Init, ProductoEsSuma
<1> QED BY <1>1, <1>2, <1>3, <1>4 DEF Inv, Init

\* A step of t that changes no row and no lock keeps the other requests as they were.
LEMMA PasoLocal ==
  ASSUME Inv, NEW t \in Peticiones, NEW r \in Peticion, NEW v, Local(t, r, v),
         EsVista(v), ColaBien(t, r), CerrojosBien(t, r), TotalesBien(t, r, v),
         r.cola = req[t].cola \/ (r.cola # <<>> /\ \A i \in 1..Len(r.cola) : estado[r.cola[i]] # "NUEVO")
  PROVE  Inv'
<1>1. /\ req' = [req EXCEPT ![t] = r] /\ vista' = [vista EXCEPT ![t] = v]
      /\ UNCHANGED <<estado, dato, existe, stock, cantidad, relacion, cFila, cProd, cMov, veces>>
  BY DEF Local, bd, locks
<1>2. TypeOK'
  BY <1>1 DEF Inv, TypeOK
<1>3. ASSUME NEW u \in Peticiones
      PROVE  (EsVista(vista[u]) /\ ColaBien(u, req[u]) /\ CerrojosBien(u, req[u])
             /\ TotalesBien(u, req[u], vista[u]))'
  <2> DEFINE ru == req'[u]
             vu == vista'[u]
  <2>1. /\ EsVista(vu) /\ ColaBien(u, ru) /\ CerrojosBien(u, ru) /\ TotalesBien(u, ru, vu)
    BY <1>1 DEF Inv, TypeOK
  <2>2. Prods(req[u])' = Prods(ru)
    BY <1>1 DEF Prods, ProductosDe
  <2>3. Vistas(u, req[u])' = Vistas(u, ru)
    BY <1>1 DEF Vistas
  <2>4. \A p : Total(Vistas(u, req[u]), p)' = Total(Vistas(u, ru), p)
    BY <2>3 DEF Total
  <2> HIDE DEF ru, vu
  <2>5. EsVista(vista[u])'
    BY <2>1 DEF EsVista, vu
  <2>6. ColaBien(u, req[u])'
    BY <1>1, <2>1, <2>2 DEF ColaBien, ru
  <2>7. CerrojosBien(u, req[u])'
    BY <1>1, <2>1, <2>2 DEF CerrojosBien, ru
  <2>8. TotalesBien(u, req[u], vista[u])'
    BY <2>1, <2>2, <2>4 DEF TotalesBien, ru, vu
  <2> QED BY <2>5, <2>6, <2>7, <2>8
<1>4. NuevosPropios'
  <2> SUFFICES ASSUME NEW a \in Peticiones, NEW b \in Peticiones, a # b,
                      NEW i \in 1..Len(req'[a].cola), NEW j \in 1..Len(req'[b].cola),
                      req'[a].cola[i] = req'[b].cola[j]
               PROVE  estado[req'[a].cola[i]] # "NUEVO"
    BY <1>1 DEF NuevosPropios
  <2>1. \A u \in Peticiones : req'[u] = IF u = t THEN r ELSE req[u]
    BY <1>1 DEF Inv, TypeOK
  <2>2. CASE r.cola = req[t].cola
    <3>1. req'[a].cola = req[a].cola /\ req'[b].cola = req[b].cola
      BY <2>1, <2>2
    <3> QED BY <3>1 DEF Inv, NuevosPropios
  <2>3. CASE \A k \in 1..Len(r.cola) : estado[r.cola[k]] # "NUEVO"
    <3>1. CASE a = t
      BY <2>1, <2>3, <3>1
    <3>2. CASE b = t
      BY <2>1, <2>3, <3>2
    <3>3. CASE a # t /\ b # t
      BY <2>1, <3>3 DEF Inv, NuevosPropios
    <3> QED BY <3>1, <3>2, <3>3
  <2> QED BY <2>2, <2>3
<1>5. ProductoEsSuma'
  BY <1>1 DEF Inv, ProductoEsSuma, Total
<1> QED BY <1>1, <1>2, <1>3, <1>4, <1>5 DEF Inv

\* A request u is undisturbed by a step that leaves its own state, its movements and its
\* locks alone, and the stock of the products it has locked.
LEMMA OtraIgual ==
  ASSUME Inv, NEW u \in Peticiones, req'[u] = req[u], vista'[u] = vista[u],
         \A i \in 1..Len(req[u].cola) : /\ estado'[req[u].cola[i]] # "LIBRE"
                                        /\ dato'[req[u].cola[i]] = dato[req[u].cola[i]],
         \A f \in Filas : cFila'[f] = u <=> cFila[f] = u,
         \A p \in Productos : cProd'[p] = u <=> cProd[p] = u,
         \A f \in Filas : cProd[f[2]] = u => cFila[f] = u \/ stock'[f] = stock[f]
  PROVE  (EsVista(vista[u]) /\ ColaBien(u, req[u]) /\ CerrojosBien(u, req[u])
         /\ TotalesBien(u, req[u], vista[u]))'
<1>1. EsVista(vista[u]) /\ ColaBien(u, req[u]) /\ CerrojosBien(u, req[u])
      /\ TotalesBien(u, req[u], vista[u]) /\ req[u].cola \in Seq(Movimientos)
  BY DEF Inv, TypeOK, Peticion
<1>2. Prods(req[u])' = Prods(req[u]) /\ Prods(req[u]) \subseteq Productos
  <2>1. CASE req[u].cola = <<>>
    BY <2>1 DEF Prods
  <2>2. CASE req[u].cola # <<>>
    <3>1. 1 \in 1..Len(req[u].cola)
      BY <1>1, <2>2
    <3>2. dato'[req[u].cola[1]] = dato[req[u].cola[1]]
      BY <3>1
    <3> QED BY <2>2, <3>2 DEF Prods, ProductosDe
  <2> QED BY <2>1, <2>2
<1>3. EsVista(vista[u])'
  BY <1>1 DEF EsVista
<1>4. ColaBien(u, req[u])'
  <2>1. req[u].cola # <<>> => 1 \in 1..Len(req[u].cola)
    BY <1>1
  <2>2. \A i \in 1..Len(req[u].cola) : dato'[req[u].cola[i]].lineas = dato'[req[u].cola[1]].lineas
    <3> SUFFICES ASSUME NEW i \in 1..Len(req[u].cola)
                 PROVE  dato'[req[u].cola[i]].lineas = dato'[req[u].cola[1]].lineas
      OBVIOUS
    <3>1. 1 \in 1..Len(req[u].cola)
      BY <1>1
    <3>2. dato[req[u].cola[i]].lineas = dato[req[u].cola[1]].lineas
      BY <1>1 DEF ColaBien
    <3> QED BY <3>1, <3>2
  <2> QED BY <1>1, <1>2, <2>2 DEF ColaBien
<1>5. CerrojosBien(u, req[u])'
  BY <1>1, <1>2 DEF CerrojosBien
<1>6. ASSUME NEW p \in Productos, cProd[p] = u
      PROVE  Total(Vistas(u, req[u])', p) = Total(Vistas(u, req[u]), p)
  <2>1. ASSUME NEW b \in Bodegas
        PROVE  Vistas(u, req[u])'[<<b, p>>] = Vistas(u, req[u])[<<b, p>>]
    <3>1. <<b, p>> \in Filas /\ <<b, p>>[2] = p
      BY DEF Filas
    <3> QED BY <1>6, <3>1 DEF Vistas
  <2> QED BY <2>1, TotalIgual
<1>7. TotalesBien(u, req[u], vista[u])'
  BY <1>1, <1>2, <1>6 DEF TotalesBien, ColaBien, CerrojosBien, ConActual, Validando
<1> QED BY <1>3, <1>4, <1>5, <1>7

\* Two requests never have one inserted movement in their queues.
LEMMA NuevosSiguen ==
  ASSUME Inv, NEW t \in Peticiones, \A u \in Peticiones \ {t} : req'[u] = req[u],
         \A u \in Peticiones : \A i \in 1..Len(req[u].cola) :
            estado'[req[u].cola[i]] = "NUEVO" => estado[req[u].cola[i]] = "NUEVO",
         \A i \in 1..Len(req'[t].cola) :
            \/ estado'[req'[t].cola[i]] # "NUEVO"
            \/ estado[req'[t].cola[i]] = "LIBRE"
            \/ \E k \in 1..Len(req[t].cola) : req[t].cola[k] = req'[t].cola[i]
  PROVE  NuevosPropios'
<1> SUFFICES ASSUME NEW a \in Peticiones, NEW b \in Peticiones, a # b,
                    NEW i \in 1..Len(req'[a].cola), NEW j \in 1..Len(req'[b].cola),
                    req'[a].cola[i] = req'[b].cola[j]
             PROVE  estado'[req'[a].cola[i]] # "NUEVO"
  BY DEF NuevosPropios
<1>1. \A u \in Peticiones : \A k \in 1..Len(req[u].cola) : estado[req[u].cola[k]] # "LIBRE"
  BY DEF Inv, ColaBien
<1>2. \A u \in Peticiones \ {t} : \A k \in 1..Len(req[t].cola), l \in 1..Len(req[u].cola) :
        req[t].cola[k] = req[u].cola[l] => estado[req[t].cola[k]] # "NUEVO"
  BY DEF Inv, NuevosPropios
<1>3. CASE a = t
  <2>1. req'[b] = req[b] /\ b \in Peticiones \ {t}
    BY <1>3
  <2>2. estado[req[b].cola[j]] # "LIBRE"
    BY <1>1, <2>1
  <2>3. CASE \E k \in 1..Len(req[t].cola) : req[t].cola[k] = req'[t].cola[i]
    <3>1. estado[req[b].cola[j]] # "NUEVO"
      BY <1>2, <1>3, <2>1, <2>3
    <3> QED BY <2>1, <3>1
  <2> QED BY <1>3, <2>1, <2>2, <2>3
<1>4. CASE b = t
  <2>1. req'[a] = req[a] /\ a \in Peticiones \ {t}
    BY <1>4
  <2>2. estado[req[a].cola[i]] # "LIBRE"
    BY <1>1, <2>1
  <2>3. CASE \E k \in 1..Len(req[t].cola) : req[t].cola[k] = req'[t].cola[j]
    <3>1. estado[req[a].cola[i]] # "NUEVO"
      BY <1>2, <1>4, <2>1, <2>3
    <3> QED BY <2>1, <3>1
  <2> QED BY <1>4, <2>1, <2>2, <2>3
<1>5. CASE a # t /\ b # t
  BY <1>5 DEF Inv, NuevosPropios
<1> QED BY <1>3, <1>4, <1>5

\* A request at rest, without locks, is consistent.
LEMMA PeticionEnReposo ==
  ASSUME NEW t \in Peticiones, req'[t] = Reposo, vista'[t] = SinVista,
         \A f \in Filas : cFila'[f] = IF cFila[f] = t THEN Nadie ELSE cFila[f],
         \A p \in Productos : cProd'[p] = IF cProd[p] = t THEN Nadie ELSE cProd[p]
  PROVE  (EsVista(vista[t]) /\ ColaBien(t, req[t]) /\ CerrojosBien(t, req[t])
         /\ TotalesBien(t, req[t], vista[t]))'
<1>1. Reposo.fase = "ocioso" /\ Reposo.cola = <<>> /\ Reposo.faltan = {} /\ Reposo.pos = 1
  BY DEF Reposo
<1>2. Prods(req[t])' = {}
  BY <1>1 DEF Prods
<1>3. EsVista(vista[t])'
  BY DEF EsVista, SinVista
<1>4. ColaBien(t, req[t])'
  BY <1>1, <1>2 DEF ColaBien, ConActual
<1>5. (\A f \in Filas : cFila'[f] # t) /\ (\A p \in Productos : cProd'[p] # t)
  BY InventarioSupuestos
<1>6. CerrojosBien(t, req[t])'
  BY <1>1, <1>2, <1>5 DEF CerrojosBien
<1>7. TotalesBien(t, req[t], vista[t])'
  BY <1>1 DEF TotalesBien, Validando
<1> QED BY <1>3, <1>4, <1>6, <1>7

\* A rollback of t.
LEMMA PasoDeshacer ==
  ASSUME Inv, NEW t \in Peticiones, Deshacer(t)
  PROVE  Inv'
<1> USE InventarioSupuestos
<1>1. /\ req' = [req EXCEPT ![t] = Reposo] /\ vista' = [vista EXCEPT ![t] = SinVista]
      /\ UNCHANGED <<dato, existe, stock, cantidad, relacion, veces>>
  BY DEF Deshacer
<1>2. /\ \A m \in Movimientos : \/ estado'[m] = estado[m]
                                \/ /\ estado'[m] = "LIBRE" /\ estado[m] = "NUEVO"
                                   /\ \E i \in 1..Len(req[t].cola) : req[t].cola[i] = m
      /\ estado' \in [Movimientos -> EstadosMov]
  <2>1. estado \in [Movimientos -> EstadosMov] /\ req[t].cola \in Seq(Movimientos)
    BY DEF Inv, TypeOK, Peticion
  <2>2. DOMAIN req[t].cola = 1..Len(req[t].cola)
    BY <2>1
  <2>3. "LIBRE" \in EstadosMov
    BY DEF EstadosMov
  <2> QED BY <2>1, <2>2, <2>3 DEF Deshacer
<1>3. /\ \A f \in Filas : cFila'[f] = IF cFila[f] = t THEN Nadie ELSE cFila[f]
      /\ \A p \in Productos : cProd'[p] = IF cProd[p] = t THEN Nadie ELSE cProd[p]
      /\ cFila' \in [Filas -> Peticiones \cup {Nadie}]
      /\ cProd' \in [Productos -> Peticiones \cup {Nadie}]
      /\ cMov' \in [Movimientos -> Peticiones \cup {Nadie}]
  BY DEF Deshacer, SoltarCerrojos, Inv, TypeOK
<1>4. TypeOK'
  <2>1. Reposo \in Peticion
    BY DEF Reposo, Peticion, Fases, Modos, Filas
  <2> QED BY <1>1, <1>2, <1>3, <2>1 DEF Inv, TypeOK
<1>5. ASSUME NEW u \in Peticiones
      PROVE  (EsVista(vista[u]) /\ ColaBien(u, req[u]) /\ CerrojosBien(u, req[u])
             /\ TotalesBien(u, req[u], vista[u]))'
  <2>1. CASE u = t
    <3>1. req'[t] = Reposo /\ vista'[t] = SinVista
      BY <1>1 DEF Inv, TypeOK
    <3> QED BY <1>3, <2>1, <3>1, PeticionEnReposo
  <2>2. CASE u # t
    <3>1. req'[u] = req[u] /\ vista'[u] = vista[u] /\ req[u].cola \in Seq(Movimientos)
      BY <1>1, <2>2 DEF Inv, TypeOK, Peticion
    <3>2. ASSUME NEW i \in 1..Len(req[u].cola)
          PROVE  estado'[req[u].cola[i]] # "LIBRE"
      <4>1. req[u].cola[i] \in Movimientos
        BY <3>1
      <4>2. estado[req[u].cola[i]] # "LIBRE"
        BY DEF Inv, ColaBien
      <4>3. ASSUME NEW j \in 1..Len(req[t].cola), req[t].cola[j] = req[u].cola[i]
            PROVE  estado[req[u].cola[i]] # "NUEVO"
        BY <2>2, <4>3 DEF Inv, NuevosPropios
      <4> QED BY <1>2, <4>1, <4>2, <4>3
    <3>3. \A f \in Filas : cFila'[f] = u <=> cFila[f] = u
      BY <1>3, <2>2
    <3>4. \A p \in Productos : cProd'[p] = u <=> cProd[p] = u
      BY <1>3, <2>2
    <3> QED BY <1>1, <3>1, <3>2, <3>3, <3>4, OtraIgual
  <2> QED BY <2>1, <2>2
<1>6. NuevosPropios'
  <2>1. \A u \in Peticiones \ {t} : req'[u] = req[u]
    BY <1>1 DEF Inv, TypeOK
  <2>2. \A u \in Peticiones : \A i \in 1..Len(req[u].cola) : req[u].cola[i] \in Movimientos
    BY DEF Inv, TypeOK, Peticion
  <2>3. Len(req'[t].cola) = 0
    BY <1>1 DEF Inv, TypeOK, Reposo
  <2> QED BY <1>2, <2>1, <2>2, <2>3, NuevosSiguen
<1>7. ProductoEsSuma'
  BY <1>1 DEF Inv, ProductoEsSuma, Total
<1> QED BY <1>1, <1>4, <1>5, <1>6, <1>7 DEF Inv

\* The movement being confirmed moves the products of the whole queue.
LEMMA Actual ==
  ASSUME Inv, NEW t \in Peticiones, req[t].fase # "ocioso"
  PROVE  /\ req[t] \in Peticion /\ req[t].cola \in Seq(Movimientos) /\ req[t].cola # <<>>
         /\ req[t].pos \in 1..Len(req[t].cola) /\ req[t].mov \in Movimientos
         /\ req[t].faltan \subseteq Prods(req[t]) /\ Prods(req[t]) \subseteq Productos
         /\ EnCurso(t) \in Contenido /\ ProductosDe(EnCurso(t)) = Prods(req[t])
<1>1. /\ req[t] \in Peticion /\ req[t].cola \in Seq(Movimientos) /\ req[t].cola # <<>>
      /\ req[t].pos \in 1..Len(req[t].cola) /\ req[t].mov \in Movimientos
      /\ req[t].faltan \subseteq Prods(req[t])
  BY DEF Inv, TypeOK, Peticion, ColaBien
<1>2. EnCurso(t).lineas = dato[req[t].cola[1]].lineas /\ EnCurso(t) \in Contenido
  BY <1>1 DEF EnCurso, Inv, ColaBien, TypeOK
<1>3. ProductosDe(EnCurso(t)) = Prods(req[t]) /\ Prods(req[t]) \subseteq Productos
  BY <1>1, <1>2 DEF ProductosDe, Prods
<1> QED BY <1>1, <1>2, <1>3

\* Writing a locked stock row.
LEMMA PasoEscribirFila ==
  ASSUME Inv, NEW t \in Peticiones, NEW p \in Productos, NEW nueva \in Nat,
         req[t].fase \in {"aplicar", "insertar"}, p \in req[t].faltan,
         Libre(cFila[FilaDe(t, p)], t), EscribirFila(t, p, nueva)
  PROVE  Inv'
<1>a. PICK f : f = FilaDe(t, p)
  OBVIOUS
<1>b. PICK r : r = [req[t] EXCEPT !.fase = "aplicar", !.actual = Nadie, !.filas[f] = nueva]
  OBVIOUS
<1>c. PICK a : a = Avanzar(t, p, r, "integridad")
  OBVIOUS
<1>1. /\ cFila' = [cFila EXCEPT ![f] = t] /\ req' = [req EXCEPT ![t] = a]
      /\ UNCHANGED <<estado, dato, existe, stock, cantidad, relacion, cProd, cMov, vista, veces>>
  BY <1>a, <1>b, <1>c DEF EscribirFila, bd
<1>2. /\ req[t] \in Peticion /\ req[t].cola \in Seq(Movimientos)
      /\ req[t].pos \in 1..Len(req[t].cola) /\ req[t].cola # <<>> /\ req[t].mov \in Movimientos
      /\ req[t].faltan \subseteq Prods(req[t]) /\ ProductosDe(EnCurso(t)) = Prods(req[t])
      /\ Prods(req[t]) \subseteq Productos /\ EnCurso(t) \in Contenido
  BY Actual
<1>3. f \in Filas /\ f[2] = p
  BY <1>2, <1>a DEF FilaDe, Contenido, Filas
<1>4. /\ r \in Peticion /\ r.cola = req[t].cola /\ r.mov = req[t].mov /\ r.pos = req[t].pos
      /\ r.faltan = req[t].faltan /\ r.fase = "aplicar"
  BY <1>2, <1>3, <1>b DEF Peticion, Fases
<1>6. /\ a \in Peticion /\ a.mov = req[t].mov /\ a.cola = req[t].cola /\ a.pos = req[t].pos
      /\ a.fase \in {"aplicar", "integridad"} /\ a.faltan \subseteq Prods(req[t])
      /\ a.fase = "integridad" => a.faltan = Prods(req[t])
  BY <1>2, <1>4, <1>c DEF Avanzar, Peticion, Fases
<1>7. TypeOK'
  BY <1>1, <1>3, <1>6 DEF Inv, TypeOK
<1>8. ASSUME NEW u \in Peticiones
      PROVE  (EsVista(vista[u]) /\ ColaBien(u, req[u]) /\ CerrojosBien(u, req[u])
             /\ TotalesBien(u, req[u], vista[u]))'
  <2>1. CASE u = t
    <3>1. req'[t] = a
      BY <1>1 DEF Inv, TypeOK
    <3>2. Prods(req[t])' = Prods(req[t])
      BY <1>1, <1>6, <3>1 DEF Prods, ProductosDe
    <3>3. EsVista(vista[t])'
      BY <1>1 DEF Inv, EsVista
    <3>4. ColaBien(t, req[t])'
      BY <1>1, <1>2, <1>6, <3>1, <3>2 DEF Inv, ColaBien, ConActual
    <3>5. \A g \in Filas : cFila'[g] = t => g = f \/ cFila[g] = t
      BY <1>1 DEF Inv, TypeOK
    <3>6. CerrojosBien(t, req[t])'
      BY <1>1, <1>2, <1>3, <1>6, <3>1, <3>2, <3>5 DEF Inv, CerrojosBien, Sumando, Validando
    <3>7. TotalesBien(t, req[t], vista[t])'
      BY <1>6, <3>1 DEF TotalesBien, Validando
    <3> QED BY <2>1, <3>3, <3>4, <3>6, <3>7
  <2>2. CASE u # t
    <3>1. req'[u] = req[u]
      BY <1>1, <2>2 DEF Inv, TypeOK
    <3>2. \A g \in Filas : cFila'[g] = u <=> cFila[g] = u
      BY <1>1, <1>3, <1>a, <2>2, InventarioSupuestos DEF Inv, TypeOK, Libre
    <3>3. \A i \in 1..Len(req[u].cola) : estado[req[u].cola[i]] # "LIBRE"
      BY DEF Inv, ColaBien
    <3> QED BY <1>1, <3>1, <3>2, <3>3, OtraIgual
  <2> QED BY <2>1, <2>2
<1>9. NuevosPropios'
  <2>1. \A u \in Peticiones \ {t} : req'[u] = req[u]
    BY <1>1 DEF Inv, TypeOK
  <2>2. req'[t].cola = req[t].cola
    BY <1>1, <1>6 DEF Inv, TypeOK
  <2> QED BY <1>1, <2>1, <2>2, NuevosSiguen
<1>10. ProductoEsSuma'
  BY <1>1 DEF Inv, ProductoEsSuma, Total
<1> QED BY <1>1, <1>7, <1>8, <1>9, <1>10 DEF Inv

\* Another phase of the same request.
LEMMA MismaCola ==
  ASSUME Inv, NEW t \in Peticiones, req[t].fase # "ocioso", NEW r \in Peticion,
         r.cola = req[t].cola, r.mov = req[t].mov, r.pos \in 1..Len(req[t].cola),
         r.fase # "ocioso", r.faltan \subseteq Prods(req[t]),
         r.fase \in ConActual => r.actual \in r.faltan,
         r.fase = "integridad" => r.faltan = Prods(req[t]),
         r.fase \in Sumando => \A p \in Prods(req[t]) \ r.faltan : cProd[p] = t,
         r.fase \in Validando \cup {"cerrar"} => \A p \in Prods(req[t]) : cProd[p] = t
  PROVE  ColaBien(t, r) /\ CerrojosBien(t, r) /\ Prods(r) = Prods(req[t])
<1>1. Prods(r) = Prods(req[t]) /\ ColaBien(t, req[t]) /\ CerrojosBien(t, req[t])
  BY DEF Prods, Inv
<1> QED BY <1>1 DEF ColaBien, CerrojosBien

\* What a request sees of a balance is a natural number.
LEMMA VerNat ==
  ASSUME Inv, NEW t \in Peticiones, NEW f \in Filas
  PROVE  Ver(t, f) \in Nat
BY DEF Inv, TypeOK, Peticion, Ver

\* Reading the quantities before the movement is applied.
LEMMA PasoLeerStockAntes ==
  ASSUME Inv, NEW t \in Peticiones, NEW p \in Productos, LeerStockAntes(t, p)
  PROVE  Inv'
<1>1. req[t].fase = "antes" /\ p \in req[t].faltan
  BY DEF LeerStockAntes
<1>2. /\ req[t] \in Peticion /\ req[t].pos \in 1..Len(req[t].cola)
      /\ req[t].faltan \subseteq Prods(req[t]) /\ ProductosDe(EnCurso(t)) = Prods(req[t])
      /\ Prods(req[t]) \subseteq Productos /\ EnCurso(t) \in Contenido /\ EsVista(vista[t])
  BY <1>1, Actual DEF Inv
<1>3. FilaDe(t, p) \in Filas
  BY <1>2 DEF FilaDe, Contenido, Filas
<1>4. PICK n \in Nat : n = Ver(t, FilaDe(t, p))
  BY <1>3, VerNat
<1>5. PICK r : r = Avanzar(t, p, [req[t] EXCEPT !.antes[p] = n], "aplicar")
  OBVIOUS
<1>6. /\ r \in Peticion /\ r.cola = req[t].cola /\ r.mov = req[t].mov /\ r.pos = req[t].pos
      /\ r.fase \in {"antes", "aplicar"} /\ r.faltan \subseteq Prods(req[t])
  BY <1>1, <1>2, <1>5 DEF Avanzar, Peticion, Fases
<1>7. ColaBien(t, r) /\ CerrojosBien(t, r)
  BY <1>1, <1>2, <1>6, MismaCola DEF ConActual, Sumando, Validando
<1>8. TotalesBien(t, r, vista[t])
  BY <1>6 DEF TotalesBien, Validando
<1>9. Local(t, r, vista[t])
  BY <1>4, <1>5 DEF LeerStockAntes
<1> QED BY <1>2, <1>6, <1>7, <1>8, <1>9, PasoLocal

\* An incoming line whose row another request is inserting.
LEMMA PasoInsertar ==
  ASSUME Inv, NEW t \in Peticiones, NEW p \in Productos,
         req[t].fase = "aplicar", p \in req[t].faltan,
         Local(t, [req[t] EXCEPT !.fase = "insertar", !.actual = p], vista[t])
  PROVE  Inv'
<1>1. /\ req[t] \in Peticion /\ req[t].pos \in 1..Len(req[t].cola)
      /\ req[t].faltan \subseteq Prods(req[t]) /\ EsVista(vista[t])
  BY Actual DEF Inv
<1>2. PICK r : r = [req[t] EXCEPT !.fase = "insertar", !.actual = p]
  OBVIOUS
<1>3. /\ r \in Peticion /\ r.cola = req[t].cola /\ r.mov = req[t].mov /\ r.pos = req[t].pos
      /\ r.fase = "insertar" /\ r.faltan = req[t].faltan /\ r.actual = p
  BY <1>1, <1>2 DEF Peticion, Fases
<1>4. ColaBien(t, r) /\ CerrojosBien(t, r)
  BY <1>1, <1>3, MismaCola DEF Sumando, Validando
<1>5. TotalesBien(t, r, vista[t])
  BY <1>3 DEF TotalesBien, Validando
<1> QED BY <1>1, <1>2, <1>3, <1>4, <1>5, PasoLocal

\* A line of the movement is applied to the stock.
LEMMA PasoAplicar ==
  ASSUME Inv, NEW t \in Peticiones, NEW p \in Productos, AplicarEgreso(t, p) \/ AplicarIngreso(t, p)
  PROVE  Inv'
<1>1. req[t].fase = "aplicar" /\ p \in req[t].faltan
  BY DEF AplicarEgreso, AplicarIngreso
<1>2. EnCurso(t) \in Contenido
  BY <1>1, Actual
<1>3. EnCurso(t).lineas[p] \in Nat /\ FilaDe(t, p) \in Filas
  BY <1>2 DEF FilaDe, Contenido, Filas
<1>4. Ver(t, FilaDe(t, p)) \in Nat
  BY <1>3, VerNat
<1>5. CASE AplicarEgreso(t, p)
  <2>1. CASE Deshacer(t)
    BY <2>1, PasoDeshacer
  <2>2. CASE /\ Libre(cFila[FilaDe(t, p)], t)
             /\ Ver(t, FilaDe(t, p)) - EnCurso(t).lineas[p] >= 0
             /\ EscribirFila(t, p, Ver(t, FilaDe(t, p)) - EnCurso(t).lineas[p])
    <3>1. Ver(t, FilaDe(t, p)) - EnCurso(t).lineas[p] \in Nat
      BY <1>3, <1>4, <2>2
    <3> QED BY <1>1, <2>2, <3>1, PasoEscribirFila
  <2> QED BY <1>5, <2>1, <2>2 DEF AplicarEgreso
<1>6. CASE AplicarIngreso(t, p)
  <2>1. CASE /\ Libre(cFila[FilaDe(t, p)], t)
             /\ EscribirFila(t, p, Ver(t, FilaDe(t, p)) + EnCurso(t).lineas[p])
    <3>1. Ver(t, FilaDe(t, p)) + EnCurso(t).lineas[p] \in Nat
      BY <1>3, <1>4
    <3> QED BY <1>1, <2>1, <3>1, PasoEscribirFila
  <2>2. CASE Local(t, [req[t] EXCEPT !.fase = "insertar", !.actual = p], vista[t])
    BY <1>1, <2>2, PasoInsertar
  <2> QED BY <1>6, <2>1, <2>2 DEF AplicarIngreso
<1> QED BY <1>5, <1>6

\* A first entry inserts the row it waited for.
LEMMA PasoInsertarFila ==
  ASSUME Inv, NEW t \in Peticiones, InsertarFila(t)
  PROVE  Inv'
<1> DEFINE p == req[t].actual
<1>1. req[t].fase = "insertar" /\ cFila[FilaDe(t, p)] = Nadie
  BY DEF InsertarFila
<1>2. p \in req[t].faltan /\ p \in Productos /\ EnCurso(t) \in Contenido
  BY <1>1, Actual DEF Inv, ColaBien, ConActual
<1>3. EnCurso(t).lineas[p] \in Nat /\ Libre(cFila[FilaDe(t, p)], t)
  BY <1>1, <1>2 DEF Contenido, Libre
<1>4. CASE Deshacer(t)
  BY <1>4, PasoDeshacer
<1>5. CASE EscribirFila(t, p, EnCurso(t).lineas[p])
  BY <1>1, <1>2, <1>3, <1>5, PasoEscribirFila
<1> QED BY <1>4, <1>5 DEF InsertarFila

\* The integrity of the lines is checked, or all goes back.
LEMMA PasoValidarIntegridad ==
  ASSUME Inv, NEW t \in Peticiones, ValidarIntegridad(t)
  PROVE  Inv'
<1>1. req[t].fase = "integridad"
  BY DEF ValidarIntegridad
<1>2. CASE Deshacer(t)
  BY <1>2, PasoDeshacer
<1>3. CASE Local(t, [req[t] EXCEPT !.fase = "suma"], vista[t])
  <2>1. /\ req[t] \in Peticion /\ req[t].pos \in 1..Len(req[t].cola)
        /\ req[t].faltan \subseteq Prods(req[t]) /\ EsVista(vista[t])
    BY <1>1, Actual DEF Inv
  <2>2. PICK r : r = [req[t] EXCEPT !.fase = "suma"]
    OBVIOUS
  <2>3. /\ r \in Peticion /\ r.cola = req[t].cola /\ r.mov = req[t].mov /\ r.pos = req[t].pos
        /\ r.fase = "suma" /\ r.faltan = req[t].faltan
    BY <2>1, <2>2 DEF Peticion, Fases
  <2>4. \A p \in Prods(req[t]) \ req[t].faltan : cProd[p] = t
    BY <1>1 DEF Inv, ColaBien
  <2>5. ColaBien(t, r) /\ CerrojosBien(t, r)
    BY <1>1, <2>1, <2>3, <2>4, MismaCola DEF ConActual, Validando
  <2>6. TotalesBien(t, r, vista[t])
    BY <2>3 DEF TotalesBien, Validando
  <2> QED BY <1>3, <2>1, <2>2, <2>3, <2>5, <2>6, PasoLocal
<1> QED BY <1>2, <1>3 DEF ValidarIntegridad

\* The ORM's reading of the product row, and its validation.
LEMMA PasoSumarStock ==
  ASSUME Inv, NEW t \in Peticiones, NEW p \in Productos, SumarStock(t, p)
  PROVE  Inv'
<1>1. req[t].fase = "suma" /\ p \in req[t].faltan
  BY DEF SumarStock
<1>2. /\ req[t] \in Peticion /\ req[t].pos \in 1..Len(req[t].cola)
      /\ req[t].faltan \subseteq Prods(req[t]) /\ EsVista(vista[t]) /\ CerrojosBien(t, req[t])
  BY <1>1, Actual DEF Inv
<1>3. PICK r : r = [req[t] EXCEPT !.fase = "producto", !.actual = p]
  OBVIOUS
<1>4. PICK v : v = [vista[t] EXCEPT !.suma = SumaStock(t, p)]
  OBVIOUS
<1>5. /\ r \in Peticion /\ r.cola = req[t].cola /\ r.mov = req[t].mov /\ r.pos = req[t].pos
      /\ r.fase = "producto" /\ r.faltan = req[t].faltan /\ r.actual = p
  BY <1>2, <1>3 DEF Peticion, Fases
<1>6. EsVista(v)
  BY <1>2, <1>4 DEF EsVista
<1>7. \A q \in Prods(req[t]) \ r.faltan : cProd[q] = t
  BY <1>1, <1>2, <1>5 DEF CerrojosBien, Sumando
<1>8. ColaBien(t, r) /\ CerrojosBien(t, r)
  BY <1>1, <1>2, <1>5, <1>7, MismaCola DEF Validando
<1>9. TotalesBien(t, r, v)
  BY <1>5 DEF TotalesBien, Validando
<1>10. Local(t, r, v)
  BY <1>3, <1>4 DEF SumarStock
<1> QED BY <1>5, <1>6, <1>8, <1>9, <1>10, PasoLocal

\* The product is read and locked.
LEMMA PasoLeerProducto ==
  ASSUME Inv, NEW t \in Peticiones, LeerProducto(t)
  PROVE  Inv'
<1>1. req[t].fase = "producto"
  BY DEF LeerProducto
<1>2. /\ req[t] \in Peticion /\ req[t].pos \in 1..Len(req[t].cola) /\ req[t].actual \in req[t].faltan
      /\ req[t].faltan \subseteq Prods(req[t]) /\ EsVista(vista[t]) /\ CerrojosBien(t, req[t])
  BY <1>1, Actual DEF Inv, ColaBien, ConActual
<1>3. PICK r : r = [req[t] EXCEPT !.fase = "escribir"]
  OBVIOUS
<1>4. PICK v : v = [vista[t] EXCEPT !.leido = VerProducto(t, req[t].actual)]
  OBVIOUS
<1>5. /\ r \in Peticion /\ r.cola = req[t].cola /\ r.mov = req[t].mov /\ r.pos = req[t].pos
      /\ r.fase = "escribir" /\ r.faltan = req[t].faltan /\ r.actual = req[t].actual
  BY <1>2, <1>3 DEF Peticion, Fases
<1>6. EsVista(v)
  BY <1>2, <1>4 DEF EsVista
<1>7. \A q \in Prods(req[t]) \ r.faltan : cProd[q] = t
  BY <1>1, <1>2, <1>5 DEF CerrojosBien, Sumando
<1>8. ColaBien(t, r) /\ CerrojosBien(t, r)
  BY <1>1, <1>2, <1>5, <1>7, MismaCola DEF Validando
<1>9. TotalesBien(t, r, v)
  BY <1>5 DEF TotalesBien, Validando
<1>10. Local(t, r, v)
  BY <1>3, <1>4 DEF LeerProducto
<1> QED BY <1>5, <1>6, <1>8, <1>9, <1>10, PasoLocal

\* The stock of a product is added up once more.
LEMMA PasoValidarSuma ==
  ASSUME Inv, NEW t \in Peticiones, NEW p \in Productos, ValidarSuma(t, p)
  PROVE  Inv'
<1>1. req[t].fase = "validarSuma" /\ p \in req[t].faltan
  BY DEF ValidarSuma
<1>2. /\ req[t] \in Peticion /\ req[t].pos \in 1..Len(req[t].cola)
      /\ req[t].faltan \subseteq Prods(req[t]) /\ EsVista(vista[t]) /\ CerrojosBien(t, req[t])
      /\ TotalesBien(t, req[t], vista[t])
  BY <1>1, Actual DEF Inv
<1>3. PICK r : r = [req[t] EXCEPT !.fase = "validarProducto", !.actual = p]
  OBVIOUS
<1>4. PICK v : v = [vista[t] EXCEPT !.suma = SumaStock(t, p)]
  OBVIOUS
<1>5. /\ r \in Peticion /\ r.cola = req[t].cola /\ r.mov = req[t].mov /\ r.pos = req[t].pos
      /\ r.fase = "validarProducto" /\ r.faltan = req[t].faltan /\ r.actual = p
      /\ r.filas = req[t].filas
  BY <1>2, <1>3 DEF Peticion, Fases
<1>6. EsVista(v) /\ v.prods = vista[t].prods /\ v.suma = SumaStock(t, p)
  BY <1>2, <1>4 DEF EsVista
<1>7. \A q \in Prods(req[t]) : cProd[q] = t
  BY <1>1, <1>2 DEF CerrojosBien, Validando
<1>8. ColaBien(t, r) /\ CerrojosBien(t, r) /\ Prods(r) = Prods(req[t])
  BY <1>1, <1>2, <1>5, <1>7, MismaCola DEF Sumando
<1>9. TotalesBien(t, r, v)
  <2>1. Vistas(t, r) = Vistas(t, req[t]) /\ Vistas(t, r) = VerFilas(t)
    BY <1>5 DEF Vistas, VerFilas, Ver
  <2>2. v.suma = Total(Vistas(t, r), r.actual)
    BY <1>5, <1>6, <2>1 DEF SumaStock
  <2> QED BY <1>1, <1>2, <1>5, <1>6, <1>8, <2>1, <2>2 DEF TotalesBien, Validando
<1>10. Local(t, r, v)
  BY <1>3, <1>4 DEF ValidarSuma
<1> QED BY <1>5, <1>6, <1>8, <1>9, <1>10, PasoLocal

\* The product is compared with that sum.
LEMMA PasoValidarProducto ==
  ASSUME Inv, NEW t \in Peticiones, ValidarProducto(t)
  PROVE  Inv'
<1>1. req[t].fase = "validarProducto"
  BY DEF ValidarProducto
<1>2. /\ req[t] \in Peticion /\ req[t].pos \in 1..Len(req[t].cola) /\ req[t].actual \in req[t].faltan
      /\ req[t].faltan \subseteq Prods(req[t]) /\ EsVista(vista[t]) /\ CerrojosBien(t, req[t])
      /\ TotalesBien(t, req[t], vista[t]) /\ ProductosDe(EnCurso(t)) = Prods(req[t])
      /\ Prods(req[t]) \subseteq Productos
  BY <1>1, Actual DEF Inv, ColaBien, ConActual
<1>3. CASE Deshacer(t)
  BY <1>3, PasoDeshacer
<1>4. CASE VerProducto(t, req[t].actual) = vista[t].suma /\ ProductoValidado(t)
  <2>1. PICK r : r = Avanzar(t, req[t].actual,
                             [req[t] EXCEPT !.fase = "validarSuma", !.actual = Nadie], "cerrar")
    OBVIOUS
  <2>2. PICK v : v = [vista[t] EXCEPT !.suma = 0]
    OBVIOUS
  <2>3. /\ r \in Peticion /\ r.cola = req[t].cola /\ r.mov = req[t].mov /\ r.pos = req[t].pos
        /\ r.filas = req[t].filas /\ r.faltan \subseteq Prods(req[t])
        /\ \/ r.fase = "validarSuma" /\ r.faltan = req[t].faltan \ {req[t].actual}
           \/ r.fase = "cerrar" /\ req[t].faltan \subseteq {req[t].actual}
    BY <1>2, <2>1 DEF Avanzar, Peticion, Fases
  <2>4. EsVista(v) /\ v.prods = vista[t].prods
    BY <1>2, <2>2 DEF EsVista
  <2>5. \A q \in Prods(req[t]) : cProd[q] = t
    BY <1>1, <1>2 DEF CerrojosBien, Validando
  <2>6. ColaBien(t, r) /\ CerrojosBien(t, r) /\ Prods(r) = Prods(req[t])
    BY <1>1, <1>2, <2>3, <2>5, MismaCola DEF Sumando, ConActual
  <2>7. TotalesBien(t, r, v)
    <3>1. Vistas(t, r) = Vistas(t, req[t])
      BY <2>3 DEF Vistas
    <3>2. vista[t].prods[req[t].actual] = Total(Vistas(t, r), req[t].actual)
      BY <1>1, <1>2, <1>4, <2>5, <3>1 DEF TotalesBien, VerProducto
    <3>3. \A q \in Prods(req[t]) \ req[t].faltan : vista[t].prods[q] = Total(Vistas(t, r), q)
      BY <1>1, <1>2, <3>1 DEF TotalesBien, Validando
    <3> QED BY <2>3, <2>4, <2>6, <3>2, <3>3 DEF TotalesBien, Validando
  <2>8. Local(t, r, v)
    BY <1>4, <2>1, <2>2 DEF ProductoValidado
  <2> QED BY <2>3, <2>4, <2>6, <2>7, <2>8, PasoLocal
<1> QED BY <1>3, <1>4 DEF ValidarProducto

\* Locking and writing the product row.
LEMMA PasoEscribirProducto ==
  ASSUME Inv, NEW t \in Peticiones, EscribirProducto(t)
  PROVE  Inv'
<1> DEFINE p == req[t].actual
<1>1. req[t].fase = "escribir" /\ Libre(cProd[p], t)
  BY DEF EscribirProducto
<1>2. /\ req[t] \in Peticion /\ req[t].pos \in 1..Len(req[t].cola) /\ p \in req[t].faltan
      /\ req[t].cola # <<>> /\ req[t].mov \in Movimientos /\ p \in Productos
      /\ req[t].faltan \subseteq Prods(req[t]) /\ EsVista(vista[t]) /\ CerrojosBien(t, req[t])
      /\ ProductosDe(EnCurso(t)) = Prods(req[t]) /\ Prods(req[t]) \subseteq Productos
  BY <1>1, Actual DEF Inv, ColaBien, ConActual
<1>a. PICK a : a = Avanzar(t, p, [req[t] EXCEPT !.fase = "suma", !.actual = Nadie], "validarSuma")
  OBVIOUS
<1>b. PICK x : x = IF vista[t].leido = vista[t].suma THEN VerProducto(t, p) ELSE vista[t].suma
  OBVIOUS
<1>c. PICK v : v = [suma |-> 0, leido |-> 0, prods |-> [vista[t].prods EXCEPT ![p] = x]]
  OBVIOUS
<1>3. /\ cProd' = [cProd EXCEPT ![p] = t]
      /\ req' = [req EXCEPT ![t] = a] /\ vista' = [vista EXCEPT ![t] = v]
      /\ UNCHANGED <<estado, dato, existe, stock, cantidad, relacion, cFila, cMov, veces>>
  <2>1. vista' = [vista EXCEPT ![t] = v]
    BY <1>b, <1>c DEF EscribirProducto, Inv
  <2> QED BY <1>a, <2>1 DEF EscribirProducto, bd
<1>4. /\ a \in Peticion /\ a.cola = req[t].cola /\ a.mov = req[t].mov /\ a.pos = req[t].pos
      /\ a.faltan \subseteq Prods(req[t])
      /\ \/ a.fase = "suma" /\ a.faltan = req[t].faltan \ {p}
         \/ a.fase = "validarSuma" /\ req[t].faltan \subseteq {p} /\ a.faltan = Prods(req[t])
  BY <1>2, <1>a DEF Avanzar, Peticion, Fases
<1>5. TypeOK'
  BY <1>2, <1>3, <1>4 DEF Inv, TypeOK
<1>6. vista' = [u \in Peticiones |-> vista'[u]]
  BY <1>3 DEF Inv
<1>7. ASSUME NEW u \in Peticiones
      PROVE  (EsVista(vista[u]) /\ ColaBien(u, req[u]) /\ CerrojosBien(u, req[u])
             /\ TotalesBien(u, req[u], vista[u]))'
  <2>1. CASE u = t
    <3>1. req'[t] = a /\ vista'[t] = v
      BY <1>3 DEF Inv, TypeOK
    <3>2. Prods(req[t])' = Prods(req[t])
      BY <1>3, <1>4, <3>1 DEF Prods, ProductosDe
    <3>3. EsVista(v)
      BY <1>2, <1>c DEF EsVista
    <3>4. EsVista(vista[t])'
      BY <3>1, <3>3 DEF EsVista
    <3>5. ColaBien(t, req[t])'
      BY <1>2, <1>3, <1>4, <3>1, <3>2, SMTT(30) DEF Inv, ColaBien, ConActual
    <3>6. \A q \in Productos : cProd'[q] = IF q = p THEN t ELSE cProd[q]
      BY <1>3 DEF Inv, TypeOK
    <3>7. \A q \in Prods(req[t]) \ req[t].faltan : cProd[q] = t
      BY <1>1, <1>2 DEF CerrojosBien, Sumando
    <3>8. CerrojosBien(t, req[t])'
      BY <1>2, <1>3, <1>4, <3>1, <3>2, <3>6, <3>7 DEF CerrojosBien, Sumando, Validando
    <3>9. TotalesBien(t, req[t], vista[t])'
      BY <1>4, <3>1, <3>2 DEF TotalesBien, Validando
    <3> QED BY <2>1, <3>4, <3>5, <3>8, <3>9
  <2>2. CASE u # t
    <3>1. req'[u] = req[u] /\ vista'[u] = vista[u]
      BY <1>3, <2>2 DEF Inv, TypeOK
    <3>2. \A q \in Productos : cProd'[q] = u <=> cProd[q] = u
      BY <1>1, <1>2, <1>3, <2>2, InventarioSupuestos DEF Inv, TypeOK, Libre
    <3>3. \A i \in 1..Len(req[u].cola) : estado[req[u].cola[i]] # "LIBRE"
      BY DEF Inv, ColaBien
    <3> QED BY <1>3, <3>1, <3>2, <3>3, OtraIgual
  <2> QED BY <2>1, <2>2
<1>8. NuevosPropios'
  <2>1. \A u \in Peticiones \ {t} : req'[u] = req[u]
    BY <1>3 DEF Inv, TypeOK
  <2>2. req'[t].cola = req[t].cola
    BY <1>3, <1>4 DEF Inv, TypeOK
  <2> QED BY <1>3, <2>1, <2>2, NuevosSiguen
<1>9. ProductoEsSuma'
  BY <1>3 DEF Inv, ProductoEsSuma, Total
<1> QED BY <1>5, <1>6, <1>7, <1>8, <1>9 DEF Inv

\* A transfer goes on with its second half.
LEMMA PasoConfirmarDestino ==
  ASSUME Inv, NEW t \in Peticiones, ConfirmarDestino(t)
  PROVE  Inv'
<1>1. req[t].fase = "cerrar" /\ req[t].pos < Len(req[t].cola)
  BY DEF ConfirmarDestino
<1>2. /\ req[t] \in Peticion /\ req[t].pos \in 1..Len(req[t].cola) /\ req[t].cola # <<>>
      /\ req[t].cola \in Seq(Movimientos)
      /\ EsVista(vista[t]) /\ ColaBien(t, req[t]) /\ Prods(req[t]) \subseteq Productos
  BY <1>1, Actual DEF Inv
<1>3. ProductosDe(dato[req[t].cola[req[t].pos + 1]]) = Prods(req[t])
  <2>1. req[t].pos + 1 \in 1..Len(req[t].cola)
    BY <1>1, <1>2
  <2>2. dato[req[t].cola[req[t].pos + 1]].lineas = dato[req[t].cola[1]].lineas
    BY <1>2, <2>1 DEF ColaBien
  <2> QED BY <1>2, <2>2 DEF Prods, ProductosDe
<1>x. PICK F : F = Prods(req[t])
  OBVIOUS
<1>4. PICK r : r = [req[t] EXCEPT !.fase = "antes", !.pos = req[t].pos + 1, !.faltan = F]
  OBVIOUS
<1>5. /\ r \in Peticion /\ r.cola = req[t].cola /\ r.mov = req[t].mov
      /\ r.pos = req[t].pos + 1 /\ r.fase = "antes" /\ r.faltan = Prods(req[t])
  <2>1. F \in SUBSET Productos /\ req[t].pos + 1 \in Nat /\ "antes" \in Fases
    BY <1>2, <1>x DEF Fases
  <2> QED BY <1>2, <1>x, <1>4, <2>1 DEF Peticion
<1>6. r.pos \in 1..Len(req[t].cola)
  BY <1>1, <1>2, <1>5
<1>7. ColaBien(t, r) /\ CerrojosBien(t, r)
  BY <1>1, <1>5, <1>6, MismaCola DEF Sumando, Validando, ConActual
<1>8. TotalesBien(t, r, vista[t])
  BY <1>5 DEF TotalesBien, Validando
<1>9. Local(t, r, vista[t])
  BY <1>3, <1>x, <1>4 DEF ConfirmarDestino
<1> QED BY <1>2, <1>5, <1>7, <1>8, <1>9, PasoLocal

\* A confirmation reads its movement.
LEMMA PasoLeerMovimiento ==
  ASSUME Inv, NEW t \in Peticiones, NEW m \in Movimientos, LeerMovimiento(t, m)
  PROVE  Inv'
<1>1. req[t].fase = "ocioso" /\ estado[m] = "BORRADOR"
  BY DEF LeerMovimiento
<1>2. /\ req[t] \in Peticion /\ EsVista(vista[t]) /\ ColaBien(t, req[t])
      /\ CerrojosBien(t, req[t]) /\ req[t].pos \in Nat
  BY DEF Inv, TypeOK, Peticion
<1>3. PICK F : F = ProductosDe(dato[m])
  OBVIOUS
<1>4. PICK fase \in {"firmar", "antes"} :
        Local(t, [req[t] EXCEPT !.fase = fase, !.modo = "confirmar", !.mov = m,
                                !.cola = <<m>>, !.faltan = F], vista[t])
  BY <1>3 DEF LeerMovimiento
<1>5. PICK r : r = [req[t] EXCEPT !.fase = fase, !.modo = "confirmar", !.mov = m,
                                  !.cola = <<m>>, !.faltan = F]
  OBVIOUS
<1>6. /\ r \in Peticion /\ r.cola = <<m>> /\ r.mov = m /\ r.pos = 1 /\ r.fase = fase
      /\ r.faltan = F
  <2>1. F \subseteq Productos /\ <<m>> \in Seq(Movimientos) /\ fase \in Fases /\ "confirmar" \in Modos
    BY <1>3 DEF ProductosDe, Fases, Modos
  <2> QED BY <1>1, <1>2, <1>5, <2>1 DEF Peticion, ColaBien
<1>7. Len(r.cola) = 1 /\ r.cola[1] = m /\ r.cola # <<>>
  BY <1>6
<1>8. Prods(r) = F
  BY <1>3, <1>7 DEF Prods
<1>9. ColaBien(t, r)
  BY <1>1, <1>6, <1>7, <1>8 DEF ColaBien, ConActual
<1>10. Prods(req[t]) = {}
  BY <1>1, <1>2 DEF ColaBien, Prods
<1>11. CerrojosBien(t, r) /\ TotalesBien(t, r, vista[t])
  BY <1>2, <1>6, <1>10 DEF CerrojosBien, TotalesBien, Sumando, Validando
<1>12. \A i \in 1..Len(r.cola) : estado[r.cola[i]] # "NUEVO"
  BY <1>1, <1>7
<1> QED BY <1>2, <1>4, <1>5, <1>6, <1>7, <1>9, <1>11, <1>12, PasoLocal

\* Signing the movement changes a lock no part of the invariant speaks of.
LEMMA PasoFirmarMovimiento ==
  ASSUME Inv, NEW t \in Peticiones, FirmarMovimiento(t)
  PROVE  Inv'
<1>1. req[t].fase = "firmar"
  BY DEF FirmarMovimiento
<1>2. /\ req[t] \in Peticion /\ req[t].pos \in 1..Len(req[t].cola) /\ req[t].mov \in Movimientos
      /\ req[t].faltan \subseteq Prods(req[t]) /\ EsVista(vista[t])
  BY <1>1, Actual DEF Inv
<1>3. PICK r : r = [req[t] EXCEPT !.fase = "antes"]
  OBVIOUS
<1>4. /\ cMov' = [cMov EXCEPT ![req[t].mov] = t] /\ req' = [req EXCEPT ![t] = r]
      /\ UNCHANGED <<estado, dato, existe, stock, cantidad, relacion, cFila, cProd, vista, veces>>
  BY <1>3 DEF FirmarMovimiento, bd
<1>5. /\ r \in Peticion /\ r.cola = req[t].cola /\ r.mov = req[t].mov /\ r.pos = req[t].pos
      /\ r.fase = "antes" /\ r.faltan = req[t].faltan
  BY <1>2, <1>3 DEF Peticion, Fases
<1>6. ColaBien(t, r) /\ CerrojosBien(t, r) /\ Prods(r) = Prods(req[t])
  BY <1>1, <1>2, <1>5, MismaCola DEF ConActual, Sumando, Validando
<1>7. TypeOK'
  BY <1>2, <1>4, <1>5 DEF Inv, TypeOK
<1>8. ASSUME NEW u \in Peticiones
      PROVE  (EsVista(vista[u]) /\ ColaBien(u, req[u]) /\ CerrojosBien(u, req[u])
             /\ TotalesBien(u, req[u], vista[u]))'
  <2>1. CASE u = t
    <3>1. req'[t] = r
      BY <1>4 DEF Inv, TypeOK
    <3>2. Prods(req[t])' = Prods(r)
      BY <1>4, <3>1 DEF Prods, ProductosDe
    <3>3. ColaBien(t, req[t])'
      BY <1>4, <1>6, <3>1, <3>2 DEF ColaBien
    <3>4. CerrojosBien(t, req[t])'
      BY <1>4, <1>6, <3>1, <3>2 DEF CerrojosBien
    <3>5. TotalesBien(t, req[t], vista[t])' /\ EsVista(vista[t])'
      BY <1>2, <1>4, <1>5, <3>1 DEF TotalesBien, Validando, EsVista
    <3> QED BY <2>1, <3>3, <3>4, <3>5
  <2>2. CASE u # t
    <3>1. req'[u] = req[u] /\ \A i \in 1..Len(req[u].cola) : estado[req[u].cola[i]] # "LIBRE"
      BY <1>4, <2>2 DEF Inv, TypeOK, ColaBien
    <3> QED BY <1>4, <3>1, OtraIgual
  <2> QED BY <2>1, <2>2
<1>9. NuevosPropios'
  <2>1. /\ \A u \in Peticiones \ {t} : req'[u] = req[u]
        /\ req'[t].cola = req[t].cola
    BY <1>4, <1>5 DEF Inv, TypeOK
  <2> QED BY <1>4, <2>1, NuevosSiguen
<1>10. ProductoEsSuma'
  BY <1>4 DEF Inv, ProductoEsSuma, Total
<1> QED BY <1>4, <1>7, <1>8, <1>9, <1>10 DEF Inv

\* Creating a draft, or cancelling one, disturbs no request.
LEMMA PasoBorrador ==
  ASSUME Inv, NEW m \in Movimientos,
         (\E d \in Datos : CrearBorrador(m, d)) \/ (\E t \in Peticiones : AnularBorrador(t, m))
  PROVE  Inv'
<1>1. /\ UNCHANGED <<existe, stock, cantidad, relacion, cFila, cProd, cMov, req, vista, veces>>
      /\ estado' \in [Movimientos -> EstadosMov] /\ dato' \in [Movimientos -> Contenido]
      /\ estado'[m] \in {"BORRADOR", "ANULADO"}
      /\ \A n \in Movimientos : n # m => estado'[n] = estado[n] /\ dato'[n] = dato[n]
      /\ estado[m] = "LIBRE" \/ dato' = dato
  <2>1. CASE \E d \in Datos : CrearBorrador(m, d)
    BY <2>1, InventarioSupuestos DEF CrearBorrador, Inv, TypeOK, EstadosMov, locks
  <2>2. CASE \E t \in Peticiones : AnularBorrador(t, m)
    BY <2>2 DEF AnularBorrador, Inv, TypeOK, EstadosMov, locks
  <2> QED BY <2>1, <2>2
<1>2. TypeOK'
  BY <1>1 DEF Inv, TypeOK
<1>3. \A u \in Peticiones : \A i \in 1..Len(req[u].cola) :
        req[u].cola[i] \in Movimientos /\ estado[req[u].cola[i]] # "LIBRE"
  BY DEF Inv, TypeOK, Peticion, ColaBien
<1>4. ASSUME NEW u \in Peticiones
      PROVE  (EsVista(vista[u]) /\ ColaBien(u, req[u]) /\ CerrojosBien(u, req[u])
             /\ TotalesBien(u, req[u], vista[u]))'
  <2>1. ASSUME NEW i \in 1..Len(req[u].cola)
        PROVE  /\ estado'[req[u].cola[i]] # "LIBRE"
               /\ dato'[req[u].cola[i]] = dato[req[u].cola[i]]
    BY <1>1, <1>3
  <2> QED BY <1>1, <2>1, OtraIgual
<1>5. NuevosPropios'
  BY <1>1, <1>3 DEF Inv, NuevosPropios
<1>6. ProductoEsSuma'
  BY <1>1 DEF Inv, ProductoEsSuma, Total
<1> QED BY <1>1, <1>2, <1>4, <1>5, <1>6 DEF Inv

\* A request that begins by inserting the movements it is going to confirm.
LEMMA PasoInsertarMovimientos ==
  ASSUME Inv, NEW t \in Peticiones, req[t].fase = "ocioso", NEW r \in Peticion,
         req' = [req EXCEPT ![t] = r],
         UNCHANGED <<existe, stock, cantidad, relacion, cFila, cProd, vista, veces>>,
         cMov' \in [Movimientos -> Peticiones \cup {Nadie}],
         estado' \in [Movimientos -> EstadosMov], dato' \in [Movimientos -> Contenido],
         r.fase = "antes", r.cola # <<>>, r.mov \in Movimientos, r.pos = 1,
         \A m \in Movimientos : estado[m] # "LIBRE" => estado'[m] = estado[m] /\ dato'[m] = dato[m],
         \A i \in 1..Len(r.cola) : /\ estado[r.cola[i]] = "LIBRE" /\ estado'[r.cola[i]] = "NUEVO"
                                   /\ dato'[r.cola[i]].lineas = dato'[r.cola[1]].lineas
                                   /\ ProductosDe(dato'[r.cola[i]]) = r.faltan
  PROVE  Inv'
<1>1. TypeOK'
  BY DEF Inv, TypeOK
<1>2. /\ \A u \in Peticiones : \A i \in 1..Len(req[u].cola) :
            req[u].cola[i] \in Movimientos /\ estado[req[u].cola[i]] # "LIBRE"
      /\ r.cola \in Seq(Movimientos) /\ req'[t] = r /\ \A u \in Peticiones \ {t} : req'[u] = req[u]
  <2>1. /\ r.cola \in Seq(Movimientos) /\ req'[t] = r
        /\ \A u \in Peticiones \ {t} : req'[u] = req[u]
    BY DEF Inv, TypeOK, Peticion
  <2>2. ASSUME NEW u \in Peticiones, NEW i \in 1..Len(req[u].cola)
        PROVE  req[u].cola[i] \in Movimientos /\ estado[req[u].cola[i]] # "LIBRE"
    <3>1. req[u].cola \in Seq(Movimientos)
      BY DEF Inv, TypeOK, Peticion
    <3>2. estado[req[u].cola[i]] # "LIBRE"
      BY DEF Inv, ColaBien
    <3> QED BY <3>1, <3>2
  <2> QED BY <2>1, <2>2
<1>3. ASSUME NEW u \in Peticiones
      PROVE  (EsVista(vista[u]) /\ ColaBien(u, req[u]) /\ CerrojosBien(u, req[u])
             /\ TotalesBien(u, req[u], vista[u]))'
  <2>1. CASE u = t
    <3>1. 1 \in 1..Len(r.cola)
      BY <1>2
    <3>2. Prods(req[t])' = r.faltan
      BY <1>2, <3>1 DEF Prods, ProductosDe
    <3>3. EsVista(vista[t])'
      BY DEF Inv, EsVista
    <3>4. ColaBien(t, req[t])'
      BY <1>2, <3>1, <3>2 DEF ColaBien, ConActual
    <3>5. Prods(req[t]) = {}
      BY DEF Inv, ColaBien, Prods
    <3>6. CerrojosBien(t, req[t])'
      BY <1>2, <3>5 DEF Inv, CerrojosBien, Sumando, Validando
    <3>7. TotalesBien(t, req[t], vista[t])'
      BY <1>2 DEF TotalesBien, Validando
    <3> QED BY <2>1, <3>3, <3>4, <3>6, <3>7
  <2>2. CASE u # t
    <3>1. req'[u] = req[u]
      BY <1>2, <2>2
    <3>2. ASSUME NEW i \in 1..Len(req[u].cola)
          PROVE  /\ estado'[req[u].cola[i]] # "LIBRE"
                 /\ dato'[req[u].cola[i]] = dato[req[u].cola[i]]
      BY <1>2
    <3> QED BY <3>1, <3>2, OtraIgual
  <2> QED BY <2>1, <2>2
<1>4. NuevosPropios'
  BY <1>2, NuevosSiguen
<1>5. ProductoEsSuma'
  BY DEF Inv, ProductoEsSuma, Total
<1> QED BY <1>1, <1>3, <1>4, <1>5 DEF Inv

\* A cancellation locks the movement and inserts its reverse.
LEMMA PasoAnularConfirmado ==
  ASSUME Inv, NEW t \in Peticiones, NEW m \in Movimientos, NEW r \in Movimientos,
         AnularConfirmado(t, m, r)
  PROVE  Inv'
<1>1. /\ req[t].fase = "ocioso" /\ estado[m] = "CONFIRMADO" /\ estado[r] = "LIBRE"
      /\ cMov' = [cMov EXCEPT ![m] = t] /\ estado' = [estado EXCEPT ![r] = "NUEVO"]
      /\ dato' = [dato EXCEPT ![r] = Reverso(m)]
      /\ UNCHANGED <<existe, stock, cantidad, relacion, cFila, cProd, vista, veces>>
  BY DEF AnularConfirmado
<1>2. PICK F : F = ProductosDe(dato[m])
  OBVIOUS
<1>3. PICK a : a = [req[t] EXCEPT !.fase = "antes", !.modo = "anular", !.mov = m,
                                  !.cola = <<r>>, !.faltan = F]
  OBVIOUS
<1>4. req' = [req EXCEPT ![t] = a]
  BY <1>2, <1>3 DEF AnularConfirmado, Inv, TypeOK
<1>5. req[t] \in Peticion /\ req[t].pos = 1 /\ dato[m] \in Contenido
  BY <1>1 DEF Inv, TypeOK, ColaBien
<1>6. F \in SUBSET Productos /\ <<r>> \in Seq(Movimientos) /\ "antes" \in Fases /\ "anular" \in Modos
  BY <1>2 DEF ProductosDe, Fases, Modos
<1>7. /\ a \in Peticion /\ a.fase = "antes" /\ a.cola = <<r>> /\ a.mov = m /\ a.pos = 1
      /\ a.faltan = F
  BY <1>3, <1>5, <1>6 DEF Peticion
<1>8. Len(a.cola) = 1 /\ a.cola[1] = r /\ a.cola # <<>>
  BY <1>7
<1>9. Reverso(m) \in Contenido /\ Reverso(m).lineas = dato[m].lineas
  BY <1>5 DEF Reverso, Contenido, TipoReverso, Tipos
<1>10. /\ cMov' \in [Movimientos -> Peticiones \cup {Nadie}]
       /\ estado' \in [Movimientos -> EstadosMov] /\ dato' \in [Movimientos -> Contenido]
  BY <1>1, <1>9 DEF Inv, TypeOK, EstadosMov
<1>12. \A n \in Movimientos : estado[n] # "LIBRE" => estado'[n] = estado[n] /\ dato'[n] = dato[n]
  BY <1>1 DEF Inv, TypeOK
<1>13. \A i \in 1..Len(a.cola) : /\ estado[a.cola[i]] = "LIBRE" /\ estado'[a.cola[i]] = "NUEVO"
                                 /\ dato'[a.cola[i]].lineas = dato'[a.cola[1]].lineas
                                 /\ ProductosDe(dato'[a.cola[i]]) = a.faltan
  BY <1>1, <1>2, <1>7, <1>8, <1>9 DEF Inv, TypeOK, ProductosDe
<1>14. /\ req[t].fase = "ocioso"
       /\ UNCHANGED <<existe, stock, cantidad, relacion, cFila, cProd, vista, veces>>
  BY <1>1
<1>15. /\ a \in Peticion /\ a.fase = "antes" /\ a.cola # <<>> /\ a.mov \in Movimientos /\ a.pos = 1
  BY <1>7, <1>8
<1> QED BY <1>4, <1>10, <1>12, <1>13, <1>14, <1>15, PasoInsertarMovimientos

\* A transfer inserts its two movements.
LEMMA PasoTransferir ==
  ASSUME Inv, NEW t \in Peticiones, NEW e \in Movimientos, NEW i \in Movimientos, NEW d \in Datos,
         NEW b \in Bodegas, Transferir(t, e, i, d, b)
  PROVE  Inv'
<1>1. /\ req[t].fase = "ocioso" /\ e # i /\ estado[e] = "LIBRE" /\ estado[i] = "LIBRE"
      /\ estado' = [estado EXCEPT ![e] = "NUEVO", ![i] = "NUEVO"]
      /\ dato' = [dato EXCEPT ![e] = d, ![i] = [d EXCEPT !.tipo = "INGRESO", !.bodega = b]]
      /\ UNCHANGED <<existe, stock, cantidad, relacion, cFila, cProd, cMov, vista, veces>>
  BY DEF Transferir, locks
<1>2. PICK F : F = ProductosDe(d)
  OBVIOUS
<1>3. PICK a : a = [req[t] EXCEPT !.fase = "antes", !.modo = "transferir", !.mov = e,
                                  !.cola = <<e, i>>, !.faltan = F]
  OBVIOUS
<1>4. req' = [req EXCEPT ![t] = a]
  BY <1>2, <1>3 DEF Transferir, Inv, TypeOK
<1>5. req[t] \in Peticion /\ req[t].pos = 1 /\ d \in Contenido
  BY <1>1, InventarioSupuestos DEF Inv, TypeOK, ColaBien
<1>6. F \in SUBSET Productos /\ <<e, i>> \in Seq(Movimientos) /\ "antes" \in Fases /\ "transferir" \in Modos
  BY <1>2 DEF ProductosDe, Fases, Modos
<1>7. /\ a \in Peticion /\ a.fase = "antes" /\ a.cola = <<e, i>> /\ a.mov = e /\ a.pos = 1
      /\ a.faltan = F
  BY <1>3, <1>5, <1>6 DEF Peticion
<1>8. Len(a.cola) = 2 /\ a.cola[1] = e /\ a.cola[2] = i /\ a.cola # <<>>
  BY <1>7
<1>9. PICK x : x = [d EXCEPT !.tipo = "INGRESO", !.bodega = b]
  OBVIOUS
<1>x. x \in Contenido /\ x.lineas = d.lineas
  BY <1>5, <1>9 DEF Contenido, Tipos
<1>10. /\ cMov' \in [Movimientos -> Peticiones \cup {Nadie}]
       /\ estado' \in [Movimientos -> EstadosMov] /\ dato' \in [Movimientos -> Contenido]
  BY <1>1, <1>5, <1>9, <1>x DEF Inv, TypeOK, EstadosMov
<1>12. \A n \in Movimientos : estado[n] # "LIBRE" => estado'[n] = estado[n] /\ dato'[n] = dato[n]
  BY <1>1 DEF Inv, TypeOK
<1>13. \A k \in 1..Len(a.cola) : /\ estado[a.cola[k]] = "LIBRE" /\ estado'[a.cola[k]] = "NUEVO"
                                 /\ dato'[a.cola[k]].lineas = dato'[a.cola[1]].lineas
                                 /\ ProductosDe(dato'[a.cola[k]]) = a.faltan
  <2>1. \A k \in 1..2 : k = 1 \/ k = 2
    OBVIOUS
  <2> QED BY <1>1, <1>2, <1>7, <1>8, <1>9, <1>x, <2>1 DEF Inv, TypeOK, ProductosDe
<1>14. /\ req[t].fase = "ocioso"
       /\ UNCHANGED <<existe, stock, cantidad, relacion, cFila, cProd, vista, veces>>
  BY <1>1
<1>15. /\ a \in Peticion /\ a.fase = "antes" /\ a.cola # <<>> /\ a.mov \in Movimientos /\ a.pos = 1
  BY <1>7, <1>8
<1> QED BY <1>4, <1>10, <1>12, <1>13, <1>14, <1>15, PasoInsertarMovimientos

\* The commit: the products whose stock it changes are the ones it holds and has validated.
LEMMA PasoComprometer ==
  ASSUME Inv, NEW t \in Peticiones, Comprometer(t)
  PROVE  Inv'
<1> USE InventarioSupuestos
<1>1. req[t].fase = "cerrar"
  BY DEF Comprometer, PuedeCerrar
<1>2. /\ req[t].cola \in Seq(Movimientos) /\ CerrojosBien(t, req[t]) /\ EsVista(vista[t])
      /\ TotalesBien(t, req[t], vista[t]) /\ Prods(req[t]) \subseteq Productos
  BY <1>1, Actual DEF Inv
<1>3. /\ req' = [req EXCEPT ![t] = Reposo] /\ vista' = [vista EXCEPT ![t] = SinVista]
      /\ stock' = VerFilas(t) /\ cantidad' = [p \in Productos |-> VerProducto(t, p)]
      /\ dato' = dato
  BY DEF Comprometer, PuedeCerrar
<1>4. /\ \A m \in Movimientos : estado'[m] \in {"CONFIRMADO", "ANULADO", estado[m]}
      /\ \A i \in 1..Len(req[t].cola) : estado'[req[t].cola[i]] = "CONFIRMADO"
      /\ estado' \in [Movimientos -> EstadosMov]
  <2>1. DOMAIN req[t].cola = 1..Len(req[t].cola)
        /\ \A i \in 1..Len(req[t].cola) : req[t].cola[i] \in Movimientos
    BY <1>2
  <2>2. estado \in [Movimientos -> EstadosMov]
    BY DEF Inv, TypeOK
  <2> QED BY <2>1, <2>2 DEF Comprometer, PuedeCerrar, Confirmados, EstadosMov
<1>5. /\ \A f \in Filas : cFila'[f] = IF cFila[f] = t THEN Nadie ELSE cFila[f]
      /\ \A p \in Productos : cProd'[p] = IF cProd[p] = t THEN Nadie ELSE cProd[p]
      /\ cFila' \in [Filas -> Peticiones \cup {Nadie}]
      /\ cProd' \in [Productos -> Peticiones \cup {Nadie}]
      /\ cMov' \in [Movimientos -> Peticiones \cup {Nadie}]
  BY DEF Comprometer, PuedeCerrar, SoltarCerrojos, Inv, TypeOK
<1>6. \A p \in Prods(req[t]) : cProd[p] = t
  BY <1>1, <1>2 DEF CerrojosBien
<1>7. \A f \in Filas : cFila[f] = t => cProd[f[2]] = t
  BY <1>2, <1>6 DEF CerrojosBien
<1>8. \A f \in Filas : stock'[f] = Ver(t, f) /\ (cFila[f] # t => stock'[f] = stock[f])
  BY <1>3 DEF VerFilas, Ver
<1>9. TypeOK'
  <2>1. Reposo \in Peticion
    BY DEF Reposo, Peticion, Fases, Modos, Filas
  <2>2. stock' \in [Filas -> Nat]
    BY <1>3, VerNat DEF VerFilas
  <2>3. relacion' \in [Filas -> Nat]
    <3>1. relacion' = [f \in Filas |-> IF cFila[f] = t THEN Ver(t, f) ELSE relacion[f]]
      BY DEF Comprometer, PuedeCerrar
    <3> QED BY <3>1, VerNat DEF Inv, TypeOK
  <2>4. existe' \in SUBSET Filas /\ veces' \in [Movimientos -> Nat]
    BY DEF Comprometer, PuedeCerrar, Inv, TypeOK
  <2> QED BY <1>3, <1>4, <1>5, <2>1, <2>2, <2>3, <2>4 DEF Inv, TypeOK
<1>10. ASSUME NEW u \in Peticiones
       PROVE  (EsVista(vista[u]) /\ ColaBien(u, req[u]) /\ CerrojosBien(u, req[u])
              /\ TotalesBien(u, req[u], vista[u]))'
  <2>1. CASE u = t
    <3>1. req'[t] = Reposo /\ vista'[t] = SinVista
      BY <1>3 DEF Inv, TypeOK
    <3> QED BY <1>5, <2>1, <3>1, PeticionEnReposo
  <2>2. CASE u # t
    <3>1. req'[u] = req[u] /\ vista'[u] = vista[u] /\ req[u].cola \in Seq(Movimientos)
      BY <1>3, <2>2 DEF Inv, TypeOK, Peticion
    <3>2. ASSUME NEW i \in 1..Len(req[u].cola)
          PROVE  /\ estado'[req[u].cola[i]] # "LIBRE"
                 /\ dato'[req[u].cola[i]] = dato[req[u].cola[i]]
      <4>1. req[u].cola[i] \in Movimientos
        BY <3>1
      <4>2. estado[req[u].cola[i]] # "LIBRE"
        BY DEF Inv, ColaBien
      <4> QED BY <1>3, <1>4, <4>1, <4>2
    <3>3. \A f \in Filas : cFila'[f] = u <=> cFila[f] = u
      BY <1>5, <2>2
    <3>4. \A p \in Productos : cProd'[p] = u <=> cProd[p] = u
      BY <1>5, <2>2
    <3>5. \A f \in Filas : cProd[f[2]] = u => cFila[f] = u \/ stock'[f] = stock[f]
      BY <1>7, <1>8, <2>2
    <3> QED BY <3>1, <3>2, <3>3, <3>4, <3>5, OtraIgual
  <2> QED BY <2>1, <2>2
<1>11. NuevosPropios'
  <2>1. \A u \in Peticiones \ {t} : req'[u] = req[u]
    BY <1>3 DEF Inv, TypeOK
  <2>2. \A u \in Peticiones : \A i \in 1..Len(req[u].cola) : req[u].cola[i] \in Movimientos
    BY DEF Inv, TypeOK, Peticion
  <2>3. Len(req'[t].cola) = 0
    BY <1>3 DEF Inv, TypeOK, Reposo
  <2>4. \A m \in Movimientos : estado'[m] = "NUEVO" => estado[m] = "NUEVO"
    BY <1>4
  <2> QED BY <2>1, <2>2, <2>3, <2>4, NuevosSiguen
<1>12. ProductoEsSuma'
  <2> SUFFICES ASSUME NEW p \in Productos PROVE cantidad'[p] = Total(stock', p)
    BY DEF ProductoEsSuma, Total
  <2>1. CASE cProd[p] = t
    <3>1. p \in Prods(req[t])
      BY <1>2, <2>1 DEF CerrojosBien
    <3>2. cantidad'[p] = vista[t].prods[p]
      BY <1>3, <2>1 DEF VerProducto
    <3>3. vista[t].prods[p] = Total(Vistas(t, req[t]), p)
      BY <1>1, <1>2, <3>1 DEF TotalesBien
    <3>4. stock' = Vistas(t, req[t])
      BY <1>3 DEF VerFilas, Ver, Vistas
    <3> QED BY <3>2, <3>3, <3>4
  <2>2. CASE cProd[p] # t
    <3>1. cantidad'[p] = cantidad[p]
      BY <1>3, <2>2 DEF VerProducto
    <3>2. ASSUME NEW b \in Bodegas PROVE stock'[<<b, p>>] = stock[<<b, p>>]
      <4>1. <<b, p>> \in Filas /\ <<b, p>>[2] = p
        BY DEF Filas
      <4> QED BY <1>7, <1>8, <2>2, <4>1
    <3>3. Total(stock', p) = Total(stock, p)
      BY <3>2, TotalIgual
    <3> QED BY <3>1, <3>3 DEF Inv, ProductoEsSuma
  <2> QED BY <2>1, <2>2
<1> QED BY <1>3, <1>9, <1>10, <1>11, <1>12 DEF Inv

-----------------------------------------------------------------------------
(* Theorems *)

\* Every action of the service preserves the inductive invariant.
LEMMA PasoBien == Inv /\ [Next]_vars => Inv'
<1> SUFFICES ASSUME Inv, [Next]_vars PROVE Inv'
  OBVIOUS
<1>1. CASE UNCHANGED vars
  <2>1. ASSUME NEW u \in Peticiones
        PROVE  (EsVista(vista[u]) /\ ColaBien(u, req[u]) /\ CerrojosBien(u, req[u])
               /\ TotalesBien(u, req[u], vista[u]))'
    <3>1. \A i \in 1..Len(req[u].cola) : estado[req[u].cola[i]] # "LIBRE"
      BY DEF Inv, ColaBien
    <3> QED BY <1>1, <3>1, OtraIgual DEF vars
  <2>2. TypeOK' /\ NuevosPropios' /\ ProductoEsSuma' /\ (vista = [t \in Peticiones |-> vista[t]])'
    BY <1>1 DEF vars, Inv, TypeOK, NuevosPropios, ProductoEsSuma, Total
  <2> QED BY <2>1, <2>2 DEF Inv
<1>2. ASSUME NEW m \in Movimientos, NEW d \in Datos, CrearBorrador(m, d)
      PROVE  Inv'
  BY <1>2, PasoBorrador
<1>3. ASSUME NEW t \in Peticiones, NEW m \in Movimientos,
             \/ LeerMovimiento(t, m)
             \/ AnularBorrador(t, m)
             \/ \E r \in Movimientos : AnularConfirmado(t, m, r)
             \/ \E i \in Movimientos, d \in Datos, b \in Bodegas : Transferir(t, m, i, d, b)
      PROVE  Inv'
  BY <1>3, PasoLeerMovimiento, PasoBorrador, PasoAnularConfirmado, PasoTransferir
<1>4. ASSUME NEW t \in Peticiones, Confirmar(t)
      PROVE  Inv'
  <2>1. CASE FirmarMovimiento(t)
    BY <2>1, PasoFirmarMovimiento
  <2>2. ASSUME NEW p \in Productos, \/ LeerStockAntes(t, p) \/ AplicarEgreso(t, p)
                                    \/ AplicarIngreso(t, p) \/ SumarStock(t, p) \/ ValidarSuma(t, p)
        PROVE  Inv'
    BY <2>2, PasoLeerStockAntes, PasoAplicar, PasoSumarStock, PasoValidarSuma
  <2>3. CASE InsertarFila(t) \/ ValidarIntegridad(t) \/ LeerProducto(t) \/ EscribirProducto(t)
    BY <2>3, PasoInsertarFila, PasoValidarIntegridad, PasoLeerProducto, PasoEscribirProducto
  <2>4. CASE ValidarProducto(t) \/ ConfirmarDestino(t) \/ Comprometer(t)
    BY <2>4, PasoValidarProducto, PasoConfirmarDestino, PasoComprometer
  <2>5. CASE Interbloqueo(t)
    BY <2>5, PasoDeshacer DEF Interbloqueo
  <2> QED BY <1>4, <2>1, <2>2, <2>3, <2>4, <2>5 DEF Confirmar
<1> QED BY <1>1, <1>2, <1>3, <1>4 DEF Next

\* The inductive invariant holds in every reachable state.
THEOREM InvarianteInductivo == Spec => []Inv
<1>1. Init => Inv
  BY InicioBien
<1>2. Inv /\ [Next]_vars => Inv'
  BY PasoBien
<1> QED BY <1>1, <1>2, PTL DEF Spec

\* Every variable keeps its type: no stock row, committed or private, is ever negative.
THEOREM TiposCorrectos == Spec => []TypeOK
<1>1. Inv => TypeOK
  BY DEF Inv
<1> QED BY <1>1, InvarianteInductivo, PTL

\* Producto.cantidad is at every moment the sum of the committed stock, for any number of
\* concurrent requests, bodegas and products.
THEOREM ProductoSincronizado == Spec => []ProductoEsSuma
<1>1. Inv => ProductoEsSuma
  BY DEF Inv
<1> QED BY <1>1, InvarianteInductivo, PTL
-----------------------------------------------------------------------------
(* The books: what each request has entered and not committed *)

\* The products of the i-th movement of the queue of r that r has entered.
Aplicados(r, i) ==
  IF i > r.pos \/ (i = r.pos /\ r.fase \in {"ocioso", "firmar", "antes"}) THEN {}
  ELSE IF i = r.pos /\ r.fase \in {"aplicar", "insertar"} THEN Prods(r) \ r.faltan
  ELSE Prods(r)

Asentado(r, i, p) == IF p \in Aplicados(r, i) THEN Delta(dato[r.cola[i]], p) ELSE 0

\* A request sees the committed stock and what it has entered itself, and nothing else.
LibroBien(t, r) ==
  /\ \A i \in 1..Len(r.cola) : \A p \in Productos :
       LET f == <<dato[r.cola[i]].bodega, p>>
       IN  Vistas(t, r)[f] = stock[f] + Asentado(r, i, p)
  /\ \A f \in Filas : cFila[f] = t => \E i \in 1..Len(r.cola) : f[1] = dato[r.cola[i]].bodega
  /\ r.fase = "insertar" => ~EsEgreso(dato[r.cola[r.pos]])

\* What a request that confirms, cancels or transfers has in its queue.
OrdenBien(t, r) ==
  \/ r.cola = <<>>
  \/ /\ r.modo = "confirmar" /\ r.cola = <<r.mov>>
     /\ estado[r.mov] \notin {"LIBRE", "NUEVO"} /\ dato[r.mov].revierte = Nadie
  \/ /\ r.modo = "anular" /\ Len(r.cola) = 1 /\ cMov[r.mov] = t
     /\ estado[r.mov] = "CONFIRMADO"
     /\ estado[r.cola[1]] = "NUEVO" /\ dato[r.cola[1]].revierte = r.mov
  \/ /\ r.modo = "transferir" /\ Len(r.cola) = 2 /\ r.cola[1] # r.cola[2]
     /\ dato[r.cola[1]] \in Datos /\ dato[r.cola[1]].tipo = "TRANSFERENCIA"
     /\ dato[r.cola[2]].tipo = "INGRESO" /\ dato[r.cola[2]].bodega # dato[r.cola[1]].bodega
     /\ dato[r.cola[2]].revierte = Nadie
     /\ estado[r.cola[1]] = "NUEVO" /\ estado[r.cola[2]] = "NUEVO"

\* The lines of a movement are those a client sent; a draft reverses nothing.
MovimientosBien ==
  \A m \in Movimientos :
    /\ \E d \in Datos : dato[m].lineas = d.lineas
    /\ estado[m] \in {"LIBRE", "NUEVO"} => veces[m] = 0
    /\ estado[m] = "BORRADOR" => dato[m].revierte = Nadie

InvLibro ==
  /\ \A t \in Peticiones : LibroBien(t, req[t]) /\ OrdenBien(t, req[t])
  /\ MovimientosBien
  /\ \A f \in Filas \ existe : stock[f] = 0
  /\ EfectosCuadran

-----------------------------------------------------------------------------
(* Sums over a finite set: induction on its parts, each time from a least counterexample *)

\* What SumFunction adds up at a set s once the sums h of smaller sets are known.
Sumado(g, h, s) ==
  IF s = {} THEN 0
  ELSE LET x == CHOOSE x \in s : TRUE IN g[x] + h[s \ {x}]

\* A nonempty set of naturals has a least element.
LEMMA MinimoNatural ==
  ASSUME NEW N \in SUBSET Nat, N # {}
  PROVE  \E n \in N : \A k \in N : n <= k
<1> DEFINE T == {1..n : n \in N}
<1>1. T \subseteq FiniteSubsetsOf(Nat) /\ T # {}
  <2>1. ASSUME NEW n \in N PROVE 1..n \in SUBSET Nat /\ IsFiniteSet(1..n)
    BY FS_Interval
  <2> QED BY <2>1 DEF FiniteSubsetsOf
<1>2. PICK u \in T : \A v \in T : ~ (<<v, u>> \in StrictSubsetOrdering(Nat))
  <2> HIDE DEF T
  <2> QED BY <1>1, FS_StrictSubsetOrderingWellFounded, WFMin
<1>3. PICK n \in N : u = 1..n
  BY <1>2
<1>4. ASSUME NEW k \in N, k < n PROVE FALSE
  <2>1. 1..k \subseteq 1..n /\ n \in 1..n /\ n \notin 1..k /\ 1..k \in T
    BY <1>4
  <2>2. <<1..k, 1..n>> \in StrictSubsetOrdering(Nat)
    BY <2>1 DEF StrictSubsetOrdering
  <2> QED BY <1>2, <1>3, <2>1, <2>2
<1> QED BY <1>4

\* The function of sums exists.
LEMMA HaySumas ==
  ASSUME NEW S, IsFiniteSet(S), NEW g \in [S -> Int]
  PROVE  \E h \in [SUBSET S -> Int] : \A s \in SUBSET S : h[s] = Sumado(g, h, s)
<1> DEFINE Hasta(n, h) == \A s \in SUBSET S : Cardinality(s) <= n => h[s] = Sumado(g, h, s)
           N == {n \in Nat : ~ \E h \in [SUBSET S -> Int] : Hasta(n, h)}
<1>1. \A s \in SUBSET S : IsFiniteSet(s) /\ Cardinality(s) \in Nat
  BY FS_Subset, FS_CardinalityType
<1>2. N = {}
  <2> SUFFICES ASSUME N # {} PROVE FALSE
    OBVIOUS
  <2>1. PICK n \in N : \A k \in N : n <= k
    <3> HIDE DEF N
    <3>1. N \subseteq Nat
      BY DEF N
    <3> QED BY <3>1, MinimoNatural
  <2>2. n # 0
    <3>1. Hasta(0, [s \in SUBSET S |-> 0])
      BY <1>1, FS_EmptySet DEF Sumado
    <3>2. [s \in SUBSET S |-> 0] \in [SUBSET S -> Int]
      OBVIOUS
    <3> HIDE DEF Hasta
    <3> QED BY <3>1, <3>2
  <2>3. n \in Nat /\ n - 1 \in Nat /\ n - 1 \notin N
    <3>1. n \in Nat
      BY <2>1
    <3> HIDE DEF N
    <3> QED BY <2>1, <2>2, <3>1
  <2>4. PICK h \in [SUBSET S -> Int] : Hasta(n - 1, h)
    BY <2>3
  <2> DEFINE k == [s \in SUBSET S |-> IF Cardinality(s) = n THEN Sumado(g, h, s) ELSE h[s]]
  <2>5. ASSUME NEW s \in SUBSET S, s # {}
        PROVE  /\ (CHOOSE x \in s : TRUE) \in s
               /\ s \ {CHOOSE x \in s : TRUE} \in SUBSET S
               /\ Cardinality(s \ {CHOOSE x \in s : TRUE}) = Cardinality(s) - 1
    <3>1. (CHOOSE x \in s : TRUE) \in s
      BY <2>5
    <3> QED BY <1>1, <3>1, FS_RemoveElement
  <2>6. \A s \in SUBSET S : Sumado(g, h, s) \in Int
    <3> SUFFICES ASSUME NEW s \in SUBSET S PROVE Sumado(g, h, s) \in Int
      OBVIOUS
    <3>1. CASE s = {}
      BY <3>1 DEF Sumado
    <3>2. CASE s # {}
      <4> DEFINE x == CHOOSE x \in s : TRUE
      <4>1. x \in S /\ s \ {x} \in SUBSET S
        BY <2>5, <3>2
      <4>2. g[x] \in Int /\ h[s \ {x}] \in Int
        BY <4>1
      <4> QED BY <3>2, <4>2 DEF Sumado
    <3> QED BY <3>1, <3>2
  <2>7. k \in [SUBSET S -> Int]
    BY <2>6
  <2>8. ASSUME NEW s \in SUBSET S, Cardinality(s) <= n
        PROVE  k[s] = Sumado(g, k, s) 
    <3>1. Sumado(g, k, s) = Sumado(g, h, s)
      <4>1. CASE s = {}
        BY <4>1 DEF Sumado
      <4>2. CASE s # {}
        <5> DEFINE u == s \ {CHOOSE x \in s : TRUE}
        <5>1. u \in SUBSET S /\ Cardinality(u) # n
          BY <1>1, <2>3, <2>5, <2>8, <4>2
        <5>2. k[u] = h[u]
          BY <5>1
        <5> QED BY <4>2, <5>2 DEF Sumado
      <4> QED BY <4>1, <4>2
    <3>2. Cardinality(s) # n => h[s] = Sumado(g, h, s)
      BY <1>1, <2>3, <2>4, <2>8
    <3> QED BY <3>1, <3>2
  <2>9. Hasta(n, k)
    BY <2>8
  <2> HIDE DEF Hasta, k
  <2> QED BY <2>1, <2>7, <2>9
<1>3. Cardinality(S) \in Nat /\ \A s \in SUBSET S : Cardinality(s) <= Cardinality(S)
  BY FS_CardinalityType, FS_Subset
<1>4. PICK h \in [SUBSET S -> Int] : Hasta(Cardinality(S), h)
  BY <1>2, <1>3
<1> QED BY <1>3, <1>4

\* SumFunction follows its recursion on every part of a finite set.
LEMMA SumaRecursiva ==
  ASSUME NEW S, IsFiniteSet(S), NEW g \in [S -> Int]
  PROVE  \E h : (\A s \in SUBSET S : h[s] = Sumado(g, h, s)) /\ SumFunction(g) = h[S]
<1> DEFINE Es(h) == h = [s \in SUBSET S |->
                           IF s = {} THEN 0
                           ELSE g[CHOOSE x \in s : TRUE] + h[s \ {CHOOSE x \in s : TRUE}]]
           h0 == CHOOSE h : Es(h)
<1>1. SumFunctionOnSet(g, S) = h0[S]
  BY DEF SumFunctionOnSet, FoldFunctionOnSet, MapThenFoldSet
<1>2. SumFunction(g) = SumFunctionOnSet(g, S)
  BY DEF SumFunction
<1>3. PICK h \in [SUBSET S -> Int] : \A s \in SUBSET S : h[s] = Sumado(g, h, s)
  BY HaySumas
<1>4. Es(h)
  BY <1>3 DEF Sumado
<1>5. Es(h0)
  <2> HIDE DEF Es
  <2> QED BY <1>4
<1>6. \A s \in SUBSET S : h0[s] = Sumado(g, h0, s)
  <2> HIDE DEF h0
  <2> QED BY <1>5 DEF Sumado
<1> HIDE DEF h0
<1> QED BY <1>1, <1>2, <1>6

\* Changing one value of a function changes its sum by as much.
LEMMA SumaCambia ==
  ASSUME NEW S, IsFiniteSet(S), NEW g \in [S -> Int], NEW k \in [S -> Int],
         NEW a \in S, \A x \in S \ {a} : k[x] = g[x]
  PROVE  /\ SumFunction(g) \in Int
         /\ SumFunction(k) = SumFunction(g) + (k[a] - g[a])
<1>1. PICK h : (\A s \in SUBSET S : h[s] = Sumado(g, h, s)) /\ SumFunction(g) = h[S]
  BY SumaRecursiva
<1>2. PICK l : (\A s \in SUBSET S : l[s] = Sumado(k, l, s)) /\ SumFunction(k) = l[S]
  BY SumaRecursiva
<1> DEFINE Bien(s) == h[s] \in Int /\ l[s] = h[s] + (IF a \in s THEN k[a] - g[a] ELSE 0)
           T == {s \in SUBSET S : ~Bien(s)}
<1>3. T = {}
  <2> SUFFICES ASSUME T # {} PROVE FALSE
    OBVIOUS
  <2>1. PICK s \in T : \A u \in T : ~ (<<u, s>> \in StrictSubsetOrdering(S))
    <3>1. T \subseteq FiniteSubsetsOf(S)
      BY FS_Subset DEF FiniteSubsetsOf
    <3> HIDE DEF T
    <3> QED BY <3>1, FS_StrictSubsetOrderingWellFounded, WFMin
  <2>2. s # {}
    BY <1>1, <1>2 DEF Sumado
  <2> DEFINE x == CHOOSE x \in s : TRUE
             u == s \ {x}
  <2>3. x \in s /\ x \in S /\ u \in SUBSET S
    BY <2>2
  <2>4. h[s] = g[x] + h[u] /\ l[s] = k[x] + l[u]
    BY <1>1, <1>2, <2>2 DEF Sumado
  <2>5. Bien(u)
    <3>1. <<u, s>> \in StrictSubsetOrdering(S)
      BY <2>3 DEF StrictSubsetOrdering
    <3> HIDE DEF u, Bien
    <3> QED BY <2>1, <2>3, <3>1
  <2>6. g[x] \in Int /\ k[x] \in Int /\ g[a] \in Int /\ k[a] \in Int
    BY <2>3
  <2>7. CASE x = a
    <3>1. a \in s /\ a \notin u
      BY <2>3, <2>7
    <3> HIDE DEF x, u
    <3> QED BY <2>1, <2>4, <2>5, <2>6, <2>7, <3>1
  <2>8. CASE x # a
    <3>1. k[x] = g[x] /\ (a \in s <=> a \in u)
      BY <2>3, <2>8
    <3> HIDE DEF x, u
    <3> QED BY <2>1, <2>4, <2>5, <2>6, <3>1
  <2> QED BY <2>7, <2>8
<1>4. Bien(S)
  BY <1>3
<1> QED BY <1>1, <1>2, <1>4

\* Nothing but zeros adds up to zero.
LEMMA SumaCeros ==
  ASSUME NEW S, IsFiniteSet(S)
  PROVE  SumFunction([x \in S |-> 0]) = 0
<1>0. PICK g : g = [x \in S |-> 0]
  OBVIOUS
<1>1. PICK h : (\A s \in SUBSET S : h[s] = Sumado(g, h, s)) /\ SumFunction(g) = h[S]
  BY <1>0, SumaRecursiva
<1> DEFINE T == {s \in SUBSET S : h[s] # 0}
<1>2. T = {}
  <2> SUFFICES ASSUME T # {} PROVE FALSE
    OBVIOUS
  <2>1. PICK s \in T : \A u \in T : ~ (<<u, s>> \in StrictSubsetOrdering(S))
    <3>1. T \subseteq FiniteSubsetsOf(S)
      BY FS_Subset DEF FiniteSubsetsOf
    <3> HIDE DEF T
    <3> QED BY <3>1, FS_StrictSubsetOrderingWellFounded, WFMin
  <2>2. s # {}
    BY <1>1 DEF Sumado
  <2> DEFINE x == CHOOSE x \in s : TRUE
             u == s \ {x}
  <2>3. x \in s /\ x \in S /\ u \in SUBSET S
    BY <2>2
  <2>4. <<u, s>> \in StrictSubsetOrdering(S)
    BY <2>3 DEF StrictSubsetOrdering
  <2>5. h[u] = 0
    <3> HIDE DEF u
    <3> QED BY <2>1, <2>3, <2>4
  <2>6. h[s] = g[x] + h[u]
    BY <1>1, <2>2 DEF Sumado
  <2> QED BY <1>0, <2>1, <2>3, <2>5, <2>6
<1> QED BY <1>0, <1>1, <1>2

-----------------------------------------------------------------------------
(* The steps and the books *)

\* What each movement has put in f, as often as it was applied.
Efectos(f) == [m \in Movimientos |-> IF dato[m].bodega = f[1] THEN veces[m] * Delta(dato[m], f[2]) ELSE 0]

\* The lines of a movement are integers, in or out.
LEMMA DeltaEntero ==
  ASSUME NEW d \in Contenido, NEW p \in Productos
  PROVE  Delta(d, p) \in Int
BY DEF Delta, Contenido

\* So is what was entered of them, in a bodega.
LEMMA AsentadoEntero ==
  ASSUME Inv, NEW t \in Peticiones, NEW r \in Peticion, NEW i \in 1..Len(r.cola), NEW p \in Productos
  PROVE  Asentado(r, i, p) \in Int /\ dato[r.cola[i]].bodega \in Bodegas
<1>1. dato[r.cola[i]] \in Contenido
  BY DEF Inv, TypeOK, Peticion
<1>2. dato[r.cola[i]].lineas[p] \in Nat /\ dato[r.cola[i]].bodega \in Bodegas
  BY <1>1 DEF Contenido
<1> QED BY <1>2 DEF Asentado, Delta

\* What u has entered and what is in its queue stay so while others change neither its
\* movements nor the stock it has locked.
LEMMA OtraEnLibro ==
  ASSUME Inv, InvLibro, TypeOK', NEW u \in Peticiones, req'[u] = req[u],
         \A i \in 1..Len(req[u].cola) : LET m == req[u].cola[i]
                                        IN  /\ dato'[m] = dato[m]
                                            /\ estado[m] = "NUEVO" => estado'[m] = "NUEVO",
         \A m \in Movimientos :
           /\ estado[m] \notin {"LIBRE", "NUEVO"} => estado'[m] \notin {"LIBRE", "NUEVO"}
           /\ cMov[m] = u => cMov'[m] = u /\ (estado[m] = "CONFIRMADO" => estado'[m] = "CONFIRMADO"),
         \A f \in Filas : cFila'[f] = u <=> cFila[f] = u,
         \A f \in Filas : cFila[f] = u => stock'[f] = stock[f]
  PROVE  LibroBien(u, req[u])' /\ OrdenBien(u, req[u])'
<1>1. /\ LibroBien(u, req[u]) /\ OrdenBien(u, req[u]) /\ ColaBien(u, req[u])
      /\ req[u] \in Peticion /\ req[u].cola \in Seq(Movimientos)
  BY DEF Inv, InvLibro, TypeOK, Peticion
<1>2. \A i \in 1..Len(req[u].cola) : req[u].cola[i] \in Movimientos /\ dato'[req[u].cola[i]] = dato[req[u].cola[i]]
  BY <1>1
<1>3. Prods(req[u])' = Prods(req[u])
  <2>1. CASE req[u].cola = <<>>
    BY <2>1 DEF Prods
  <2>2. CASE req[u].cola # <<>>
    <3>1. 1 \in 1..Len(req[u].cola)
      BY <1>1, <2>2
    <3> QED BY <1>2, <2>2, <3>1 DEF Prods, ProductosDe
  <2> QED BY <2>1, <2>2
<1>4. ASSUME NEW i \in 1..Len(req[u].cola), NEW p \in Productos
      PROVE  Asentado(req[u], i, p)' = Asentado(req[u], i, p)
  <2>1. Aplicados(req[u], i)' = Aplicados(req[u], i) /\ dato'[req[u].cola[i]] = dato[req[u].cola[i]]
    BY <1>2, <1>3 DEF Aplicados
  <2> QED BY <2>1 DEF Asentado, Delta, EsEgreso
<1>5. ASSUME NEW i \in 1..Len(req[u].cola), NEW p \in Productos, NEW f \in Filas,
             f = <<dato[req[u].cola[i]].bodega, p>>
      PROVE  Vistas(u, req[u])'[f] = stock'[f] + Asentado(req[u], i, p)
  <2>1. Vistas(u, req[u])[f] = stock[f] + Asentado(req[u], i, p)
    BY <1>1, <1>5, SMTT(30) DEF LibroBien
  <2>2. CASE cFila[f] = u
    BY <2>1, <2>2 DEF Vistas
  <2>3. CASE cFila[f] # u
    <3>1. stock[f] \in Nat /\ stock'[f] = Vistas(u, req[u])'[f] /\ stock[f] = Vistas(u, req[u])[f]
      BY <2>3 DEF Vistas, Inv, TypeOK
    <3>2. Asentado(req[u], i, p) \in Int /\ stock'[f] \in Nat
      BY <1>1, AsentadoEntero DEF TypeOK
    <3> QED BY <2>1, <3>1, <3>2
  <2> QED BY <2>2, <2>3
<1>6. LibroBien(u, req[u])'
  <2>1. ASSUME NEW i \in 1..Len(req[u].cola), NEW p \in Productos
        PROVE  LET f == <<dato'[req[u].cola[i]].bodega, p>>
               IN  Vistas(u, req[u])'[f] = stock'[f] + Asentado(req[u], i, p)'
    <3>1. PICK f : f = <<dato[req[u].cola[i]].bodega, p>>
      OBVIOUS
    <3>2. f \in Filas
      BY <1>1, <3>1, AsentadoEntero DEF Filas
    <3> QED BY <1>2, <1>4, <1>5, <3>1, <3>2
  <2>2. \A f \in Filas : cFila'[f] = u => \E i \in 1..Len(req[u].cola) : f[1] = dato'[req[u].cola[i]].bodega
    BY <1>1, <1>2 DEF LibroBien
  <2>3. req[u].fase = "insertar" => ~EsEgreso(dato'[req[u].cola[req[u].pos]])
    BY <1>1, <1>2 DEF LibroBien, ColaBien, ConActual
  <2>4. req[u].fase = "insertar" => ~EsEgreso(dato[req[u].cola[req[u].pos]])'
    BY <2>3 DEF EsEgreso
  <2> QED BY <2>1, <2>2, <2>4 DEF LibroBien
<1>7. OrdenBien(u, req[u])'
  <2>1. CASE req[u].cola = <<>>
    BY <2>1 DEF OrdenBien
  <2>2. CASE req[u].cola # <<>>
    <3>1. 1 \in 1..Len(req[u].cola) /\ req[u].mov \in Movimientos
      BY <1>1, <2>2 DEF ColaBien
    <3>2. CASE req[u].modo = "confirmar" /\ req[u].cola = <<req[u].mov>>
               /\ estado[req[u].mov] \notin {"LIBRE", "NUEVO"} /\ dato[req[u].mov].revierte = Nadie
      BY <1>2, <3>1, <3>2 DEF OrdenBien
    <3>3. CASE req[u].modo = "anular" /\ Len(req[u].cola) = 1 /\ cMov[req[u].mov] = u
               /\ estado[req[u].mov] = "CONFIRMADO"
               /\ estado[req[u].cola[1]] = "NUEVO" /\ dato[req[u].cola[1]].revierte = req[u].mov
      BY <1>2, <3>1, <3>3 DEF OrdenBien
    <3>4. CASE req[u].modo = "transferir" /\ Len(req[u].cola) = 2
      <4>1. 2 \in 1..Len(req[u].cola)
        BY <3>4
      <4> QED BY <1>1, <1>2, <3>1, <3>4, <4>1, SMTT(30) DEF OrdenBien
    <3> QED BY <1>1, <2>2, <3>2, <3>3, <3>4 DEF OrdenBien
  <2> QED BY <2>1, <2>2
<1> QED BY <1>6, <1>7

\* A step that commits nothing leaves the balance of effects and reversals as it was: it
\* gives new content only to movements that were free, and none becomes a reversal.
LEMMA EfectosQuietos ==
  ASSUME Inv, InvLibro, TypeOK', UNCHANGED <<existe, stock, veces>>,
         \A m \in Movimientos :
           /\ dato'[m] = dato[m] \/ estado[m] = "LIBRE"
           /\ \/ estado'[m] = estado[m]
              \/ estado[m] \in {"LIBRE", "NUEVO"} /\ estado'[m] \in {"LIBRE", "NUEVO", "BORRADOR"}
              \/ estado[m] = "BORRADOR" /\ estado'[m] = "ANULADO"
           /\ dato'[m] # dato[m] => \E d \in Datos : dato'[m].lineas = d.lineas
           /\ estado'[m] = "BORRADOR" => dato'[m].revierte = Nadie \/ estado[m] = "BORRADOR"
  PROVE  MovimientosBien' /\ (\A f \in Filas \ existe : stock[f] = 0)' /\ EfectosCuadran'
<1>1. MovimientosBien'
  BY DEF InvLibro, MovimientosBien
<1>2. (\A f \in Filas \ existe : stock[f] = 0)'
  BY DEF InvLibro
<1>3. ASSUME NEW m \in Movimientos, NEW f \in Filas
      PROVE  veces'[m] * Delta(dato'[m], f[2]) = veces[m] * Delta(dato[m], f[2])
             /\ (dato'[m] = dato[m] \/ veces[m] * Delta(dato[m], f[2]) = 0)
  <2>1. CASE dato'[m] = dato[m]
    BY <2>1
  <2>2. CASE estado[m] = "LIBRE"
    <3>1. veces[m] = 0 /\ veces'[m] = 0
      BY <2>2 DEF InvLibro, MovimientosBien
    <3>2. dato[m] \in Contenido /\ dato'[m] \in Contenido /\ f[2] \in Productos
      BY DEF Inv, TypeOK, Filas
    <3>3. Delta(dato[m], f[2]) \in Int /\ Delta(dato'[m], f[2]) \in Int
      BY <3>2, DeltaEntero
    <3> QED BY <3>1, <3>3
  <2> QED BY <2>1, <2>2
<1>4. StockEsEfectos'
  <2> SUFFICES ASSUME NEW f \in Filas
               PROVE  stock'[f] = StockInicial[f] + SumFunction(Efectos(f)')
    BY DEF StockEsEfectos, Efectos, Delta, EsEgreso
  <2>1. Efectos(f)' = Efectos(f)
    BY <1>3 DEF Efectos
  <2> QED BY <2>1 DEF InvLibro, EfectosCuadran, StockEsEfectos, Efectos
<1>5. ASSUME NEW m \in Movimientos PROVE ReversosDe(m)' = ReversosDe(m)
  <2> SUFFICES ASSUME NEW r \in Movimientos
               PROVE  (estado'[r] \in {"CONFIRMADO", "ANULADO"} /\ dato'[r].revierte = m)
                      <=> (estado[r] \in {"CONFIRMADO", "ANULADO"} /\ dato[r].revierte = m)
    BY DEF ReversosDe
  <2>1. m # Nadie
    BY InventarioSupuestos
  <2> QED BY <2>1 DEF InvLibro, MovimientosBien
<1>6. ReversosCubiertos'
  <2> SUFFICES ASSUME NEW m \in Movimientos
               PROVE  /\ Cardinality(ReversosDe(m)') <= veces'[m]
                      /\ estado'[m] = "CONFIRMADO" => Cardinality(ReversosDe(m)') < veces'[m]
    BY DEF ReversosCubiertos
  <2>1. estado'[m] = "CONFIRMADO" => estado[m] = "CONFIRMADO"
    OBVIOUS
  <2> QED BY <1>5, <2>1 DEF InvLibro, EfectosCuadran, ReversosCubiertos
<1> QED BY <1>1, <1>2, <1>4, <1>6 DEF EfectosCuadran

\* A step of t that neither starts, enters a line, commits nor rolls back.
LEMMA PasoSinAsiento ==
  ASSUME Inv, InvLibro, TypeOK', NEW t \in Peticiones, NEW r \in Peticion,
         req' = [req EXCEPT ![t] = r],
         UNCHANGED <<estado, dato, existe, stock, cFila, veces>>,
         \A m \in Movimientos : cMov[m] # Nadie => cMov'[m] = cMov[m],
         r.cola = req[t].cola, r.mov = req[t].mov, r.modo = req[t].modo, r.filas = req[t].filas,
         \A i \in 1..Len(r.cola) : Aplicados(r, i) = Aplicados(req[t], i),
         r.fase = "insertar" => ~EsEgreso(dato[r.cola[r.pos]])
  PROVE  InvLibro'
<1>1. /\ LibroBien(t, req[t]) /\ OrdenBien(t, req[t]) /\ r.cola \in Seq(Movimientos)
      /\ req'[t] = r /\ \A u \in Peticiones \ {t} : req'[u] = req[u]
      /\ r.cola # <<>> => r.mov \in Movimientos
  BY DEF Inv, InvLibro, TypeOK, Peticion, ColaBien
<1>2. LibroBien(t, req[t])'
  <2>1. Prods(req[t])' = Prods(r)
    BY <1>1 DEF Prods, ProductosDe
  <2>2. ASSUME NEW i \in 1..Len(r.cola), NEW p \in Productos
        PROVE  Asentado(req[t], i, p)' = Asentado(req[t], i, p)
    <3>1. Aplicados(req[t], i)' = Aplicados(r, i)
      BY <1>1, <2>1 DEF Aplicados
    <3> QED BY <1>1, <3>1 DEF Asentado, Delta, EsEgreso
  <2>3. Vistas(t, req[t])' = Vistas(t, req[t])
    BY <1>1 DEF Vistas
  <2>4. r.fase = "insertar" => ~EsEgreso(dato[r.cola[r.pos]])'
    BY DEF EsEgreso
  <2> QED BY <1>1, <2>2, <2>3, <2>4, SMTT(30) DEF LibroBien
<1>3. OrdenBien(t, req[t])'
  <2>1. CASE r.cola = <<>>
    BY <1>1, <2>1 DEF OrdenBien
  <2>2. CASE r.cola # <<>>
    <3>1. cMov[r.mov] = t => cMov'[r.mov] = t
      BY <1>1, <2>2, InventarioSupuestos
    <3> QED BY <1>1, <3>1, SMTT(30) DEF OrdenBien
  <2> QED BY <2>1, <2>2
<1>4. ASSUME NEW u \in Peticiones \ {t}
      PROVE  LibroBien(u, req[u])' /\ OrdenBien(u, req[u])'
  <2>1. \A m \in Movimientos : cMov[m] = u => cMov'[m] = u
    BY InventarioSupuestos
  <2> QED BY <1>1, <2>1, OtraEnLibro
<1>5. MovimientosBien' /\ (\A f \in Filas \ existe : stock[f] = 0)' /\ EfectosCuadran'
  BY EfectosQuietos DEF InvLibro, MovimientosBien
<1> QED BY <1>1, <1>2, <1>3, <1>4, <1>5 DEF InvLibro

\* A request begins: it holds no stock row, and its queue is in order.
LEMMA PasoEmpieza ==
  ASSUME Inv, InvLibro, TypeOK', NEW t \in Peticiones, req[t].fase = "ocioso", NEW r \in Peticion,
         req' = [req EXCEPT ![t] = r], r.fase \in {"firmar", "antes"}, r.pos = 1,
         UNCHANGED <<existe, stock, cFila, veces>>,
         \A m \in Movimientos : cMov[m] # Nadie => cMov'[m] = cMov[m],
         \A m \in Movimientos :
           /\ (estado[m] # "LIBRE" => dato'[m] = dato[m] /\ estado'[m] = estado[m])
           /\ (estado'[m] # estado[m] => estado'[m] = "NUEVO")
           /\ (dato'[m] # dato[m] => \E d \in Datos : dato'[m].lineas = d.lineas),
         OrdenBien(t, req[t])'
  PROVE  InvLibro'
<1>1. /\ LibroBien(t, req[t]) /\ req[t].cola = <<>> /\ r.cola \in Seq(Movimientos)
      /\ req'[t] = r /\ \A u \in Peticiones \ {t} : req'[u] = req[u]
  BY DEF Inv, InvLibro, TypeOK, Peticion, ColaBien
<1>2. \A f \in Filas : cFila[f] # t
  BY <1>1 DEF LibroBien
<1>3. LibroBien(t, req[t])'
  <2>1. ASSUME NEW i \in 1..Len(r.cola), NEW p \in Productos
        PROVE  Vistas(t, req[t])'[<<dato'[r.cola[i]].bodega, p>>]
               = stock'[<<dato'[r.cola[i]].bodega, p>>] + Asentado(req[t], i, p)'
    <3>1. Asentado(req[t], i, p)' = 0
      BY <1>1 DEF Asentado, Aplicados
    <3>2. dato'[r.cola[i]] \in Contenido
      BY <1>1 DEF TypeOK
    <3>3. PICK f : f = <<dato'[r.cola[i]].bodega, p>>
      OBVIOUS
    <3>4. f \in Filas
      BY <3>2, <3>3 DEF Contenido, Filas
    <3>5. Vistas(t, req[t])'[f] = stock'[f] /\ stock'[f] \in Nat
      BY <1>2, <3>4 DEF Vistas, TypeOK
    <3> QED BY <3>1, <3>3, <3>5
  <2> QED BY <1>1, <1>2, <2>1 DEF LibroBien
<1>4. ASSUME NEW u \in Peticiones \ {t}
      PROVE  LibroBien(u, req[u])' /\ OrdenBien(u, req[u])'
  <2>1. \A m \in Movimientos : cMov[m] = u => cMov'[m] = u
    BY InventarioSupuestos
  <2>2. \A i \in 1..Len(req[u].cola) : req[u].cola[i] \in Movimientos /\ estado[req[u].cola[i]] # "LIBRE"
    BY EnCola
  <2> QED BY <1>1, <2>1, <2>2, OtraEnLibro
<1>5. MovimientosBien' /\ (\A f \in Filas \ existe : stock[f] = 0)' /\ EfectosCuadran'
  BY EfectosQuietos
<1> QED BY <1>1, <1>3, <1>4, <1>5 DEF InvLibro

\* Before anything is committed, the books are those of the start.
LEMMA InicioLibro == Init => InvLibro
<1> SUFFICES ASSUME Init PROVE InvLibro
  OBVIOUS
<1> USE InventarioSupuestos
<1>1. \A t \in Peticiones : LibroBien(t, req[t]) /\ OrdenBien(t, req[t])
  BY DEF Init, Reposo, LibroBien, OrdenBien
<1>2. MovimientosBien
  BY DEF Init, MovimientosBien
<1>3. \A f \in Filas \ existe : stock[f] = 0
  BY DEF Init
<1>4. StockEsEfectos
  <2> SUFFICES ASSUME NEW f \in Filas
               PROVE  stock[f] = StockInicial[f] + SumFunction(Efectos(f))
    BY DEF StockEsEfectos, Efectos
  <2>1. \A m \in Movimientos : Delta(dato[m], f[2]) \in Int
    BY InicioBien, DeltaEntero DEF Inv, TypeOK, Filas
  <2>2. Efectos(f) = [m \in Movimientos |-> 0]
    BY <2>1 DEF Efectos, Init
  <2>3. SumFunction(Efectos(f)) = 0
    BY <2>2, SumaCeros
  <2>4. stock[f] = StockInicial[f] /\ StockInicial[f] \in Nat
    BY DEF Init
  <2> QED BY <2>3, <2>4
<1>5. ReversosCubiertos
  <2> SUFFICES ASSUME NEW m \in Movimientos
               PROVE  Cardinality(ReversosDe(m)) <= veces[m] /\ estado[m] # "CONFIRMADO"
    BY DEF ReversosCubiertos
  <2>1. ReversosDe(m) = {}
    BY DEF Init, ReversosDe
  <2> QED BY <2>1, FS_EmptySet DEF Init
<1> QED BY <1>1, <1>2, <1>3, <1>4, <1>5 DEF InvLibro, EfectosCuadran

\* The same for a step that touches no shared row.
LEMMA LocalSinAsiento ==
  ASSUME Inv, InvLibro, Inv', NEW t \in Peticiones, NEW r \in Peticion, NEW v, Local(t, r, v),
         r.cola = req[t].cola, r.mov = req[t].mov, r.modo = req[t].modo, r.filas = req[t].filas,
         \A i \in 1..Len(r.cola) : Aplicados(r, i) = Aplicados(req[t], i),
         r.fase = "insertar" => ~EsEgreso(dato[r.cola[r.pos]])
  PROVE  InvLibro'
<1>1. /\ req' = [req EXCEPT ![t] = r]
      /\ UNCHANGED <<estado, dato, existe, stock, cFila, cMov, veces>>
  BY DEF Local, bd, locks
<1> QED BY <1>1, PasoSinAsiento DEF Inv

\* What is entered does not change from one phase to the next, but while lines are entered.
LEMMA MismosAplicados ==
  ASSUME NEW a, NEW b, a.cola = b.cola, a.pos = b.pos,
         \/ a.fase \in {"firmar", "antes"} /\ b.fase \in {"firmar", "antes"}
         \/ a.fase \in {"firmar", "antes"} /\ b.fase = "aplicar" /\ b.faltan = Prods(b)
         \/ a.fase = "aplicar" /\ b.fase = "insertar" /\ a.faltan = b.faltan
         \/ /\ a.fase \notin {"ocioso", "firmar", "antes", "aplicar", "insertar"}
            /\ b.fase \notin {"ocioso", "firmar", "antes", "aplicar", "insertar"}
  PROVE  \A i \in 1..Len(a.cola) : Aplicados(b, i) = Aplicados(a, i)
<1>1. Prods(a) = Prods(b)
  BY DEF Prods
<1> QED BY <1>1 DEF Aplicados

\* Reading, signing and validating enter nothing in the books.
LEMMA LibroFirmar ==
  ASSUME Inv, InvLibro, Inv', NEW t \in Peticiones, FirmarMovimiento(t)
  PROVE  InvLibro'
<1>1. req[t].fase = "firmar" /\ cMov[req[t].mov] = Nadie
  BY DEF FirmarMovimiento
<1>2. req[t] \in Peticion /\ req[t].mov \in Movimientos
  BY <1>1, Actual
<1>3. PICK r : r = [req[t] EXCEPT !.fase = "antes"]
  OBVIOUS
<1>4. /\ r \in Peticion /\ r.cola = req[t].cola /\ r.mov = req[t].mov /\ r.pos = req[t].pos
      /\ r.modo = req[t].modo /\ r.filas = req[t].filas /\ r.fase = "antes"
  BY <1>2, <1>3 DEF Peticion, Fases
<1>5. /\ req' = [req EXCEPT ![t] = r] /\ cMov' = [cMov EXCEPT ![req[t].mov] = t]
      /\ UNCHANGED <<estado, dato, existe, stock, cFila, veces>>
  BY <1>3 DEF FirmarMovimiento, bd
<1>6. \A m \in Movimientos : cMov[m] # Nadie => cMov'[m] = cMov[m]
  BY <1>1, <1>5 DEF Inv, TypeOK
<1>7. \A i \in 1..Len(r.cola) : Aplicados(r, i) = Aplicados(req[t], i)
  BY <1>1, <1>4, MismosAplicados
<1> QED BY <1>4, <1>5, <1>6, <1>7, PasoSinAsiento DEF Inv

\* The quantities read before a movement is applied are not in the books.
LEMMA LibroLeerStockAntes ==
  ASSUME Inv, InvLibro, Inv', NEW t \in Peticiones, NEW p \in Productos, LeerStockAntes(t, p)
  PROVE  InvLibro'
<1>1. req[t].fase = "antes" /\ p \in req[t].faltan
  BY DEF LeerStockAntes
<1>2. /\ req[t] \in Peticion /\ req[t].faltan \subseteq Prods(req[t])
      /\ ProductosDe(EnCurso(t)) = Prods(req[t])
      /\ Prods(req[t]) \subseteq Productos /\ EnCurso(t) \in Contenido
  BY <1>1, Actual
<1>3. FilaDe(t, p) \in Filas
  BY <1>2 DEF FilaDe, Contenido, Filas
<1>4. PICK n \in Nat : n = Ver(t, FilaDe(t, p))
  BY <1>3, VerNat
<1>5. PICK r : r = Avanzar(t, p, [req[t] EXCEPT !.antes[p] = n], "aplicar")
  OBVIOUS
<1>6. /\ r \in Peticion /\ r.cola = req[t].cola /\ r.mov = req[t].mov /\ r.pos = req[t].pos
      /\ r.modo = req[t].modo /\ r.filas = req[t].filas
      /\ r.fase = "antes" \/ (r.fase = "aplicar" /\ r.faltan = Prods(req[t]))
  BY <1>1, <1>2, <1>5 DEF Avanzar, Peticion, Fases
<1>7. \A i \in 1..Len(r.cola) : Aplicados(r, i) = Aplicados(req[t], i)
  <2>1. Prods(r) = Prods(req[t])
    BY <1>6 DEF Prods
  <2> QED BY <1>1, <1>6, <2>1, MismosAplicados
<1>8. Local(t, r, vista[t])
  BY <1>4, <1>5 DEF LeerStockAntes
<1> QED BY <1>6, <1>7, <1>8, LocalSinAsiento

\* Nor is a sum of the stock.
LEMMA LibroSumas ==
  ASSUME Inv, InvLibro, Inv', NEW t \in Peticiones, NEW p \in Productos,
         SumarStock(t, p) \/ ValidarSuma(t, p)
  PROVE  InvLibro'
<1>1. PICK fase \in {"producto", "validarProducto"} :
        /\ req[t].fase \in {"suma", "validarSuma"}
        /\ Local(t, [req[t] EXCEPT !.fase = fase, !.actual = p],
                 [vista[t] EXCEPT !.suma = SumaStock(t, p)])
  BY DEF SumarStock, ValidarSuma
<1>2. req[t] \in Peticion
  BY DEF Inv, TypeOK
<1>3. PICK r : r = [req[t] EXCEPT !.fase = fase, !.actual = p]
  OBVIOUS
<1>4. /\ r \in Peticion /\ r.cola = req[t].cola /\ r.mov = req[t].mov /\ r.pos = req[t].pos
      /\ r.modo = req[t].modo /\ r.filas = req[t].filas /\ r.fase = fase
  BY <1>2, <1>3 DEF Peticion, Fases
<1>5. \A i \in 1..Len(r.cola) : Aplicados(r, i) = Aplicados(req[t], i)
  BY <1>1, <1>4, MismosAplicados
<1> QED BY <1>1, <1>3, <1>4, <1>5, LocalSinAsiento

\* Nor is what was read of the product.
LEMMA LibroLeerProducto ==
  ASSUME Inv, InvLibro, Inv', NEW t \in Peticiones, LeerProducto(t)
  PROVE  InvLibro'
<1>1. req[t].fase = "producto" /\ req[t] \in Peticion
  BY DEF LeerProducto, Inv, TypeOK
<1>2. PICK r : r = [req[t] EXCEPT !.fase = "escribir"]
  OBVIOUS
<1>3. PICK v : v = [vista[t] EXCEPT !.leido = VerProducto(t, req[t].actual)]
  OBVIOUS
<1>4. /\ r \in Peticion /\ r.cola = req[t].cola /\ r.mov = req[t].mov /\ r.pos = req[t].pos
      /\ r.modo = req[t].modo /\ r.filas = req[t].filas /\ r.fase = "escribir"
  BY <1>1, <1>2 DEF Peticion, Fases
<1>5. \A i \in 1..Len(r.cola) : Aplicados(r, i) = Aplicados(req[t], i)
  BY <1>1, <1>4, MismosAplicados
<1>6. Local(t, r, v)
  BY <1>2, <1>3 DEF LeerProducto
<1> QED BY <1>4, <1>5, <1>6, LocalSinAsiento

\* The product's own quantity is in other books (ProductoEsSuma).
LEMMA LibroEscribirProducto ==
  ASSUME Inv, InvLibro, Inv', NEW t \in Peticiones, EscribirProducto(t)
  PROVE  InvLibro'
<1> DEFINE p == req[t].actual
<1>1. req[t].fase = "escribir"
  BY DEF EscribirProducto
<1>2. /\ req[t] \in Peticion /\ p \in req[t].faltan
      /\ ProductosDe(EnCurso(t)) = Prods(req[t]) /\ Prods(req[t]) \subseteq Productos
  BY <1>1, Actual DEF Inv, ColaBien, ConActual
<1>3. PICK r : r = Avanzar(t, p, [req[t] EXCEPT !.fase = "suma", !.actual = Nadie], "validarSuma")
  OBVIOUS
<1>4. /\ r \in Peticion /\ r.cola = req[t].cola /\ r.mov = req[t].mov /\ r.pos = req[t].pos
      /\ r.modo = req[t].modo /\ r.filas = req[t].filas /\ r.fase \in {"suma", "validarSuma"}
  BY <1>2, <1>3 DEF Avanzar, Peticion, Fases
<1>5. /\ req' = [req EXCEPT ![t] = r]
      /\ UNCHANGED <<estado, dato, existe, stock, cFila, cMov, veces>>
  BY <1>3 DEF EscribirProducto, bd
<1>6. \A i \in 1..Len(r.cola) : Aplicados(r, i) = Aplicados(req[t], i)
  BY <1>1, <1>4, MismosAplicados
<1> QED BY <1>4, <1>5, <1>6, PasoSinAsiento DEF Inv

\* The second half of a transfer starts with nothing entered.
LEMMA LibroConfirmarDestino ==
  ASSUME Inv, InvLibro, Inv', NEW t \in Peticiones, ConfirmarDestino(t)
  PROVE  InvLibro'
<1>1. req[t].fase = "cerrar" /\ req[t].pos < Len(req[t].cola)
  BY DEF ConfirmarDestino
<1>2. /\ req[t] \in Peticion /\ req[t].pos \in 1..Len(req[t].cola)
      /\ req[t].cola \in Seq(Movimientos)
  BY <1>1, Actual
<1>3. PICK F : F = ProductosDe(dato[req[t].cola[req[t].pos + 1]])
  OBVIOUS
<1>4. PICK r : r = [req[t] EXCEPT !.fase = "antes", !.pos = req[t].pos + 1, !.faltan = F]
  OBVIOUS
<1>5. /\ r \in Peticion /\ r.cola = req[t].cola /\ r.mov = req[t].mov /\ r.modo = req[t].modo
      /\ r.filas = req[t].filas /\ r.pos = req[t].pos + 1 /\ r.fase = "antes"
  <2>1. F \in SUBSET Productos /\ req[t].pos + 1 \in Nat /\ "antes" \in Fases
    BY <1>2, <1>3 DEF Fases, ProductosDe
  <2> QED BY <1>2, <1>4, <2>1 DEF Peticion
<1>6. ASSUME NEW i \in 1..Len(r.cola) PROVE Aplicados(r, i) = Aplicados(req[t], i)
  <2>1. Prods(r) = Prods(req[t]) /\ req[t].pos \in Nat
    BY <1>2, <1>5 DEF Prods
  <2> QED BY <1>1, <1>5, <2>1 DEF Aplicados
<1>7. Local(t, r, vista[t])
  BY <1>3, <1>4 DEF ConfirmarDestino
<1> QED BY <1>5, <1>6, <1>7, LocalSinAsiento

\* A rollback takes with it what the request had entered.
LEMMA LibroDeshacer ==
  ASSUME Inv, InvLibro, Inv', NEW t \in Peticiones, Deshacer(t)
  PROVE  InvLibro'
<1> USE InventarioSupuestos
<1>1. /\ req' = [req EXCEPT ![t] = Reposo]
      /\ UNCHANGED <<dato, existe, stock, cantidad, relacion, veces>>
      /\ \A f \in Filas : cFila'[f] = IF cFila[f] = t THEN Nadie ELSE cFila[f]
      /\ \A m \in Movimientos : cMov'[m] = IF cMov[m] = t THEN Nadie ELSE cMov[m]
  BY DEF Deshacer, SoltarCerrojos
<1>2. req'[t] = Reposo /\ \A u \in Peticiones \ {t} : req'[u] = req[u]
  BY <1>1 DEF Inv, TypeOK
<1>3. \A m \in Movimientos : \/ estado'[m] = estado[m]
                             \/ /\ estado'[m] = "LIBRE" /\ estado[m] = "NUEVO"
                                /\ \E i \in 1..Len(req[t].cola) : req[t].cola[i] = m
  <2>1. req[t].cola \in Seq(Movimientos)
    BY DEF Inv, TypeOK, Peticion
  <2> DEFINE Suyos == {req[t].cola[i] : i \in DOMAIN req[t].cola}
  <2>2. \A m \in Movimientos : estado'[m] = IF m \in Suyos /\ estado[m] = "NUEVO" THEN "LIBRE" ELSE estado[m]
    BY DEF Deshacer
  <2>3. \A m \in Suyos : \E i \in 1..Len(req[t].cola) : req[t].cola[i] = m
    BY <2>1
  <2> QED BY <2>2, <2>3
<1>4. LibroBien(t, req[t])' /\ OrdenBien(t, req[t])'
  BY <1>1, <1>2, SMTT(30) DEF Reposo, LibroBien, OrdenBien
<1>5. ASSUME NEW u \in Peticiones \ {t}
      PROVE  LibroBien(u, req[u])' /\ OrdenBien(u, req[u])'
  <2>1. ASSUME NEW i \in 1..Len(req[u].cola), estado[req[u].cola[i]] = "NUEVO"
        PROVE  estado'[req[u].cola[i]] = "NUEVO"
    <3>1. req[u].cola[i] \in Movimientos
      BY DEF Inv, TypeOK, Peticion
    <3>2. ASSUME NEW j \in 1..Len(req[t].cola) PROVE req[t].cola[j] # req[u].cola[i]
      BY <2>1 DEF Inv, NuevosPropios
    <3> QED BY <1>3, <2>1, <3>1, <3>2
  <2>2. \A f \in Filas : cFila'[f] = u <=> cFila[f] = u
    BY <1>1
  <2>3. \A m \in Movimientos :
          /\ estado[m] \notin {"LIBRE", "NUEVO"} => estado'[m] \notin {"LIBRE", "NUEVO"}
          /\ cMov[m] = u => cMov'[m] = u /\ (estado[m] = "CONFIRMADO" => estado'[m] = "CONFIRMADO")
    BY <1>1, <1>3
  <2> QED BY <1>1, <1>2, <2>1, <2>2, <2>3, OtraEnLibro DEF Inv
<1>6. MovimientosBien' /\ (\A f \in Filas \ existe : stock[f] = 0)' /\ EfectosCuadran'
  BY <1>1, <1>3, EfectosQuietos DEF Inv
<1> QED BY <1>4, <1>5, <1>6 DEF InvLibro

\* The checks of the lines and of the product either let the request go on or undo it.
LEMMA LibroValidarIntegridad ==
  ASSUME Inv, InvLibro, Inv', NEW t \in Peticiones, ValidarIntegridad(t)
  PROVE  InvLibro'
<1>1. req[t].fase = "integridad" /\ req[t] \in Peticion
  BY DEF ValidarIntegridad, Inv, TypeOK
<1>2. CASE Deshacer(t)
  BY <1>2, LibroDeshacer
<1>3. CASE Local(t, [req[t] EXCEPT !.fase = "suma"], vista[t])
  <2>1. PICK r : r = [req[t] EXCEPT !.fase = "suma"]
    OBVIOUS
  <2>2. /\ r \in Peticion /\ r.cola = req[t].cola /\ r.mov = req[t].mov /\ r.pos = req[t].pos
        /\ r.modo = req[t].modo /\ r.filas = req[t].filas /\ r.fase = "suma"
    BY <1>1, <2>1 DEF Peticion, Fases
  <2>3. \A i \in 1..Len(r.cola) : Aplicados(r, i) = Aplicados(req[t], i)
    BY <1>1, <2>2, MismosAplicados
  <2> QED BY <1>3, <2>1, <2>2, <2>3, LocalSinAsiento
<1> QED BY <1>2, <1>3 DEF ValidarIntegridad

\* The product agrees with the stock and the request goes on, or it is undone.
LEMMA LibroValidarProducto ==
  ASSUME Inv, InvLibro, Inv', NEW t \in Peticiones, ValidarProducto(t)
  PROVE  InvLibro'
<1>1. req[t].fase = "validarProducto"
  BY DEF ValidarProducto
<1>2. /\ req[t] \in Peticion /\ ProductosDe(EnCurso(t)) = Prods(req[t])
      /\ Prods(req[t]) \subseteq Productos
  BY <1>1, Actual
<1>3. CASE Deshacer(t)
  BY <1>3, LibroDeshacer
<1>4. CASE ProductoValidado(t)
  <2>1. PICK r : r = Avanzar(t, req[t].actual,
                             [req[t] EXCEPT !.fase = "validarSuma", !.actual = Nadie], "cerrar")
    OBVIOUS
  <2>2. PICK v : v = [vista[t] EXCEPT !.suma = 0]
    OBVIOUS
  <2>3. /\ r \in Peticion /\ r.cola = req[t].cola /\ r.mov = req[t].mov /\ r.pos = req[t].pos
        /\ r.modo = req[t].modo /\ r.filas = req[t].filas /\ r.fase \in {"validarSuma", "cerrar"}
    BY <1>2, <2>1 DEF Avanzar, Peticion, Fases
  <2>4. \A i \in 1..Len(r.cola) : Aplicados(r, i) = Aplicados(req[t], i)
    BY <1>1, <2>3, MismosAplicados
  <2>5. Local(t, r, v)
    BY <1>4, <2>1, <2>2 DEF ProductoValidado
  <2> QED BY <2>3, <2>4, <2>5, LocalSinAsiento
<1> QED BY <1>3, <1>4 DEF ValidarProducto

\* A confirmation begins: its movement is no one's reversal.
LEMMA LibroLeerMovimiento ==
  ASSUME Inv, InvLibro, Inv', NEW t \in Peticiones, NEW m \in Movimientos, LeerMovimiento(t, m)
  PROVE  InvLibro'
<1>1. req[t].fase = "ocioso" /\ estado[m] = "BORRADOR"
  BY DEF LeerMovimiento
<1>2. req[t] \in Peticion /\ req[t].pos = 1
  BY <1>1 DEF Inv, TypeOK, ColaBien
<1>3. PICK F : F = ProductosDe(dato[m])
  OBVIOUS
<1>4. PICK fase \in {"firmar", "antes"} :
        Local(t, [req[t] EXCEPT !.fase = fase, !.modo = "confirmar", !.mov = m,
                                !.cola = <<m>>, !.faltan = F], vista[t])
  BY <1>3 DEF LeerMovimiento
<1>5. PICK r : r = [req[t] EXCEPT !.fase = fase, !.modo = "confirmar", !.mov = m,
                                  !.cola = <<m>>, !.faltan = F]
  OBVIOUS
<1>6. /\ r \in Peticion /\ r.cola = <<m>> /\ r.mov = m /\ r.pos = 1 /\ r.fase = fase
      /\ r.modo = "confirmar"
  <2>1. F \subseteq Productos /\ <<m>> \in Seq(Movimientos) /\ fase \in Fases /\ "confirmar" \in Modos
    BY <1>3 DEF ProductosDe, Fases, Modos
  <2> QED BY <1>1, <1>2, <1>5, <2>1 DEF Peticion
<1>7. /\ req' = [req EXCEPT ![t] = r]
      /\ UNCHANGED <<estado, dato, existe, stock, cFila, cMov, veces>>
  BY <1>4, <1>5 DEF Local, bd, locks
<1>8. OrdenBien(t, req[t])'
  <2>1. req'[t] = r
    BY <1>7 DEF Inv, TypeOK
  <2>2. dato[m].revierte = Nadie
    BY <1>1 DEF InvLibro, MovimientosBien
  <2> QED BY <1>1, <1>6, <1>7, <2>1, <2>2 DEF OrdenBien
<1> QED BY <1>1, <1>6, <1>7, <1>8, PasoEmpieza DEF Inv

\* A cancellation begins: it holds the movement it reverses.
LEMMA LibroAnularConfirmado ==
  ASSUME Inv, InvLibro, Inv', NEW t \in Peticiones, NEW m \in Movimientos, NEW x \in Movimientos,
         AnularConfirmado(t, m, x)
  PROVE  InvLibro'
<1>1. /\ req[t].fase = "ocioso" /\ estado[m] = "CONFIRMADO" /\ estado[x] = "LIBRE"
      /\ cMov[m] = Nadie /\ cMov' = [cMov EXCEPT ![m] = t]
      /\ estado' = [estado EXCEPT ![x] = "NUEVO"]
      /\ dato' = [dato EXCEPT ![x] = Reverso(m)]
      /\ UNCHANGED <<existe, stock, cFila, veces>>
  BY DEF AnularConfirmado
<1>2. PICK F : F = ProductosDe(dato[m])
  OBVIOUS
<1>3. PICK r : r = [req[t] EXCEPT !.fase = "antes", !.modo = "anular", !.mov = m,
                                  !.cola = <<x>>, !.faltan = F]
  OBVIOUS
<1>4. req' = [req EXCEPT ![t] = r]
  BY <1>2, <1>3 DEF AnularConfirmado, Inv, TypeOK
<1>5. req[t] \in Peticion /\ req[t].pos = 1 /\ dato[m] \in Contenido
  BY <1>1 DEF Inv, TypeOK, ColaBien
<1>6. /\ r \in Peticion /\ r.fase = "antes" /\ r.cola = <<x>> /\ r.mov = m /\ r.pos = 1
      /\ r.modo = "anular"
  <2>1. F \in SUBSET Productos /\ <<x>> \in Seq(Movimientos) /\ "antes" \in Fases /\ "anular" \in Modos
    BY <1>2 DEF ProductosDe, Fases, Modos
  <2> QED BY <1>3, <1>5, <2>1 DEF Peticion
<1>7. Reverso(m).lineas = dato[m].lineas /\ Reverso(m).revierte = m
  BY <1>5 DEF Reverso, Contenido
<1>8. /\ \A n \in Movimientos : n # x => dato'[n] = dato[n] /\ estado'[n] = estado[n]
      /\ dato'[x] = Reverso(m) /\ estado'[x] = "NUEVO" /\ m # x /\ cMov'[m] = t
      /\ \A n \in Movimientos : cMov[n] # Nadie => cMov'[n] = cMov[n]
  BY <1>1 DEF Inv, TypeOK
<1>9. \E d \in Datos : dato'[x].lineas = d.lineas
  BY <1>7, <1>8 DEF InvLibro, MovimientosBien
<1>10. OrdenBien(t, req[t])'
  <2>1. req'[t] = r /\ Len(r.cola) = 1 /\ r.cola[1] = x
    BY <1>4, <1>6 DEF Inv, TypeOK
  <2>2. estado'[m] = "CONFIRMADO" /\ cMov'[m] = t
    BY <1>1, <1>8
  <2>3. estado'[x] = "NUEVO" /\ dato'[x].revierte = m
    BY <1>7, <1>8
  <2>4. r.modo = "anular" /\ r.mov = m
    BY <1>6
  <2> QED BY <2>1, <2>2, <2>3, <2>4 DEF OrdenBien
<1>11. \A n \in Movimientos :
         /\ (estado[n] # "LIBRE" => dato'[n] = dato[n] /\ estado'[n] = estado[n])
         /\ (estado'[n] # estado[n] => estado'[n] = "NUEVO")
         /\ (dato'[n] # dato[n] => \E d \in Datos : dato'[n].lineas = d.lineas)
  BY <1>1, <1>8, <1>9
<1> QED BY <1>1, <1>4, <1>6, <1>8, <1>10, <1>11, PasoEmpieza DEF Inv

\* A transfer begins: its halves move the same lines between two bodegas.
LEMMA LibroTransferir ==
  ASSUME Inv, InvLibro, Inv', NEW t \in Peticiones, NEW e \in Movimientos, NEW i \in Movimientos,
         NEW d \in Datos, NEW b \in Bodegas, Transferir(t, e, i, d, b)
  PROVE  InvLibro'
<1>1. /\ req[t].fase = "ocioso" /\ e # i /\ estado[e] = "LIBRE" /\ estado[i] = "LIBRE"
      /\ d.tipo = "TRANSFERENCIA" /\ d.bodega # b
      /\ estado' = [estado EXCEPT ![e] = "NUEVO", ![i] = "NUEVO"]
      /\ dato' = [dato EXCEPT ![e] = d, ![i] = [d EXCEPT !.tipo = "INGRESO", !.bodega = b]]
      /\ UNCHANGED <<existe, stock, cFila, cMov, veces>>
  BY DEF Transferir, locks
<1>2. PICK F : F = ProductosDe(d)
  OBVIOUS
<1>3. PICK r : r = [req[t] EXCEPT !.fase = "antes", !.modo = "transferir", !.mov = e,
                                  !.cola = <<e, i>>, !.faltan = F]
  OBVIOUS
<1>4. req' = [req EXCEPT ![t] = r]
  BY <1>2, <1>3 DEF Transferir, Inv, TypeOK
<1>5. req[t] \in Peticion /\ req[t].pos = 1 /\ d \in Contenido /\ d.revierte = Nadie
  BY <1>1, InventarioSupuestos DEF Inv, TypeOK, ColaBien
<1>6. /\ r \in Peticion /\ r.fase = "antes" /\ r.cola = <<e, i>> /\ r.mov = e /\ r.pos = 1
      /\ r.modo = "transferir"
  <2>1. /\ F \in SUBSET Productos /\ <<e, i>> \in Seq(Movimientos)
        /\ "antes" \in Fases /\ "transferir" \in Modos
    BY <1>2 DEF ProductosDe, Fases, Modos
  <2> QED BY <1>3, <1>5, <2>1 DEF Peticion
<1>7. PICK x : x = [d EXCEPT !.tipo = "INGRESO", !.bodega = b]
  OBVIOUS
<1>8. x.lineas = d.lineas /\ x.tipo = "INGRESO" /\ x.bodega = b /\ x.revierte = Nadie
  BY <1>5, <1>7 DEF Contenido
<1>9. /\ \A n \in Movimientos : n \notin {e, i} => dato'[n] = dato[n] /\ estado'[n] = estado[n]
      /\ dato'[e] = d /\ dato'[i] = x /\ estado'[e] = "NUEVO" /\ estado'[i] = "NUEVO"
  BY <1>1, <1>7 DEF Inv, TypeOK
<1>10. OrdenBien(t, req[t])'
  <2>1. req'[t] = r /\ Len(r.cola) = 2 /\ r.cola[1] = e /\ r.cola[2] = i
    BY <1>4, <1>6 DEF Inv, TypeOK
  <2>2. r.modo = "transferir" /\ e # i /\ estado'[e] = "NUEVO" /\ estado'[i] = "NUEVO"
    BY <1>1, <1>6, <1>9
  <2>3. dato'[e] \in Datos /\ dato'[e].tipo = "TRANSFERENCIA"
    BY <1>1, <1>9
  <2>4. dato'[i].tipo = "INGRESO" /\ dato'[i].bodega # dato'[e].bodega /\ dato'[i].revierte = Nadie
    BY <1>1, <1>8, <1>9
  <2> QED BY <2>1, <2>2, <2>3, <2>4 DEF OrdenBien
<1>11. \A n \in Movimientos :
         /\ (estado[n] # "LIBRE" => dato'[n] = dato[n] /\ estado'[n] = estado[n])
         /\ (estado'[n] # estado[n] => estado'[n] = "NUEVO")
         /\ (dato'[n] # dato[n] => \E c \in Datos : dato'[n].lineas = c.lineas)
  <2>1. dato'[e].lineas = d.lineas /\ dato'[i].lineas = d.lineas
    BY <1>8, <1>9
  <2>2. estado[e] = "LIBRE" /\ estado[i] = "LIBRE"
    BY <1>1
  <2> QED BY <1>9, <2>1, <2>2
<1> QED BY <1>1, <1>4, <1>6, <1>10, <1>11, PasoEmpieza DEF Inv

\* A draft is on no request's list and in no balance.
LEMMA LibroBorrador ==
  ASSUME Inv, InvLibro, Inv', NEW m \in Movimientos,
         (\E d \in Datos : CrearBorrador(m, d)) \/ (\E t \in Peticiones : AnularBorrador(t, m))
  PROVE  InvLibro'
<1>1. /\ UNCHANGED <<existe, stock, cFila, cMov, req, veces>>
      /\ \A n \in Movimientos : n # m => estado'[n] = estado[n] /\ dato'[n] = dato[n]
      /\ \/ /\ estado[m] = "LIBRE" /\ estado'[m] = "BORRADOR" /\ dato'[m].revierte = Nadie
            /\ \E d \in Datos : dato'[m].lineas = d.lineas
         \/ estado[m] = "BORRADOR" /\ estado'[m] = "ANULADO" /\ dato' = dato
  <2>1. CASE \E d \in Datos : CrearBorrador(m, d)
    BY <2>1, InventarioSupuestos DEF CrearBorrador, Inv, TypeOK, locks
  <2>2. CASE \E t \in Peticiones : AnularBorrador(t, m)
    BY <2>2 DEF AnularBorrador, Inv, TypeOK, locks
  <2> QED BY <2>1, <2>2
<1>2. ASSUME NEW u \in Peticiones
      PROVE  LibroBien(u, req[u])' /\ OrdenBien(u, req[u])'
  <2>1. \A i \in 1..Len(req[u].cola) : req[u].cola[i] \in Movimientos /\ estado[req[u].cola[i]] # "LIBRE"
    BY EnCola
  <2>2. \A i \in 1..Len(req[u].cola) : /\ dato'[req[u].cola[i]] = dato[req[u].cola[i]]
                                       /\ estado[req[u].cola[i]] = "NUEVO" => estado'[req[u].cola[i]] = "NUEVO"
    BY <1>1, <2>1
  <2>3. \A n \in Movimientos :
          /\ estado[n] \notin {"LIBRE", "NUEVO"} => estado'[n] \notin {"LIBRE", "NUEVO"}
          /\ cMov[n] = u => cMov'[n] = u /\ (estado[n] = "CONFIRMADO" => estado'[n] = "CONFIRMADO")
    BY <1>1
  <2> QED BY <1>1, <2>2, <2>3, OtraEnLibro DEF Inv
<1>3. MovimientosBien' /\ (\A f \in Filas \ existe : stock[f] = 0)' /\ EfectosCuadran'
  BY <1>1, EfectosQuietos DEF Inv
<1> QED BY <1>2, <1>3 DEF InvLibro

\* The movements of a queue are of different bodegas.
LEMMA UnaBodega ==
  ASSUME Inv, InvLibro, NEW t \in Peticiones,
         NEW i \in 1..Len(req[t].cola), NEW j \in 1..Len(req[t].cola), i # j
  PROVE  /\ req[t].cola[i] # req[t].cola[j]
         /\ dato[req[t].cola[i]].bodega # dato[req[t].cola[j]].bodega
<1>1. OrdenBien(t, req[t]) /\ req[t].cola \in Seq(Movimientos)
  BY DEF Inv, InvLibro, TypeOK, Peticion
<1>2. CASE Len(req[t].cola) \in {0, 1}
  BY <1>2
<1>3. CASE Len(req[t].cola) = 2
  <2>1. (i = 1 /\ j = 2) \/ (i = 2 /\ j = 1)
    BY <1>3
  <2>2. req[t].cola # <<>> /\ \A m : req[t].cola # <<m>>
    BY <1>3
  <2> QED BY <1>1, <1>3, <2>1, <2>2 DEF OrdenBien
<1>4. Len(req[t].cola) \in {0, 1, 2}
  <2>1. Len(<<>>) = 0 /\ \A m : Len(<<m>>) = 1
    OBVIOUS
  <2> QED BY <1>1, <2>1 DEF OrdenBien
<1> QED BY <1>2, <1>3, <1>4

\* Entering a line adds to what the request sees exactly what it adds to its books.
LEMMA LibroEscribirFila ==
  ASSUME Inv, InvLibro, Inv', NEW t \in Peticiones, NEW p \in Productos, NEW nueva \in Nat,
         req[t].fase \in {"aplicar", "insertar"}, p \in req[t].faltan,
         Libre(cFila[FilaDe(t, p)], t), EscribirFila(t, p, nueva),
         nueva = Ver(t, FilaDe(t, p)) + Delta(EnCurso(t), p)
  PROVE  InvLibro'
<1>a. PICK f : f = FilaDe(t, p)
  OBVIOUS
<1>b. PICK r : r = [req[t] EXCEPT !.fase = "aplicar", !.actual = Nadie, !.filas[f] = nueva]
  OBVIOUS
<1>c. PICK a : a = Avanzar(t, p, r, "integridad")
  OBVIOUS
<1>1. /\ cFila' = [cFila EXCEPT ![f] = t] /\ req' = [req EXCEPT ![t] = a]
      /\ UNCHANGED <<estado, dato, existe, stock, cMov, veces>>
  BY <1>a, <1>b, <1>c DEF EscribirFila, bd
<1>2. /\ req[t] \in Peticion /\ req[t].cola \in Seq(Movimientos)
      /\ req[t].pos \in 1..Len(req[t].cola) /\ req[t].cola # <<>>
      /\ req[t].faltan \subseteq Prods(req[t]) /\ ProductosDe(EnCurso(t)) = Prods(req[t])
      /\ Prods(req[t]) \subseteq Productos /\ EnCurso(t) \in Contenido
      /\ EnCurso(t) = dato[req[t].cola[req[t].pos]]
  BY Actual DEF EnCurso
<1>3. f \in Filas /\ f = <<EnCurso(t).bodega, p>> /\ f[1] = EnCurso(t).bodega /\ f[2] = p
  BY <1>2, <1>a DEF FilaDe, Contenido, Filas
<1>4. /\ r \in Peticion /\ r.cola = req[t].cola /\ r.mov = req[t].mov /\ r.pos = req[t].pos
      /\ r.modo = req[t].modo /\ r.faltan = req[t].faltan /\ r.fase = "aplicar"
      /\ r.filas = [req[t].filas EXCEPT ![f] = nueva]
  BY <1>2, <1>3, <1>b DEF Peticion, Fases
<1>5. /\ a.mov = req[t].mov /\ a.modo = req[t].modo /\ a.cola = req[t].cola /\ a.pos = req[t].pos
      /\ a.filas = r.filas
      /\ \/ a.fase = "aplicar" /\ a.faltan = req[t].faltan \ {p}
         \/ a.fase = "integridad" /\ req[t].faltan \subseteq {p}
  BY <1>2, <1>4, <1>c DEF Avanzar, Peticion
<1>6. req'[t] = a /\ \A u \in Peticiones \ {t} : req'[u] = req[u]
  BY <1>1 DEF Inv, TypeOK
<1>7. Prods(a) = Prods(req[t]) /\ Prods(req[t])' = Prods(req[t])
  BY <1>1, <1>5, <1>6 DEF Prods, ProductosDe
<1>8. /\ p \notin Aplicados(req[t], req[t].pos)
      /\ \A i \in 1..Len(req[t].cola) :
           Aplicados(req[t], i)' = IF i = req[t].pos THEN Aplicados(req[t], i) \cup {p}
                                   ELSE Aplicados(req[t], i)
  <2>1. ASSUME NEW i \in 1..Len(req[t].cola)
        PROVE  Aplicados(a, i) = IF i = req[t].pos THEN Aplicados(req[t], i) \cup {p}
                                 ELSE Aplicados(req[t], i)
    <3>1. CASE i = req[t].pos
      <4>1. Aplicados(req[t], i) = Prods(req[t]) \ req[t].faltan
        <5>1. i = req[t].pos /\ i \in Int /\ req[t].fase \in {"aplicar", "insertar"}
          BY <1>2, <3>1, SMTT(30)
        <5> QED BY ONLY <5>1 DEF Aplicados
      <4>2. Aplicados(a, i) = IF a.fase = "aplicar" THEN Prods(req[t]) \ a.faltan ELSE Prods(req[t])
        <5>1. i = a.pos /\ i \in Int /\ Prods(a) = Prods(req[t])
          BY <1>2, <1>5, <1>7, <3>1, SMTT(30)
        <5>2. a.fase \in {"aplicar", "integridad"}
          BY <1>5
        <5> QED BY ONLY <5>1, <5>2 DEF Aplicados
      <4> QED BY <1>2, <1>5, <3>1, <4>1, <4>2
    <3>2. CASE i # req[t].pos
      BY <1>5, <1>7, <3>2 DEF Aplicados
    <3> QED BY <3>1, <3>2
  <2>2. \A i \in 1..Len(req[t].cola) : Aplicados(req[t], i)' = Aplicados(a, i)
    BY <1>6, <1>7 DEF Aplicados
  <2> QED BY <1>2, <2>1, <2>2, ZenonT(40) DEF Aplicados
<1>9. \A g \in Filas : Vistas(t, req[t])'[g] = IF g = f THEN nueva ELSE Vistas(t, req[t])[g]
  <2>1. \A g \in Filas : a.filas[g] = IF g = f THEN nueva ELSE req[t].filas[g]
    <3>1. req[t].filas \in [Filas -> Nat]
      BY <1>2 DEF Peticion
    <3>2. a.filas = [req[t].filas EXCEPT ![f] = nueva]
      BY <1>4, <1>5
    <3> QED BY <3>1, <3>2
  <2>2. \A g \in Filas : cFila'[g] = IF g = f THEN t ELSE cFila[g]
    BY <1>1 DEF Inv, TypeOK
  <2> QED BY <1>1, <1>6, <2>1, <2>2 DEF Vistas
<1>x. \A i \in 1..Len(req[t].cola), q \in Productos :
        Asentado(req[t], i, q)' = IF i = req[t].pos /\ q = p THEN Delta(EnCurso(t), p)
                                  ELSE Asentado(req[t], i, q)
  <2> SUFFICES ASSUME NEW i \in 1..Len(req[t].cola), NEW q \in Productos
               PROVE  Asentado(req[t], i, q)' = IF i = req[t].pos /\ q = p THEN Delta(EnCurso(t), p)
                                                ELSE Asentado(req[t], i, q)
    OBVIOUS
  <2>1. Asentado(req[t], i, q)' = IF q \in Aplicados(req[t], i)' THEN Delta(dato[req[t].cola[i]], q) ELSE 0
    BY <1>1, <1>5, <1>6, SMTT(30) DEF Asentado, Delta, EsEgreso
  <2>2. Asentado(req[t], i, q) = IF q \in Aplicados(req[t], i) THEN Delta(dato[req[t].cola[i]], q) ELSE 0
    BY DEF Asentado
  <2> QED BY <1>2, <1>8, <2>1, <2>2
<1>10. ASSUME NEW i \in 1..Len(req[t].cola), NEW q \in Productos, NEW g,
              g = <<dato[req[t].cola[i]].bodega, q>>
       PROVE  Vistas(t, req[t])'[g] = stock[g] + Asentado(req[t], i, q)'
  <2>1. g \in Filas /\ g[1] = dato[req[t].cola[i]].bodega /\ g[2] = q
    BY <1>2, <1>10, AsentadoEntero DEF Filas
  <2>2. Vistas(t, req[t])[g] = stock[g] + Asentado(req[t], i, q)
    BY <1>10 DEF InvLibro, LibroBien
  <2>3. CASE i = req[t].pos /\ q = p
    <3>1. g = f
      BY <1>2, <1>3, <1>10, <2>3
    <3>2. Asentado(req[t], i, q) = 0 /\ Asentado(req[t], i, q)' = Delta(EnCurso(t), p)
      BY <1>8, <1>x, <2>3 DEF Asentado
    <3>3. Ver(t, f) = Vistas(t, req[t])[f] /\ stock[f] \in Nat
      BY <1>3 DEF Ver, Vistas, Inv, TypeOK
    <3> QED BY <1>9, <1>a, <2>1, <2>2, <3>1, <3>2, <3>3
  <2>4. CASE ~ (i = req[t].pos /\ q = p)
    <3>1. g # f
      <4>1. CASE q # p
        BY <1>3, <2>1, <4>1
      <4>2. CASE i # req[t].pos
        BY <1>2, <1>3, <2>1, <4>2, UnaBodega
      <4> QED BY <2>4, <4>1, <4>2
    <3>2. Asentado(req[t], i, q)' = Asentado(req[t], i, q)
      BY <1>x, <2>4
    <3> QED BY <1>9, <2>1, <2>2, <3>1, <3>2
  <2> QED BY <2>3, <2>4
<1>11. LibroBien(t, req[t])'
  <2>1. \A i \in 1..Len(a.cola) : \A q \in Productos :
          LET g == <<dato'[a.cola[i]].bodega, q>>
          IN  Vistas(t, req[t])'[g] = stock'[g] + Asentado(req[t], i, q)'
    BY <1>1, <1>5, <1>10
  <2>2. \A g \in Filas : cFila'[g] = t => \E i \in 1..Len(a.cola) : g[1] = dato'[a.cola[i]].bodega
    <3>1. \A g \in Filas : cFila'[g] = t => g = f \/ cFila[g] = t
      BY <1>1 DEF Inv, TypeOK
    <3>2. f[1] = dato[req[t].cola[req[t].pos]].bodega
      BY <1>2, <1>3
    <3>3. \A g \in Filas : cFila[g] = t => \E i \in 1..Len(req[t].cola) : g[1] = dato[req[t].cola[i]].bodega
      BY DEF InvLibro, LibroBien
    <3> QED BY <1>1, <1>2, <1>5, <3>1, <3>2, <3>3
  <2> QED BY <1>5, <1>6, <2>1, <2>2 DEF LibroBien
<1>12. OrdenBien(t, req[t])'
  BY <1>1, <1>5, <1>6, SMTT(30) DEF InvLibro, OrdenBien
<1>13. ASSUME NEW u \in Peticiones \ {t}
       PROVE  LibroBien(u, req[u])' /\ OrdenBien(u, req[u])'
  <2>1. \A g \in Filas : cFila'[g] = u <=> cFila[g] = u
    BY <1>1, <1>3, <1>a, InventarioSupuestos DEF Inv, TypeOK, Libre
  <2> QED BY <1>1, <1>6, <2>1, OtraEnLibro DEF Inv
<1>14. MovimientosBien' /\ (\A g \in Filas \ existe : stock[g] = 0)' /\ EfectosCuadran'
  BY <1>1, EfectosQuietos DEF Inv, InvLibro, MovimientosBien
<1> QED BY <1>11, <1>12, <1>13, <1>14 DEF InvLibro

\* A line of the movement is applied to the stock, or waits, or all goes back.
LEMMA LibroAplicar ==
  ASSUME Inv, InvLibro, Inv', NEW t \in Peticiones, NEW p \in Productos,
         AplicarEgreso(t, p) \/ AplicarIngreso(t, p)
  PROVE  InvLibro'
<1>1. req[t].fase = "aplicar" /\ p \in req[t].faltan
  BY DEF AplicarEgreso, AplicarIngreso
<1>2. EnCurso(t) \in Contenido /\ req[t] \in Peticion
  BY <1>1, Actual
<1>3. EnCurso(t).lineas[p] \in Nat /\ FilaDe(t, p) \in Filas
  BY <1>2 DEF FilaDe, Contenido, Filas
<1>4. Ver(t, FilaDe(t, p)) \in Nat
  BY <1>3, VerNat
<1>5. CASE AplicarEgreso(t, p)
  <2>1. CASE Deshacer(t)
    BY <2>1, LibroDeshacer
  <2>2. CASE /\ Libre(cFila[FilaDe(t, p)], t)
             /\ Ver(t, FilaDe(t, p)) - EnCurso(t).lineas[p] >= 0
             /\ EscribirFila(t, p, Ver(t, FilaDe(t, p)) - EnCurso(t).lineas[p])
    <3>1. EsEgreso(EnCurso(t))
      BY <1>5 DEF AplicarEgreso
    <3>2. PICK n \in Nat : n = Ver(t, FilaDe(t, p)) - EnCurso(t).lineas[p]
      BY <1>3, <1>4, <2>2
    <3>3. n = Ver(t, FilaDe(t, p)) + Delta(EnCurso(t), p)
      BY <1>3, <1>4, <3>1, <3>2 DEF Delta
    <3> QED BY <1>1, <2>2, <3>2, <3>3, LibroEscribirFila
  <2> QED BY <1>5, <2>1, <2>2 DEF AplicarEgreso
<1>6. CASE AplicarIngreso(t, p)
  <2>0. ~EsEgreso(EnCurso(t))
    BY <1>6 DEF AplicarIngreso
  <2>1. CASE /\ Libre(cFila[FilaDe(t, p)], t)
             /\ EscribirFila(t, p, Ver(t, FilaDe(t, p)) + EnCurso(t).lineas[p])
    <3>1. PICK n \in Nat : n = Ver(t, FilaDe(t, p)) + EnCurso(t).lineas[p]
      BY <1>3, <1>4
    <3>2. n = Ver(t, FilaDe(t, p)) + Delta(EnCurso(t), p)
      BY <2>0, <3>1 DEF Delta
    <3> QED BY <1>1, <2>1, <3>1, <3>2, LibroEscribirFila
  <2>2. CASE Local(t, [req[t] EXCEPT !.fase = "insertar", !.actual = p], vista[t])
    <3>1. PICK r : r = [req[t] EXCEPT !.fase = "insertar", !.actual = p]
      OBVIOUS
    <3>2. /\ r \in Peticion /\ r.cola = req[t].cola /\ r.mov = req[t].mov /\ r.pos = req[t].pos
          /\ r.modo = req[t].modo /\ r.filas = req[t].filas /\ r.fase = "insertar"
          /\ r.faltan = req[t].faltan
      BY <1>2, <3>1 DEF Peticion, Fases
    <3>3. \A i \in 1..Len(r.cola) : Aplicados(r, i) = Aplicados(req[t], i)
      BY <1>1, <3>2, MismosAplicados
    <3>4. ~EsEgreso(dato[r.cola[r.pos]])
      BY <2>0, <3>2 DEF EnCurso
    <3> QED BY <2>2, <3>1, <3>2, <3>3, <3>4, LocalSinAsiento
  <2> QED BY <1>6, <2>1, <2>2 DEF AplicarIngreso
<1> QED BY <1>5, <1>6

\* A row that did not exist held nothing.
LEMMA LibroInsertarFila ==
  ASSUME Inv, InvLibro, Inv', NEW t \in Peticiones, InsertarFila(t)
  PROVE  InvLibro'
<1> DEFINE p == req[t].actual
<1>1. req[t].fase = "insertar" /\ cFila[FilaDe(t, p)] = Nadie
  BY DEF InsertarFila
<1>2. p \in req[t].faltan /\ p \in Productos /\ EnCurso(t) \in Contenido
  BY <1>1, Actual DEF Inv, ColaBien, ConActual
<1>3. /\ EnCurso(t).lineas[p] \in Nat /\ Libre(cFila[FilaDe(t, p)], t)
      /\ FilaDe(t, p) \in Filas
  BY <1>1, <1>2 DEF Contenido, Libre, FilaDe, Filas
<1>4. CASE Deshacer(t)
  BY <1>4, LibroDeshacer
<1>5. CASE FilaDe(t, p) \notin existe /\ EscribirFila(t, p, EnCurso(t).lineas[p])
  <2>1. stock[FilaDe(t, p)] = 0 /\ Ver(t, FilaDe(t, p)) = stock[FilaDe(t, p)]
    BY <1>1, <1>3, <1>5, InventarioSupuestos DEF InvLibro, Ver
  <2>2. Delta(EnCurso(t), p) = EnCurso(t).lineas[p]
    BY <1>1 DEF InvLibro, LibroBien, EnCurso, Delta
  <2>3. EnCurso(t).lineas[p] = Ver(t, FilaDe(t, p)) + Delta(EnCurso(t), p)
    BY <1>3, <2>1, <2>2
  <2> QED BY <1>1, <1>2, <1>3, <1>5, <2>3, LibroEscribirFila
<1> QED BY <1>4, <1>5 DEF InsertarFila

\* A request that commits has entered every line of its queue: the commit adds to each
\* balance the whole effect of the movement of its bodega, and touches no other.
LEMMA EfectoDelCierre ==
  ASSUME Inv, InvLibro, NEW t \in Peticiones, Comprometer(t), NEW f \in Filas
  PROVE  /\ \A i \in 1..Len(req[t].cola) : f[1] = dato[req[t].cola[i]].bodega =>
              stock'[f] = stock[f] + Delta(dato[req[t].cola[i]], f[2])
         /\ (\A i \in 1..Len(req[t].cola) : f[1] # dato[req[t].cola[i]].bodega) =>
              stock'[f] = stock[f] /\ cFila[f] # t
<1>1. /\ req[t].fase = "cerrar" /\ req[t].pos = Len(req[t].cola)
      /\ stock'[f] = Vistas(t, req[t])[f]
  BY DEF Comprometer, PuedeCerrar, VerFilas, Ver, Vistas
<1>2. /\ req[t].cola \in Seq(Movimientos) /\ f = <<f[1], f[2]>> /\ f[2] \in Productos
      /\ req[t].cola # <<>>
  BY <1>1, Actual DEF Filas
<1>3. ASSUME NEW i \in 1..Len(req[t].cola), f[1] = dato[req[t].cola[i]].bodega
      PROVE  stock'[f] = stock[f] + Delta(dato[req[t].cola[i]], f[2])
  <2>1. Vistas(t, req[t])[f] = stock[f] + Asentado(req[t], i, f[2])
    <3>1. f = <<dato[req[t].cola[i]].bodega, f[2]>>
      BY <1>2, <1>3
    <3> QED BY <1>2, <3>1 DEF InvLibro, LibroBien
  <2>2. Aplicados(req[t], i) = Prods(req[t])
    BY <1>1 DEF Aplicados
  <2>3. dato[req[t].cola[i]].lineas = dato[req[t].cola[1]].lineas /\ dato[req[t].cola[i]] \in Contenido
    BY <1>2 DEF Inv, ColaBien, TypeOK
  <2>4. CASE f[2] \in Prods(req[t])
    BY <1>1, <2>1, <2>2, <2>4 DEF Asentado
  <2>5. CASE f[2] \notin Prods(req[t])
    <3>1. dato[req[t].cola[i]].lineas[f[2]] = 0
      <4>1. dato[req[t].cola[i]].lineas[f[2]] \in Nat
        BY <1>2, <2>3 DEF Contenido
      <4>2. ~ (dato[req[t].cola[i]].lineas[f[2]] > 0)
        BY <1>2, <2>3, <2>5 DEF Prods, ProductosDe
      <4> QED BY <4>1, <4>2
    <3>2. Delta(dato[req[t].cola[i]], f[2]) = 0 /\ Asentado(req[t], i, f[2]) = 0
      BY <2>2, <2>5, <3>1 DEF Delta, Asentado
    <3> QED BY <1>1, <2>1, <3>2
  <2> QED BY <2>4, <2>5
<1>4. ASSUME \A i \in 1..Len(req[t].cola) : f[1] # dato[req[t].cola[i]].bodega
      PROVE  stock'[f] = stock[f] /\ cFila[f] # t
  <2>1. cFila[f] # t
    BY <1>4 DEF InvLibro, LibroBien
  <2> QED BY <1>1, <2>1 DEF Vistas
<1> QED BY <1>3, <1>4

\* What a commit does to the movements.
LEMMA MovimientosDelCierre ==
  ASSUME Inv, InvLibro, NEW t \in Peticiones, Comprometer(t)
  PROVE  /\ dato' = dato
         /\ \A m \in Confirmados(t) :
              m \in Movimientos /\ estado'[m] = "CONFIRMADO" /\ veces'[m] = veces[m] + 1
         /\ \A m \in Movimientos \ Confirmados(t) :
              /\ veces'[m] = veces[m]
              /\ estado'[m] = IF req[t].modo = "anular" /\ m = req[t].mov THEN "ANULADO" ELSE estado[m]
         /\ Confirmados(t) = {req[t].cola[i] : i \in 1..Len(req[t].cola)}
         /\ req[t].cola # <<>> /\ req[t].cola \in Seq(Movimientos)
<1>1. req[t].fase = "cerrar"
  BY DEF Comprometer, PuedeCerrar
<1>2. req[t].cola # <<>> /\ req[t].cola \in Seq(Movimientos)
  BY <1>1, Actual
<1>3. Confirmados(t) = {req[t].cola[i] : i \in 1..Len(req[t].cola)}
  BY <1>2 DEF Confirmados
<1>4. \A m \in Confirmados(t) : m \in Movimientos
  BY <1>2, <1>3
<1>5. /\ dato' = dato
      /\ estado' = [m \in Movimientos |->
                      IF m \in Confirmados(t) THEN "CONFIRMADO"
                      ELSE IF req[t].modo = "anular" /\ m = req[t].mov THEN "ANULADO"
                      ELSE estado[m]]
      /\ veces' = [m \in Movimientos |-> IF m \in Confirmados(t) THEN veces[m] + 1 ELSE veces[m]]
  BY DEF Comprometer
<1> QED BY <1>2, <1>3, <1>4, <1>5

\* One more application of a movement is one more of its effect.
LEMMA UnaVezMas ==
  ASSUME NEW n \in Nat, NEW d \in Int
  PROVE  (n + 1) * d - n * d = d
OBVIOUS

\* After the commit every balance is still what was applied to it.
LEMMA CierreEnEfectos ==
  ASSUME Inv, InvLibro, Inv', NEW t \in Peticiones, Comprometer(t)
  PROVE  StockEsEfectos'
<1> SUFFICES ASSUME NEW f \in Filas
             PROVE  stock'[f] = StockInicial[f] + SumFunction(Efectos(f)')
  BY DEF StockEsEfectos, Efectos, Delta, EsEgreso
<1> USE InventarioSupuestos
<1>0. dato' = dato /\ Confirmados(t) = {req[t].cola[i] : i \in 1..Len(req[t].cola)}
  BY MovimientosDelCierre
<1>1. PICK g : g = Efectos(f)
  OBVIOUS
<1>2. PICK k : k = Efectos(f)'
  OBVIOUS
<1>3. ASSUME NEW m \in Movimientos
      PROVE  /\ veces[m] \in Nat /\ veces'[m] \in Nat /\ Delta(dato[m], f[2]) \in Int
             /\ g[m] = IF dato[m].bodega = f[1] THEN veces[m] * Delta(dato[m], f[2]) ELSE 0
             /\ k[m] = IF dato[m].bodega = f[1] THEN veces'[m] * Delta(dato[m], f[2]) ELSE 0
  <2>1. veces[m] \in Nat /\ veces'[m] \in Nat /\ dato[m] \in Contenido /\ f[2] \in Productos
    BY DEF Inv, TypeOK, Filas
  <2>2. k[m] = IF dato[m].bodega = f[1] THEN veces'[m] * Delta(dato[m], f[2]) ELSE 0
    BY <1>0, <1>2 DEF Efectos, Delta, EsEgreso
  <2> QED BY <1>1, <2>1, <2>2, DeltaEntero DEF Efectos
<1>4. g \in [Movimientos -> Int] /\ k \in [Movimientos -> Int]
  <2>1. g = [m \in Movimientos |-> g[m]] /\ k = [m \in Movimientos |-> k[m]]
    BY <1>1, <1>2 DEF Efectos
  <2>2. \A m \in Movimientos : g[m] \in Int /\ k[m] \in Int
    BY <1>3
  <2> QED BY <2>1, <2>2
<1>5. stock[f] = StockInicial[f] + SumFunction(g) /\ StockInicial[f] \in Nat
  BY <1>1 DEF InvLibro, EfectosCuadran, StockEsEfectos, Efectos
<1>6. CASE \A i \in 1..Len(req[t].cola) : f[1] # dato[req[t].cola[i]].bodega
  <2>1. stock'[f] = stock[f]
    BY <1>6, EfectoDelCierre
  <2>2. ASSUME NEW m \in Movimientos PROVE k[m] = g[m]
    <3>1. CASE m \in Confirmados(t)
      BY <1>0, <1>3, <1>6, <3>1
    <3>2. CASE m \notin Confirmados(t)
      BY <1>3, <3>2, MovimientosDelCierre
    <3> QED BY <3>1, <3>2
  <2>3. k = g
    BY <1>4, <2>2
  <2> QED BY <1>2, <1>5, <2>1, <2>3
<1>7. ASSUME NEW i \in 1..Len(req[t].cola), f[1] = dato[req[t].cola[i]].bodega
      PROVE  stock'[f] = StockInicial[f] + SumFunction(k)
  <2>1. PICK a : a = req[t].cola[i]
    OBVIOUS
  <2>2. a \in Confirmados(t) /\ a \in Movimientos /\ veces'[a] = veces[a] + 1
    BY <1>0, <2>1, MovimientosDelCierre
  <2>3. ASSUME NEW m \in Movimientos \ {a} PROVE k[m] = g[m]
    <3>1. CASE m \in Confirmados(t)
      <4>1. PICK j \in 1..Len(req[t].cola) : m = req[t].cola[j]
        BY <1>0, <3>1
      <4>2. dato[m].bodega # f[1]
        BY <1>7, <2>1, <2>3, <4>1, UnaBodega
      <4> QED BY <1>3, <4>2
    <3>2. CASE m \notin Confirmados(t)
      BY <1>3, <3>2, MovimientosDelCierre
    <3> QED BY <3>1, <3>2
  <2>4. k[a] - g[a] = Delta(dato[a], f[2])
    <3>1. k[a] = (veces[a] + 1) * Delta(dato[a], f[2]) /\ g[a] = veces[a] * Delta(dato[a], f[2])
      BY <1>3, <1>7, <2>1, <2>2
    <3>2. PICK n \in Nat : n = veces[a]
      BY <1>3, <2>2
    <3>3. PICK d \in Int : d = Delta(dato[a], f[2])
      BY <1>3, <2>2
    <3>4. (n + 1) * d - n * d = d
      BY UnaVezMas
    <3> QED BY <3>1, <3>2, <3>3, <3>4
  <2>5. SumFunction(g) \in Int /\ SumFunction(k) = SumFunction(g) + (k[a] - g[a])
    <3>1. IsFiniteSet(Movimientos) /\ a \in Movimientos
      BY <2>2
    <3>2. \A x \in Movimientos \ {a} : k[x] = g[x]
      BY <2>3
    <3> QED BY ONLY <1>4, <3>1, <3>2, SumaCambia
  <2>6. stock'[f] = stock[f] + Delta(dato[a], f[2])
    BY <1>7, <2>1, EfectoDelCierre
  <2> QED BY <1>3, <1>5, <2>2, <2>4, <2>5, <2>6
<1> QED BY <1>2, <1>6, <1>7

\* After the commit no movement is reversed more often than it was applied.
LEMMA CierreEnReversos ==
  ASSUME Inv, InvLibro, Inv', NEW t \in Peticiones, Comprometer(t)
  PROVE  ReversosCubiertos'
<1> USE InventarioSupuestos
<1>0. /\ dato' = dato
      /\ \A m \in Confirmados(t) :
           m \in Movimientos /\ estado'[m] = "CONFIRMADO" /\ veces'[m] = veces[m] + 1
      /\ \A m \in Movimientos \ Confirmados(t) :
           /\ veces'[m] = veces[m]
           /\ estado'[m] = IF req[t].modo = "anular" /\ m = req[t].mov THEN "ANULADO" ELSE estado[m]
      /\ Confirmados(t) = {req[t].cola[i] : i \in 1..Len(req[t].cola)}
      /\ req[t].cola # <<>>
  BY MovimientosDelCierre
<1> SUFFICES ASSUME NEW m \in Movimientos
             PROVE  /\ Cardinality(ReversosDe(m)') <= veces'[m]
                    /\ estado'[m] = "CONFIRMADO" => Cardinality(ReversosDe(m)') < veces'[m]
  BY DEF ReversosCubiertos
<1>1. /\ Cardinality(ReversosDe(m)) <= veces[m]
      /\ estado[m] = "CONFIRMADO" => Cardinality(ReversosDe(m)) < veces[m]
      /\ veces[m] \in Nat /\ m # Nadie
  BY DEF InvLibro, EfectosCuadran, ReversosCubiertos, Inv, TypeOK
<1>2. IsFiniteSet(ReversosDe(m)) /\ Cardinality(ReversosDe(m)) \in Nat
  BY FS_Subset, FS_CardinalityType DEF ReversosDe
<1>3. OrdenBien(t, req[t])
  BY DEF InvLibro
<1>4. CASE req[t].modo = "anular" /\ Len(req[t].cola) = 1
  <2>1. /\ estado[req[t].mov] = "CONFIRMADO" /\ estado[req[t].cola[1]] = "NUEVO"
        /\ dato[req[t].cola[1]].revierte = req[t].mov
    BY <1>0, <1>3, <1>4 DEF OrdenBien
  <2>2. Confirmados(t) = {req[t].cola[1]}
    BY <1>0, <1>4
  <2>3. PICK x \in Movimientos : x = req[t].cola[1]
    BY <1>0, <2>2
  <2>4. CASE m = req[t].mov
    <3>1. m \notin Confirmados(t) /\ estado'[m] = "ANULADO" /\ veces'[m] = veces[m]
      BY <1>0, <1>4, <2>1, <2>2, <2>4
    <3>2. ReversosDe(m)' = ReversosDe(m) \cup {x} /\ x \notin ReversosDe(m)
      BY <1>0, <1>4, <2>1, <2>2, <2>3, <2>4 DEF ReversosDe
    <3>3. Cardinality(ReversosDe(m)') = Cardinality(ReversosDe(m)) + 1
      BY <1>2, <3>2, FS_AddElement
    <3> QED BY <1>1, <1>2, <2>1, <2>4, <3>1, <3>3
  <2>5. CASE m # req[t].mov
    <3>1. ReversosDe(m)' = ReversosDe(m)
      BY <1>0, <1>4, <2>1, <2>2, <2>5 DEF ReversosDe
    <3> QED BY <1>0, <1>1, <1>2, <2>5, <3>1
  <2> QED BY <2>4, <2>5
<1>5. CASE req[t].modo \in {"confirmar", "transferir"}
  <2>1. \A i \in 1..Len(req[t].cola) : dato[req[t].cola[i]].revierte = Nadie
    <3>1. CASE req[t].modo = "confirmar"
      <4>1. req[t].cola = <<req[t].mov>> /\ dato[req[t].mov].revierte = Nadie
        BY <1>0, <1>3, <3>1 DEF OrdenBien
      <4> QED BY <4>1
    <3>2. CASE req[t].modo = "transferir"
      <4>1. /\ Len(req[t].cola) = 2 /\ dato[req[t].cola[1]].revierte = Nadie
            /\ dato[req[t].cola[2]].revierte = Nadie
        BY <1>0, <1>3, <3>2 DEF OrdenBien
      <4>2. \A i \in 1..2 : i = 1 \/ i = 2
        OBVIOUS
      <4> QED BY <4>1, <4>2
    <3> QED BY <1>5, <3>1, <3>2
  <2>2. \A x \in Confirmados(t) : dato[x].revierte = Nadie
    BY <1>0, <2>1
  <2>3. ReversosDe(m)' = ReversosDe(m)
    BY <1>0, <1>1, <1>5, <2>2 DEF ReversosDe
  <2> QED BY <1>0, <1>1, <1>2, <1>5, <2>3
<1> QED BY <1>0, <1>3, <1>4, <1>5 DEF OrdenBien

\* A commit enters in the books what the request had entered for itself.
LEMMA LibroComprometer ==
  ASSUME Inv, InvLibro, Inv', NEW t \in Peticiones, Comprometer(t)
  PROVE  InvLibro'
<1> USE InventarioSupuestos
<1>0. /\ dato' = dato
      /\ \A m \in Confirmados(t) :
           m \in Movimientos /\ estado'[m] = "CONFIRMADO" /\ veces'[m] = veces[m] + 1
      /\ \A m \in Movimientos \ Confirmados(t) :
           /\ veces'[m] = veces[m]
           /\ estado'[m] = IF req[t].modo = "anular" /\ m = req[t].mov THEN "ANULADO" ELSE estado[m]
      /\ Confirmados(t) = {req[t].cola[i] : i \in 1..Len(req[t].cola)}
      /\ req[t].cola # <<>>
  BY MovimientosDelCierre
<1>1. /\ req' = [req EXCEPT ![t] = Reposo]
      /\ existe' = existe \cup {f \in Filas : cFila[f] = t}
      /\ \A f \in Filas : cFila'[f] = IF cFila[f] = t THEN Nadie ELSE cFila[f]
      /\ \A m \in Movimientos : cMov'[m] = IF cMov[m] = t THEN Nadie ELSE cMov[m]
      /\ \A f \in Filas : stock'[f] = Ver(t, f)
  BY DEF Comprometer, SoltarCerrojos, VerFilas
<1>2. req'[t] = Reposo /\ \A u \in Peticiones \ {t} : req'[u] = req[u]
  BY <1>1 DEF Inv, TypeOK
<1>3. LibroBien(t, req[t])' /\ OrdenBien(t, req[t])'
  BY <1>1, <1>2 DEF Reposo, LibroBien, OrdenBien
<1>4. req[t].modo = "anular" => cMov[req[t].mov] = t /\ estado[req[t].mov] = "CONFIRMADO"
  BY <1>0 DEF InvLibro, OrdenBien
<1>5. ASSUME NEW u \in Peticiones \ {t}
      PROVE  LibroBien(u, req[u])' /\ OrdenBien(u, req[u])'
  <2>1. ASSUME NEW i \in 1..Len(req[u].cola), estado[req[u].cola[i]] = "NUEVO"
        PROVE  estado'[req[u].cola[i]] = "NUEVO"
    <3>1. req[u].cola[i] \in Movimientos
      BY DEF Inv, TypeOK, Peticion
    <3>2. req[u].cola[i] \notin Confirmados(t)
      <4>1. ASSUME NEW j \in 1..Len(req[t].cola) PROVE req[t].cola[j] # req[u].cola[i]
        BY <2>1 DEF Inv, NuevosPropios
      <4> QED BY <1>0, <4>1
    <3> QED BY <1>0, <1>4, <2>1, <3>1, <3>2
  <2>2. \A f \in Filas : cFila'[f] = u <=> cFila[f] = u
    BY <1>1
  <2>3. \A m \in Movimientos :
          /\ estado[m] \notin {"LIBRE", "NUEVO"} => estado'[m] \notin {"LIBRE", "NUEVO"}
          /\ cMov[m] = u => cMov'[m] = u /\ (estado[m] = "CONFIRMADO" => estado'[m] = "CONFIRMADO")
    BY <1>0, <1>1, <1>4
  <2>4. \A f \in Filas : cFila[f] = u => stock'[f] = stock[f]
    BY <1>1 DEF Ver
  <2> QED BY <1>0, <1>2, <2>1, <2>2, <2>3, <2>4, OtraEnLibro DEF Inv
<1>6. MovimientosBien'
  BY <1>0 DEF InvLibro, MovimientosBien
<1>7. (\A f \in Filas \ existe : stock[f] = 0)'
  BY <1>1 DEF InvLibro, Ver
<1> QED BY <1>3, <1>5, <1>6, <1>7, CierreEnEfectos, CierreEnReversos DEF InvLibro, EfectosCuadran

-----------------------------------------------------------------------------
(* The books, as theorems *)

\* Every action of the service keeps the books.
LEMMA PasoLibro == Inv /\ InvLibro /\ [Next]_vars => Inv' /\ InvLibro'
<1> SUFFICES ASSUME Inv, InvLibro, [Next]_vars PROVE Inv' /\ InvLibro'
  OBVIOUS
<1>0. Inv'
  BY PasoBien
<1>1. CASE UNCHANGED vars
  <2>1. ASSUME NEW u \in Peticiones
        PROVE  LibroBien(u, req[u])' /\ OrdenBien(u, req[u])'
    BY <1>0, <1>1, OtraEnLibro DEF vars, Inv
  <2>2. MovimientosBien' /\ (\A f \in Filas \ existe : stock[f] = 0)' /\ EfectosCuadran'
    BY <1>0, <1>1, EfectosQuietos DEF vars, Inv
  <2> QED BY <1>0, <2>1, <2>2 DEF InvLibro
<1>2. ASSUME NEW m \in Movimientos, NEW d \in Datos, CrearBorrador(m, d)
      PROVE  InvLibro'
  BY <1>0, <1>2, LibroBorrador
<1>3. ASSUME NEW t \in Peticiones, NEW m \in Movimientos,
             \/ LeerMovimiento(t, m)
             \/ AnularBorrador(t, m)
             \/ \E r \in Movimientos : AnularConfirmado(t, m, r)
             \/ \E i \in Movimientos, d \in Datos, b \in Bodegas : Transferir(t, m, i, d, b)
      PROVE  InvLibro'
  BY <1>0, <1>3, LibroLeerMovimiento, LibroBorrador, LibroAnularConfirmado, LibroTransferir
<1>4. ASSUME NEW t \in Peticiones, Confirmar(t)
      PROVE  InvLibro'
  <2>1. CASE FirmarMovimiento(t)
    BY <1>0, <2>1, LibroFirmar
  <2>2. ASSUME NEW p \in Productos, \/ LeerStockAntes(t, p) \/ AplicarEgreso(t, p)
                                    \/ AplicarIngreso(t, p) \/ SumarStock(t, p) \/ ValidarSuma(t, p)
        PROVE  InvLibro'
    BY <1>0, <2>2, LibroLeerStockAntes, LibroAplicar, LibroSumas
  <2>3. CASE InsertarFila(t) \/ ValidarIntegridad(t) \/ LeerProducto(t) \/ EscribirProducto(t)
    BY <1>0, <2>3, LibroInsertarFila, LibroValidarIntegridad, LibroLeerProducto, LibroEscribirProducto
  <2>4. CASE ValidarProducto(t) \/ ConfirmarDestino(t) \/ Comprometer(t)
    BY <1>0, <2>4, LibroValidarProducto, LibroConfirmarDestino, LibroComprometer
  <2>5. CASE Interbloqueo(t)
    BY <1>0, <2>5, LibroDeshacer DEF Interbloqueo
  <2> QED BY <1>4, <2>1, <2>2, <2>3, <2>4, <2>5 DEF Confirmar
<1> QED BY <1>0, <1>1, <1>2, <1>3, <1>4 DEF Next

\* In every reachable state each request sees the committed stock plus the lines it has
\* entered itself, and holds in its queue what its service put there.
THEOREM InvarianteDelLibro == Spec => [](Inv /\ InvLibro)
<1>1. Init => Inv /\ InvLibro
  BY InicioBien, InicioLibro
<1>2. (Inv /\ InvLibro) /\ [Next]_vars => (Inv /\ InvLibro)'
  BY PasoLibro
<1> QED BY <1>1, <1>2, PTL DEF Spec

\* The committed stock is at every moment the initial stock plus the effects of the
\* movements, each as often as it was applied, and no movement is compensated beyond its
\* applications, for any number of concurrent requests, bodegas, products and movements.
THEOREM EfectosSiempreCuadran == Spec => []EfectosCuadran
<1>1. Inv /\ InvLibro => EfectosCuadran
  BY DEF InvLibro
<1> QED BY <1>1, InvarianteDelLibro, PTL

\* A step that is not a commit leaves the committed stock alone.
LEMMA SoloCierreMueve ==
  ASSUME [Next]_vars, \A t \in Peticiones : ~Comprometer(t)
  PROVE  stock' = stock
<1>1. CASE UNCHANGED vars
  BY <1>1 DEF vars
<1>2. ASSUME NEW m \in Movimientos, NEW d \in Datos, CrearBorrador(m, d)
      PROVE  stock' = stock
  BY <1>2 DEF CrearBorrador
<1>3. ASSUME NEW t \in Peticiones, NEW m \in Movimientos,
             \/ LeerMovimiento(t, m)
             \/ AnularBorrador(t, m)
             \/ \E r \in Movimientos : AnularConfirmado(t, m, r)
             \/ \E i \in Movimientos, d \in Datos, b \in Bodegas : Transferir(t, m, i, d, b)
      PROVE  stock' = stock
  BY <1>3 DEF LeerMovimiento, Local, bd, AnularBorrador, AnularConfirmado, Transferir
<1>4. ASSUME NEW t \in Peticiones, Confirmar(t)
      PROVE  stock' = stock
  <2>1. CASE FirmarMovimiento(t)
    BY <2>1 DEF FirmarMovimiento, bd
  <2>2. ASSUME NEW p \in Productos, \/ LeerStockAntes(t, p) \/ AplicarEgreso(t, p)
                                    \/ AplicarIngreso(t, p) \/ SumarStock(t, p) \/ ValidarSuma(t, p)
        PROVE  stock' = stock
    BY <2>2 DEF LeerStockAntes, AplicarEgreso, AplicarIngreso, SumarStock, ValidarSuma,
                EscribirFila, Deshacer, Local, bd
  <2>3. CASE InsertarFila(t) \/ ValidarIntegridad(t) \/ LeerProducto(t) \/ EscribirProducto(t)
    BY <2>3 DEF InsertarFila, ValidarIntegridad, LeerProducto, EscribirProducto,
                EscribirFila, Deshacer, Local, bd
  <2>4. CASE ValidarProducto(t) \/ ConfirmarDestino(t)
    BY <2>4 DEF ValidarProducto, ProductoValidado, ConfirmarDestino, Deshacer, Local, bd
  <2>5. CASE Interbloqueo(t)
    BY <2>5 DEF Interbloqueo, Deshacer
  <2> QED BY <1>4, <2>1, <2>2, <2>3, <2>4, <2>5 DEF Confirmar
<1> QED BY <1>1, <1>2, <1>3, <1>4 DEF Next

\* A commit enters one movement, or both halves of one transfer, in the ledger.
LEMMA CierreEsAsiento ==
  ASSUME Inv, InvLibro, Inv', NEW t \in Peticiones, Comprometer(t)
  PROVE  Libro!Next
<1> USE DEF Libro!Celdas, Filas
<1>0. req[t].cola # <<>> /\ req[t].cola \in Seq(Movimientos)
  BY MovimientosDelCierre
<1>1. /\ stock \in [Filas -> Nat] /\ stock' \in [Filas -> Nat]
      /\ \A i \in 1..Len(req[t].cola) :
           /\ req[t].cola[i] \in Movimientos /\ dato[req[t].cola[i]] \in Contenido
           /\ \E d \in Datos : dato[req[t].cola[i]].lineas = d.lineas
  BY <1>0 DEF Inv, TypeOK, InvLibro, MovimientosBien
<1>2. \A d \in Datos : d \in Contenido /\ \A p \in Productos : d.lineas[p] \in Nat
  BY InventarioSupuestos DEF Contenido
<1>3. CASE Len(req[t].cola) = 1
  <2>1. PICK m \in Movimientos : m = req[t].cola[1]
    BY <1>1, <1>3
  <2>2. PICK d \in Datos : dato[m].lineas = d.lineas
    BY <1>1, <1>3, <2>1
  <2>3. PICK b \in Bodegas : b = dato[m].bodega
    BY <1>1, <1>3, <2>1 DEF Contenido
  <2>4. \A f \in Filas : stock'[f] = IF f[1] = b THEN stock[f] + Delta(dato[m], f[2]) ELSE stock[f]
    BY <1>3, <2>1, <2>3, EfectoDelCierre
  <2>5. ASSUME NEW e, \A f \in Filas : stock'[f] = stock[f] + e[f]
        PROVE  Libro!Asentar(e)
    <3>1. \A f \in Filas : stock[f] + e[f] >= 0
      BY <1>1, <2>5
    <3>2. stock' = [f \in Filas |-> stock[f] + e[f]]
      BY <1>1, <2>5
    <3> QED BY <3>1, <3>2 DEF Libro!Asentar
  <2>6. CASE EsEgreso(dato[m])
    <3>1. \A f \in Filas : stock'[f] = stock[f] + Libro!Salida(d, b)[f]
      BY <1>1, <1>2, <2>2, <2>4, <2>6 DEF Delta, Libro!Salida
    <3>2. Libro!Asentar(Libro!Salida(d, b))
      BY <2>5, <3>1
    <3> QED BY <3>2 DEF Libro!Next, Libro!Movimiento
  <2>7. CASE ~EsEgreso(dato[m])
    <3>1. \A f \in Filas : stock'[f] = stock[f] + Libro!Entrada(d, b)[f]
      BY <1>1, <1>2, <2>2, <2>4, <2>7 DEF Delta, Libro!Entrada
    <3>2. Libro!Asentar(Libro!Entrada(d, b))
      BY <2>5, <3>1
    <3> QED BY <3>2 DEF Libro!Next, Libro!Movimiento
  <2> QED BY <2>6, <2>7
<1>4. CASE Len(req[t].cola) = 2
  <2>1. PICK m \in Movimientos : m = req[t].cola[1]
    BY <1>1, <1>4
  <2>2. PICK n \in Movimientos : n = req[t].cola[2]
    BY <1>1, <1>4
  <2>3. /\ dato[m] \in Datos /\ dato[m].tipo = "TRANSFERENCIA"
        /\ dato[n].tipo = "INGRESO" /\ dato[n].bodega # dato[m].bodega
    BY <1>0, <1>4, <2>1, <2>2 DEF InvLibro, OrdenBien
  <2>4. dato[n].lineas = dato[m].lineas
    BY <1>4, <2>1, <2>2 DEF Inv, ColaBien
  <2>5. PICK d \in Datos : d = dato[m]
    BY <2>3
  <2>6. PICK b \in Bodegas : b = dato[n].bodega
    BY <1>1, <1>4, <2>2 DEF Contenido
  <2>7. \A i \in 1..Len(req[t].cola) : i = 1 \/ i = 2
    BY <1>4
  <2>8. ASSUME NEW f \in Filas
        PROVE  stock'[f] = IF f[1] = d.bodega THEN stock[f] + Delta(dato[m], f[2])
                           ELSE IF f[1] = b THEN stock[f] + Delta(dato[n], f[2])
                           ELSE stock[f]
    BY <1>4, <2>1, <2>2, <2>5, <2>6, <2>7, EfectoDelCierre
  <2>9. PICK e : e = [f \in Filas |-> Libro!Entrada(d, b)[f] + Libro!Salida(d, d.bodega)[f]]
    OBVIOUS
  <2>10. ASSUME NEW f \in Filas PROVE stock'[f] = stock[f] + e[f]
    <3>1. /\ Delta(dato[m], f[2]) = 0 - d.lineas[f[2]] /\ Delta(dato[n], f[2]) = d.lineas[f[2]]
          /\ b # d.bodega
      BY <2>3, <2>4, <2>5, <2>6 DEF Delta, EsEgreso
    <3>2. e[f] = (IF f[1] = b THEN d.lineas[f[2]] ELSE 0)
                 + (IF f[1] = d.bodega THEN 0 - d.lineas[f[2]] ELSE 0)
      BY <2>9 DEF Libro!Entrada, Libro!Salida
    <3>3. d.lineas[f[2]] \in Nat /\ stock[f] \in Nat
      BY <1>1, <1>2
    <3> QED BY <2>8, <3>1, <3>2, <3>3
  <2>11. Libro!Asentar(e)
    <3>1. \A f \in Filas : stock[f] + e[f] >= 0
      BY <1>1, <2>10
    <3>2. stock' = [f \in Filas |-> stock[f] + e[f]]
      BY <1>1, <2>10
    <3> QED BY <3>1, <3>2 DEF Libro!Asentar
  <2>12. b # d.bodega
    BY <2>3, <2>5, <2>6
  <2> QED BY <2>9, <2>11, <2>12 DEF Libro!Next, Libro!Traslado
<1>5. Len(req[t].cola) \in {1, 2}
  <2>1. \A m : Len(<<m>>) = 1
    OBVIOUS
  <2> QED BY <1>0, <2>1 DEF InvLibro, OrdenBien
<1> QED BY <1>3, <1>4, <1>5

\* Requests, locks and transactions implement the plain ledger: whatever the interleaving,
\* the committed stock moves by whole movements and whole transfers, and never below zero.
THEOREM ImplementaLibro == Spec => LibroSpec
<1>1. Init => Libro!Init
  BY DEF Init, Libro!Init
<1>2. Inv /\ InvLibro /\ Inv' /\ [Next]_vars => [Libro!Next]_stock
  BY SoloCierreMueve, CierreEsAsiento
<1> QED BY <1>1, <1>2, InvarianteDelLibro, PTL DEF Spec, LibroSpec, Libro!Spec

-----------------------------------------------------------------------------
(* Sums in parts *)

\* The sum of g over the elements of A.
Parcial(g, A) == SumFunction([x \in A |-> g[x]])

\* h tells the sum of g over each part of S.
SumaCadaParte(h, g, S) ==
  /\ h[{}] = 0
  /\ \A s \in SUBSET S : /\ h[s] \in Int
                         /\ \A x \in s : h[s] = g[x] + h[s \ {x}]

\* The order of the terms does not matter: any of them may be the first.
LEMMA SumaLibre ==
  ASSUME NEW S, IsFiniteSet(S), NEW g \in [S -> Int]
  PROVE  \E h : SumFunction(g) = h[S] /\ SumaCadaParte(h, g, S)
<1>1. PICK h : (\A s \in SUBSET S : h[s] = Sumado(g, h, s)) /\ SumFunction(g) = h[S]
  BY SumaRecursiva
<1>2. h[{}] = 0
  BY <1>1 DEF Sumado
<1> DEFINE Bien(s) == h[s] \in Int /\ \A x \in s : h[s] = g[x] + h[s \ {x}]
           T == {s \in SUBSET S : ~Bien(s)}
<1>3. T = {}
  <2> SUFFICES ASSUME T # {} PROVE FALSE
    OBVIOUS
  <2>1. PICK s \in T : \A u \in T : ~ (<<u, s>> \in StrictSubsetOrdering(S))
    <3>1. T \subseteq FiniteSubsetsOf(S)
      BY FS_Subset DEF FiniteSubsetsOf
    <3> HIDE DEF T
    <3> QED BY <3>1, FS_StrictSubsetOrderingWellFounded, WFMin
  <2>2. s \in SUBSET S /\ ~Bien(s)
    OBVIOUS
  <2>3. \A x \in s : Bien(s \ {x})
    <3> SUFFICES ASSUME NEW x \in s PROVE Bien(s \ {x})
      OBVIOUS
    <3>1. s \ {x} \in SUBSET S /\ <<s \ {x}, s>> \in StrictSubsetOrdering(S)
      BY <2>2 DEF StrictSubsetOrdering
    <3> HIDE DEF Bien
    <3> QED BY <2>1, <3>1
  <2>4. s # {}
    <3>1. Bien({})
      BY <1>2
    <3> HIDE DEF Bien
    <3> QED BY <2>2, <3>1
  <2> DEFINE c == CHOOSE x \in s : TRUE
  <2>5. c \in s /\ h[s] = g[c] + h[s \ {c}]
    BY <1>1, <2>2, <2>4 DEF Sumado
  <2> HIDE DEF c
  <2>6. h[s] \in Int
    BY <2>2, <2>3, <2>5
  <2>7. PICK x \in s : h[s] # g[x] + h[s \ {x}]
    BY <2>2, <2>6
  <2>8. x # c
    BY <2>5, <2>7
  <2>9. h[s \ {c}] = g[x] + h[(s \ {c}) \ {x}] /\ h[s \ {x}] = g[c] + h[(s \ {x}) \ {c}]
    BY <2>3, <2>5, <2>8
  <2>10. (s \ {c}) \ {x} = (s \ {x}) \ {c}
    OBVIOUS
  <2>11. g[c] \in Int /\ g[x] \in Int /\ h[(s \ {x}) \ {c}] \in Int
    <3>1. (s \ {x}) \ {c} \in SUBSET S /\ <<(s \ {x}) \ {c}, s>> \in StrictSubsetOrdering(S)
      BY <2>2, <2>5 DEF StrictSubsetOrdering
    <3>2. Bien((s \ {x}) \ {c})
      <4> HIDE DEF Bien
      <4> QED BY <2>1, <3>1
    <3> QED BY <2>2, <2>5, <3>2
  <2>12. h[s] = g[c] + (g[x] + h[(s \ {x}) \ {c}]) /\ h[s \ {x}] = g[c] + h[(s \ {x}) \ {c}]
    BY <2>5, <2>9, <2>10
  <2> QED BY <2>7, <2>11, <2>12
<1> QED BY <1>1, <1>2, <1>3 DEF SumaCadaParte

\* H begins at zero and grows by a term with some element of each part.
Acumula(H, g, S) ==
  /\ H[{}] = 0
  /\ \A s \in SUBSET S : s # {} => \E x \in s : H[s] = g[x] + H[s \ {x}]

\* Whatever begins at zero and grows by a term with some element of each part is the sum.
LEMMA SumaUnica ==
  ASSUME NEW S, IsFiniteSet(S), NEW g \in [S -> Int], NEW H, Acumula(H, g, S)
  PROVE  SumFunction(g) = H[S]
<1>0. PICK h : SumFunction(g) = h[S] /\ SumaCadaParte(h, g, S)
  BY SumaLibre
<1>1. /\ SumFunction(g) = h[S] /\ h[{}] = 0
      /\ \A s \in SUBSET S : /\ h[s] \in Int
                             /\ \A x \in s : h[s] = g[x] + h[s \ {x}]
  BY <1>0 DEF SumaCadaParte
<1> DEFINE T == {s \in SUBSET S : H[s] # h[s]}
<1>2. T = {}
  <2> SUFFICES ASSUME T # {} PROVE FALSE
    OBVIOUS
  <2>1. PICK s \in T : \A u \in T : ~ (<<u, s>> \in StrictSubsetOrdering(S))
    <3>1. T \subseteq FiniteSubsetsOf(S)
      BY FS_Subset DEF FiniteSubsetsOf
    <3> HIDE DEF T
    <3> QED BY <3>1, FS_StrictSubsetOrderingWellFounded, WFMin
  <2>2. s \in SUBSET S /\ s # {}
    BY <1>1 DEF Acumula
  <2>3. PICK x \in s : H[s] = g[x] + H[s \ {x}]
    BY <2>2 DEF Acumula
  <2>4. s \ {x} \in SUBSET S /\ <<s \ {x}, s>> \in StrictSubsetOrdering(S)
    BY <2>2 DEF StrictSubsetOrdering
  <2>5. H[s \ {x}] = h[s \ {x}]
    BY <2>1, <2>4
  <2> QED BY <1>1, <2>2, <2>3, <2>5
<1> QED BY <1>1, <1>2

\* Sums of parts: integers, zero for no part, and any element may be set apart.
LEMMA SumaDePartes ==
  ASSUME NEW S, IsFiniteSet(S), NEW g \in [S -> Int]
  PROVE  /\ SumFunction(g) = Parcial(g, S)
         /\ Parcial(g, {}) = 0
         /\ \A A \in SUBSET S : /\ Parcial(g, A) \in Int
                                /\ \A x \in A : Parcial(g, A) = g[x] + Parcial(g, A \ {x})
<1>0. PICK h : SumFunction(g) = h[S] /\ SumaCadaParte(h, g, S)
  BY SumaLibre
<1>1. /\ SumFunction(g) = h[S] /\ h[{}] = 0
      /\ \A s \in SUBSET S : /\ h[s] \in Int
                             /\ \A x \in s : h[s] = g[x] + h[s \ {x}]
  BY <1>0 DEF SumaCadaParte
<1>2. \A A \in SUBSET S : Parcial(g, A) = h[A]
  <2> SUFFICES ASSUME NEW A \in SUBSET S PROVE Parcial(g, A) = h[A]
    OBVIOUS
  <2>1. PICK k : k = [x \in A |-> g[x]]
    OBVIOUS
  <2>2. k \in [A -> Int] /\ IsFiniteSet(A)
    BY <2>1, FS_Subset
  <2>3. ASSUME NEW s \in SUBSET A, s # {} PROVE \E x \in s : h[s] = k[x] + h[s \ {x}]
    BY <1>1, <2>1, <2>3
  <2>4. Acumula(h, k, A)
    BY <1>1, <2>3 DEF Acumula
  <2>5. SumFunction(k) = h[A]
    BY <2>2, <2>4, SumaUnica
  <2> QED BY <2>1, <2>5 DEF Parcial
<1>3. \A A \in SUBSET S : \A x \in A : A \ {x} \in SUBSET S
  OBVIOUS
<1>4. {} \in SUBSET S /\ S \in SUBSET S
  OBVIOUS
<1> QED BY <1>1, <1>2, <1>3, <1>4

\* Two parts with nothing in common add up.
LEMMA SumaUnion ==
  ASSUME NEW S, IsFiniteSet(S), NEW g \in [S -> Int],
         NEW A \in SUBSET S, NEW B \in SUBSET S, A \cap B = {}
  PROVE  Parcial(g, A \cup B) = Parcial(g, A) + Parcial(g, B)
<1> DEFINE U == A \cup B
           H == [s \in SUBSET U |-> Parcial(g, s \cap A) + Parcial(g, s \cap B)]
<1>1. PICK k : k = [x \in U |-> g[x]]
  OBVIOUS
<1>2. k \in [U -> Int] /\ IsFiniteSet(U)
  BY <1>1, FS_Subset
<1>3. /\ Parcial(g, {}) = 0
      /\ \A s \in SUBSET S : /\ Parcial(g, s) \in Int
                             /\ \A x \in s : Parcial(g, s) = g[x] + Parcial(g, s \ {x})
  BY SumaDePartes
<1>4. H[{}] = 0
  BY <1>3
<1>5. ASSUME NEW s \in SUBSET U, s # {}
      PROVE  \E x \in s : H[s] = k[x] + H[s \ {x}]
  <2>1. PICK x \in s : TRUE
    BY <1>5
  <2>2. x \in U /\ k[x] = g[x] /\ g[x] \in Int
    BY <1>1
  <2>3. /\ H[s] = Parcial(g, s \cap A) + Parcial(g, s \cap B)
        /\ H[s \ {x}] = Parcial(g, (s \ {x}) \cap A) + Parcial(g, (s \ {x}) \cap B)
    OBVIOUS
  <2>4. {Parcial(g, (s \ {x}) \cap A), Parcial(g, (s \ {x}) \cap B)} \subseteq Int
    BY <1>3
  <2>5. CASE x \in A
    <3>1. /\ (s \ {x}) \cap A = (s \cap A) \ {x} /\ (s \ {x}) \cap B = s \cap B
          /\ s \cap A \in SUBSET S /\ x \in s \cap A
      BY <2>5
    <3>2. Parcial(g, s \cap A) = g[x] + Parcial(g, (s \ {x}) \cap A)
      BY <1>3, <3>1
    <3> DEFINE a == Parcial(g, (s \ {x}) \cap A)
               b == Parcial(g, (s \ {x}) \cap B)
    <3>3. H[s] = g[x] + a + b /\ H[s \ {x}] = a + b /\ a \in Int /\ b \in Int
      BY <2>3, <2>4, <3>1, <3>2
    <3> HIDE DEF H, a, b
    <3>4. H[s] = k[x] + H[s \ {x}]
      BY <2>2, <3>3
    <3> QED BY <3>4
  <2>6. CASE x \in B
    <3>1. /\ (s \ {x}) \cap B = (s \cap B) \ {x} /\ (s \ {x}) \cap A = s \cap A
          /\ s \cap B \in SUBSET S /\ x \in s \cap B
      BY <2>6
    <3>2. Parcial(g, s \cap B) = g[x] + Parcial(g, (s \ {x}) \cap B)
      BY <1>3, <3>1
    <3> DEFINE a == Parcial(g, (s \ {x}) \cap A)
               b == Parcial(g, (s \ {x}) \cap B)
    <3>3. H[s] = a + (g[x] + b) /\ H[s \ {x}] = a + b /\ a \in Int /\ b \in Int
      BY <2>3, <2>4, <3>1, <3>2
    <3> HIDE DEF H, a, b
    <3>4. H[s] = k[x] + H[s \ {x}]
      BY <2>2, <3>3
    <3> QED BY <3>4
  <2> QED BY <2>2, <2>5, <2>6
<1>6. SumFunction(k) = H[U]
  <2>1. Acumula(H, k, U)
    <3> HIDE DEF H, U
    <3> QED BY <1>4, <1>5 DEF Acumula
  <2> HIDE DEF H, U
  <2> QED BY <1>2, <2>1, SumaUnica
<1>7. U \cap A = A /\ U \cap B = B
  OBVIOUS
<1> QED BY <1>1, <1>6, <1>7 DEF Parcial

\* A sum is that of its parts, one for each key.
LEMMA SumaPorClave ==
  ASSUME NEW S, IsFiniteSet(S), NEW g \in [S -> Int], NEW A \in SUBSET S,
         NEW K, IsFiniteSet(K), NEW c, \A x \in A : c[x] \in K
  PROVE  Parcial(g, A) = SumFunction([k \in K |-> Parcial(g, {x \in A : c[x] = k})])
<1>1. PICK f : f = [k \in K |-> Parcial(g, {x \in A : c[x] = k})]
  OBVIOUS
<1> DEFINE H == [s \in SUBSET K |-> Parcial(g, {x \in A : c[x] \in s})]
<1>2. /\ Parcial(g, {}) = 0
      /\ \A s \in SUBSET S : Parcial(g, s) \in Int
  BY SumaDePartes
<1>3. f \in [K -> Int]
  BY <1>1, <1>2
<1>4. H[{}] = 0
  <2>1. {x \in A : c[x] \in {}} = {}
    OBVIOUS
  <2> QED BY <1>2, <2>1
<1>5. ASSUME NEW s \in SUBSET K, s # {}
      PROVE  \E k \in s : H[s] = f[k] + H[s \ {k}]
  <2>1. PICK k \in s : TRUE
    BY <1>5
  <2> DEFINE P == {x \in A : c[x] = k}
             Q == {x \in A : c[x] \in s \ {k}}
  <2>2. P \in SUBSET S /\ Q \in SUBSET S /\ P \cap Q = {} /\ P \cup Q = {x \in A : c[x] \in s}
    OBVIOUS
  <2>3. H[s] = Parcial(g, P \cup Q) /\ H[s \ {k}] = Parcial(g, Q) /\ f[k] = Parcial(g, P)
    BY <1>1, <2>2
  <2> HIDE DEF H, P, Q
  <2>4. H[s] = f[k] + H[s \ {k}]
    BY <2>2, <2>3, SumaUnion
  <2> QED BY <2>4
<1>6. SumFunction(f) = H[K]
  <2>1. Acumula(H, f, K)
    <3> HIDE DEF H
    <3> QED BY <1>4, <1>5 DEF Acumula
  <2> HIDE DEF H
  <2> QED BY <1>3, <2>1, SumaUnica
<1>7. {x \in A : c[x] \in K} = A
  OBVIOUS
<1> QED BY <1>1, <1>6, <1>7

\* The same terms under other names add up to the same.
LEMMA SumaRenombrada ==
  ASSUME NEW S, IsFiniteSet(S), NEW g \in [S -> Int], NEW T, NEW f \in [T -> Int],
         NEW b, \A x \in S : b[x] \in T /\ f[b[x]] = g[x],
         \A x, y \in S : b[x] = b[y] => x = y, \A t \in T : \E x \in S : b[x] = t
  PROVE  SumFunction(f) = SumFunction(g)
<1> DEFINE H == [s \in SUBSET T |-> Parcial(g, {x \in S : b[x] \in s})]
           d == [x \in S |-> b[x]]
<1>1. IsFiniteSet(T)
  <2>1. d \in Surjection(S, T)
    BY DEF Surjection
  <2> QED BY <2>1, FS_Surjection
<1>2. /\ SumFunction(g) = Parcial(g, S) /\ Parcial(g, {}) = 0
      /\ \A s \in SUBSET S : \A x \in s : Parcial(g, s) = g[x] + Parcial(g, s \ {x})
  BY SumaDePartes
<1>3. H[{}] = 0
  <2>1. {x \in S : b[x] \in {}} = {}
    OBVIOUS
  <2> QED BY <1>2, <2>1
<1>4. ASSUME NEW s \in SUBSET T, s # {}
      PROVE  \E t \in s : H[s] = f[t] + H[s \ {t}]
  <2>1. PICK t \in s : TRUE
    BY <1>4
  <2>2. PICK x \in S : b[x] = t
    OBVIOUS
  <2> DEFINE P == {y \in S : b[y] \in s}
             Q == {y \in S : b[y] \in s \ {t}}
  <2>3. P \in SUBSET S /\ x \in P /\ Q = P \ {x} /\ f[t] = g[x]
    BY <2>2
  <2>4. H[s] = Parcial(g, P) /\ H[s \ {t}] = Parcial(g, Q)
    OBVIOUS
  <2> HIDE DEF H, P, Q
  <2>5. H[s] = f[t] + H[s \ {t}]
    BY <1>2, <2>3, <2>4
  <2> QED BY <2>5
<1>5. SumFunction(f) = H[T]
  <2>1. Acumula(H, f, T)
    <3> HIDE DEF H
    <3> QED BY <1>3, <1>4 DEF Acumula
  <2> HIDE DEF H
  <2> QED BY <1>1, <2>1, SumaUnica
<1>6. {x \in S : b[x] \in T} = S
  OBVIOUS
<1> QED BY <1>2, <1>5, <1>6

\* Term by term.
LEMMA SumaDeSumas ==
  ASSUME NEW S, IsFiniteSet(S), NEW g \in [S -> Int], NEW f \in [S -> Int], NEW A \in SUBSET S
  PROVE  SumFunction([x \in A |-> f[x] + g[x]]) = Parcial(f, A) + Parcial(g, A)
<1>1. PICK k : k = [x \in A |-> f[x] + g[x]]
  OBVIOUS
<1>2. k \in [A -> Int] /\ IsFiniteSet(A)
  BY <1>1, FS_Subset
<1> DEFINE H == [s \in SUBSET A |-> Parcial(f, s) + Parcial(g, s)]
<1>3. /\ Parcial(f, {}) = 0 /\ Parcial(g, {}) = 0
      /\ \A s \in SUBSET S : /\ Parcial(f, s) \in Int /\ Parcial(g, s) \in Int
                             /\ \A x \in s : /\ Parcial(f, s) = f[x] + Parcial(f, s \ {x})
                                             /\ Parcial(g, s) = g[x] + Parcial(g, s \ {x})
  BY SumaDePartes
<1>4. H[{}] = 0
  BY <1>3
<1>5. ASSUME NEW s \in SUBSET A, s # {}
      PROVE  \E x \in s : H[s] = k[x] + H[s \ {x}]
  <2>1. PICK x \in s : TRUE
    BY <1>5
  <2>2. k[x] = f[x] + g[x] /\ f[x] \in Int /\ g[x] \in Int
    BY <1>1
  <2>3. /\ s \in SUBSET S /\ s \ {x} \in SUBSET S
        /\ H[s] = Parcial(f, s) + Parcial(g, s)
        /\ H[s \ {x}] = Parcial(f, s \ {x}) + Parcial(g, s \ {x})
    OBVIOUS
  <2> DEFINE a == Parcial(f, s \ {x})
             b == Parcial(g, s \ {x})
  <2>4. H[s] = (f[x] + a) + (g[x] + b) /\ H[s \ {x}] = a + b /\ a \in Int /\ b \in Int
    BY <1>3, <2>3
  <2> HIDE DEF H, a, b
  <2>5. H[s] = k[x] + H[s \ {x}]
    BY <2>2, <2>4
  <2> QED BY <2>5
<1>6. SumFunction(k) = H[A]
  <2>1. Acumula(H, k, A)
    <3> HIDE DEF H
    <3> QED BY <1>4, <1>5 DEF Acumula
  <2> HIDE DEF H
  <2> QED BY <1>2, <2>1, SumaUnica
<1> QED BY <1>1, <1>6

\* To count is to add ones.
LEMMA SumaDeUnos ==
  ASSUME NEW S, IsFiniteSet(S)
  PROVE  SumFunction([x \in S |-> 1]) = Cardinality(S)
<1>1. PICK k : k = [x \in S |-> 1]
  OBVIOUS
<1> DEFINE H == [s \in SUBSET S |-> Cardinality(s)]
<1>2. H[{}] = 0
  BY FS_EmptySet
<1>3. ASSUME NEW s \in SUBSET S, s # {}
      PROVE  \E x \in s : H[s] = k[x] + H[s \ {x}]
  <2>1. PICK x \in s : TRUE
    BY <1>3
  <2>2. /\ IsFiniteSet(s) /\ k[x] = 1
        /\ H[s] = Cardinality(s) /\ H[s \ {x}] = Cardinality(s \ {x})
    BY <1>1, FS_Subset
  <2> HIDE DEF H
  <2>3. Cardinality(s \ {x}) = Cardinality(s) - 1 /\ Cardinality(s) \in Nat
    BY <2>2, FS_RemoveElement, FS_CardinalityType
  <2>4. H[s] = k[x] + H[s \ {x}]
    BY <2>2, <2>3
  <2> QED BY <2>4
<1>4. k \in [S -> Int]
  BY <1>1
<1>5. SumFunction(k) = H[S]
  <2>1. Acumula(H, k, S)
    <3> HIDE DEF H
    <3> QED BY <1>2, <1>3 DEF Acumula
  <2> HIDE DEF H
  <2> QED BY <1>4, <2>1, SumaUnica
<1> QED BY <1>1, <1>5

-----------------------------------------------------------------------------
(* The state behind the reports: Reportes *)

\* An account with something to collect or to pay: what is left of its total.
CuentaAbierta(k, total) ==
  /\ k.saldo = total - k.retenido - k.pagos /\ k.saldo >= 0
  /\ k.estado \in {"PENDIENTE", "PARCIAL", "PAGADA"}
  /\ k.saldo > 0 => k.estado # "PAGADA"

\* A sale has an open account while it is issued, and nothing was collected of a cancelled one.
CobrosPorEstado ==
  \A v \in Ventas :
    /\ venta[v].estado \in {"NINGUNA", "BORRADOR"} => cxc[v] = SinCuenta
    /\ venta[v].estado = "EMITIDA" => CuentaAbierta(cxc[v], Monto(Factura[v]))
    /\ venta[v].estado = "ANULADA" => /\ cxc[v].estado = "ANULADA" /\ cxc[v].saldo = 0
                                      /\ cxc[v].pagos = 0 /\ cxc[v].retenido = 0

\* What the payments of an account add up to.
PagosDe(v) == [n \in DOMAIN pagos |-> IF pagos[n].venta = v THEN pagos[n].monto ELSE 0]
PagosSumados == \A v \in Ventas : cxc[v].pagos = SumFunction(PagosDe(v))

\* What a withholding has done to the account of its sale: created APLICADA it did nothing,
\* but annulled it gives back.
Aporte(r) ==
  (IF recibida[r].estado = "APLICADA" THEN Retenida[r].valor ELSE 0)
    - (IF r \in directas THEN Retenida[r].valor ELSE 0)
AportesA(v) == [r \in Recibidas |-> IF Retenida[r].venta = v THEN Aporte(r) ELSE 0]
RetenidoSumado ==
  /\ \A v \in Ventas : cxc[v].retenido = SumFunction(AportesA(v))
  /\ \A r \in directas : recibida[r].estado \in {"APLICADA", "ANULADA"}

\* A purchase has its account from the beginning; what was withheld is there once it is sent.
PagosPorEstado ==
  \A c \in Compras :
    /\ compra[c].estado = "NINGUNA" => cxp[c] = SinCuenta /\ emitida[c] = "NINGUNA"
    /\ compra[c].estado # "NINGUNA" => CuentaAbierta(cxp[c], Monto(Adquisicion[c]))
    /\ cxp[c].retenido = IF emitida[c] \in {"ENCOLADA", "EMITIDA"} THEN Adquisicion[c].retencion ELSE 0

\* Which rows have an electronic document.
DocumentosPorEstado ==
  /\ \A v \in Ventas : documento[v].estado # "NINGUNO" <=>
                         Factura[v].electronica /\ venta[v].estado \in {"EMITIDA", "ANULADA"}
  /\ \A c \in Compras : /\ documento[c].estado # "NINGUNO" => emitida[c] \in {"ENCOLADA", "EMITIDA"}
                        /\ emitida[c] = "ENCOLADA" => documento[c].estado \in {"EN_COLA", "RECHAZADO"}

\* The stock is what all movements did, the annulled ones too, and the output of a sale is of
\* what the sale says.
EfectosEn(s, b, a) ==
  [k \in DOMAIN s |-> IF s[k].bodega = b /\ s[k].articulo = a THEN Efecto(s[k]) ELSE 0]
StockSumado ==
  \A b \in LasBodegas, a \in Articulos : existencia[<<b, a>>] = SumFunction(EfectosEn(movimientos, b, a))
SalidaBien(m) ==
  /\ m.costo = Costo[m.articulo]
  /\ m.de = "VENTA" => /\ m.id \in Ventas /\ m.tipo = "EGRESO" /\ m.articulo = Factura[m.id].articulo
                       /\ m.cantidad = Factura[m.id].cantidad
SalidasDeVentas == \A k \in DOMAIN movimientos : SalidaBien(movimientos[k])

RepInv ==
  /\ RepTypeOK /\ CobrosPorEstado /\ PagosSumados /\ RetenidoSumado
  /\ PagosPorEstado /\ DocumentosPorEstado /\ StockSumado /\ SalidasDeVentas

\* A part of zeros adds nothing.
LEMMA SumaDeCeros ==
  ASSUME NEW S, IsFiniteSet(S), NEW g \in [S -> Int], NEW A \in SUBSET S, \A x \in A : g[x] = 0
  PROVE  Parcial(g, A) = 0
<1>1. [x \in A |-> g[x]] = [x \in A |-> 0]
  OBVIOUS
<1>2. IsFiniteSet(A)
  BY FS_Subset
<1>3. SumFunction([x \in A |-> 0]) = 0
  BY <1>2, SumaCeros
<1> QED BY <1>1, <1>3 DEF Parcial

\* A term more at the end of a sequence.
LEMMA SumaAlFinal ==
  ASSUME NEW n \in Nat, NEW g \in [1..n -> Int], NEW f \in [1..(n + 1) -> Int],
         \A k \in 1..n : f[k] = g[k]
  PROVE  SumFunction(f) = SumFunction(g) + f[n + 1] /\ SumFunction(g) \in Int
<1>1. IsFiniteSet(1..n) /\ IsFiniteSet(1..(n + 1))
  BY FS_Interval
<1>2. n + 1 \in 1..(n + 1) /\ (1..(n + 1)) \ {n + 1} = 1..n
  OBVIOUS
<1>3. SumFunction(f) = Parcial(f, 1..(n + 1))
  BY <1>1, SumaDePartes
<1>4. Parcial(f, 1..(n + 1)) = f[n + 1] + Parcial(f, 1..n)
  <2> DEFINE U == 1..(n + 1)
  <2>1. U \in SUBSET U /\ n + 1 \in U
    BY <1>2
  <2>2. Parcial(f, U) = f[n + 1] + Parcial(f, U \ {n + 1})
    <3> HIDE DEF U
    <3>1. f \in [U -> Int] /\ IsFiniteSet(U)
      BY <1>1 DEF U
    <3> QED BY <2>1, <3>1, SumaDePartes
  <2> QED BY <1>2, <2>2
<1>5. Parcial(f, 1..n) = SumFunction(g)
  <2>1. [k \in 1..n |-> f[k]] = g
    OBVIOUS
  <2> QED BY <2>1 DEF Parcial
<1>6. SumFunction(g) \in Int
  <2> DEFINE U == 1..n
  <2>1. U \in SUBSET U /\ IsFiniteSet(U) /\ g \in [U -> Int]
    BY <1>1
  <2> HIDE DEF U
  <2> QED BY <2>1, SumaDePartes
<1>7. f[n + 1] \in Int
  BY <1>2
<1> QED BY <1>3, <1>4, <1>5, <1>6, <1>7

\* Totals are not negative.
LEMMA MontoNatural ==
  ASSUME NEW d, Importes(d)
  PROVE  Monto(d) \in Nat
<1>1. d.cero \in Nat /\ d.doce \in Nat /\ d.quince \in Nat /\ d.ocho \in Nat /\ d.iva \in Nat
  BY DEF Importes
<1> QED BY <1>1 DEF Monto

\* Paying or withholding up to the balance leaves an open account.
LEMMA RecalculadaAbierta ==
  ASSUME NEW k, NEW total \in Int, NEW E, k \in [retenido : Int, pagos : Nat, saldo : Nat, estado : E],
         total - k.retenido - k.pagos >= 0
  PROVE  /\ CuentaAbierta(Recalculada(k, total), total)
         /\ Recalculada(k, total).retenido = k.retenido
         /\ Recalculada(k, total).pagos = k.pagos
         /\ Recalculada(k, total).saldo = total - k.retenido - k.pagos
         /\ Recalculada(k, total) \in [retenido : Int, pagos : Int, saldo : Nat,
                                       estado : {"PENDIENTE", "PARCIAL", "PAGADA"}]
<1> DEFINE s == total - k.retenido - k.pagos
           r == Recalculada(k, total)
<1>1. s \in Nat
  OBVIOUS
<1>2. /\ r.retenido = k.retenido /\ r.pagos = k.pagos /\ r.saldo = s
      /\ r.estado \in {"PENDIENTE", "PARCIAL", "PAGADA"} /\ (s > 0 => r.estado # "PAGADA")
  BY <1>1 DEF Recalculada
<1>3. r = [retenido |-> k.retenido, pagos |-> k.pagos, saldo |-> s, estado |-> r.estado]
  <2>1. PICK e : r = [k EXCEPT !.saldo = s, !.estado = e]
    BY DEF Recalculada
  <2> HIDE DEF r, s
  <2> QED BY <2>1
<1> HIDE DEF r
<1>4. r \in [retenido : Int, pagos : Int, saldo : Nat, estado : {"PENDIENTE", "PARCIAL", "PAGADA"}]
  BY <1>1, <1>2, <1>3
<1> QED BY <1>1, <1>2, <1>4 DEF CuentaAbierta, r

\* A row whose state changes keeps its type.
LEMMA EstadoCambiado ==
  ASSUME NEW S, NEW E, NEW F, NEW f \in [S -> [estado : E, fecha : F]], NEW s \in S, NEW e \in E
  PROVE  [f EXCEPT ![s].estado = e] \in [S -> [estado : E, fecha : F]]
<1>1. f[s] \in [estado : E, fecha : F]
  OBVIOUS
<1>2. [f[s] EXCEPT !.estado = e] \in [estado : E, fecha : F]
  BY <1>1
<1> QED BY <1>2

\* So does an account that is paid,
LEMMA CuentaPagada ==
  ASSUME NEW E, NEW c \in Cuentas(E), NEW n \in Nat, NEW k, k = [c EXCEPT !.pagos = @ + n]
  PROVE  /\ k \in [retenido : Int, pagos : Nat, saldo : Nat, estado : E]
         /\ k.pagos = c.pagos + n /\ k.retenido = c.retenido
BY DEF Cuentas

\* and one with a withholding more or less.
LEMMA CuentaRetenida ==
  ASSUME NEW E, NEW c \in Cuentas(E), NEW w \in Int, NEW k, k = [c EXCEPT !.retenido = @ + w]
  PROVE  /\ k \in [retenido : Int, pagos : Nat, saldo : Nat, estado : E]
         /\ k.retenido = c.retenido + w /\ k.pagos = c.pagos
BY DEF Cuentas

\* Recalculated, either is an account again.
LEMMA RecalculadaTipo ==
  ASSUME NEW E, {"PENDIENTE", "PARCIAL", "PAGADA"} \subseteq E, NEW total \in Nat,
         NEW k \in [retenido : Int, pagos : Nat, saldo : Nat, estado : E],
         total - k.retenido - k.pagos >= 0
  PROVE  Recalculada(k, total) \in Cuentas(E)
<1> DEFINE s == total - k.retenido - k.pagos
<1>1. PICK e \in {"PENDIENTE", "PARCIAL", "PAGADA"} :
         Recalculada(k, total) = [k EXCEPT !.saldo = s, !.estado = e]
  BY DEF Recalculada
<1>2. s \in Nat /\ e \in E
  OBVIOUS
<1> HIDE DEF s
<1> QED BY <1>1, <1>2 DEF Cuentas

\* What recalculating puts in the balance.
LEMMA RecalculadaSaldo ==
  ASSUME NEW E, NEW k \in [retenido : Int, pagos : Nat, saldo : Nat, estado : E], NEW total
  PROVE  Recalculada(k, total).saldo = total - k.retenido - k.pagos
BY DEF Recalculada

\* What a movement does is an integer.
LEMMA EfectoEntero ==
  ASSUME NEW m \in Asientos
  PROVE  Efecto(m) \in Int
BY DEF Efecto, EsSalida, Asientos

\* A new movement has the type of the rows.
LEMMA NuevoEsAsiento ==
  ASSUME NEW t \in {"INGRESO", "EGRESO", "AJUSTE", "TRANSFERENCIA"}, NEW a \in Articulos,
         NEW n \in Nat, NEW b \in LasBodegas,
         NEW d \in {"APERTURA", "VENTA", "ANULACION_VENTA", "COMPRA", "ANULACION_COMPRA", "TRANSFERENCIA"},
         NEW i \in Documentos \cup Articulos \cup Nat, NEW f \in Dias
  PROVE  NuevoMovimiento(t, a, n, b, d, i, f) \in Asientos
<1>1. Costo[a] \in Nat
  BY ReportesSupuestos
<1> QED BY <1>1 DEF NuevoMovimiento, Asientos

\* A confirmed movement keeps the types of what it writes.
LEMMA ConfirmarTipos ==
  ASSUME RepTypeOK, NEW m \in Asientos, ConfirmarMovimiento(m)
  PROVE  /\ movimientos' \in Seq(Asientos)
         /\ existencia' \in [LasBodegas \X Articulos -> Nat]
<1>1. movimientos \in Seq(Asientos) /\ existencia \in [LasBodegas \X Articulos -> Nat]
  BY DEF RepTypeOK
<1>2. Efecto(m) \in Int /\ <<m.bodega, m.articulo>> \in LasBodegas \X Articulos
  BY EfectoEntero DEF Asientos
<1>3. movimientos' \in Seq(Asientos)
  BY <1>1 DEF ConfirmarMovimiento
<1>4. existencia' \in [LasBodegas \X Articulos -> Nat]
  BY <1>1, <1>2 DEF ConfirmarMovimiento
<1> QED BY <1>3, <1>4

\* The days a request may give.
LEMMA FechaDia ==
  ASSUME RepTypeOK, NEW f \in {hoy} \cup Fechas
  PROVE  f \in Dias
BY ReportesSupuestos DEF RepTypeOK

\* Every operation keeps the types; that no balance falls below zero rests on the accounts.
LEMMA RepTiposSiguen ==
  ASSUME RepInv, Operacion, pasos' \in Nat
  PROVE  RepTypeOK'
<1> USE DEF comercio, abasto, bodegaje
<1>0. RepTypeOK /\ CobrosPorEstado /\ PagosPorEstado
  BY DEF RepInv
<1>1. ASSUME NEW v \in Ventas, NEW f \in {hoy} \cup Fechas, RegistrarVenta(v, f)
      PROVE  RepTypeOK'
  BY <1>0, <1>1, FechaDia DEF RegistrarVenta, RepTypeOK
<1>2. ASSUME NEW v \in Ventas, NEW b \in LasBodegas, EmitirVenta(v, b)
      PROVE  RepTypeOK'
  <2> DEFINE m == NuevoMovimiento("EGRESO", Factura[v].articulo, Factura[v].cantidad, b, "VENTA", v, hoy)
  <2>1. m \in Asientos
    BY <1>0, NuevoEsAsiento, ReportesSupuestos DEF RepTypeOK, Importes, Documentos
  <2>2. movimientos' \in Seq(Asientos) /\ existencia' \in [LasBodegas \X Articulos -> Nat]
    BY <1>0, <1>2, <2>1, ConfirmarTipos DEF EmitirVenta
  <2>3. Abierta(Monto(Factura[v])) \in Cuentas({"NINGUNA", "PENDIENTE", "PARCIAL", "PAGADA", "ANULADA"})
    BY MontoNatural, ReportesSupuestos DEF Abierta, Cuentas
  <2>4. venta' \in [Ventas -> [estado : {"NINGUNA", "BORRADOR", "EMITIDA", "ANULADA"}, fecha : Dias]]
    BY <1>0, <1>2, EstadoCambiado DEF EmitirVenta, RepTypeOK
  <2>7. documento' \in [Documentos -> [estado : {"NINGUNO", "EN_COLA", "AUTORIZADO", "RECHAZADO"}, dia : Dias]]
    BY <1>0, <1>2 DEF EmitirVenta, RepTypeOK
  <2>5. cxc' \in [Ventas -> Cuentas({"NINGUNA", "PENDIENTE", "PARCIAL", "PAGADA", "ANULADA"})]
    BY <1>0, <1>2, <2>3 DEF EmitirVenta, RepTypeOK
  <2>6. UNCHANGED <<hoy, pagos, recibida, abasto, activo, directas>>
    BY <1>2 DEF EmitirVenta
  <2> QED BY <1>0, <2>2, <2>4, <2>5, <2>6, <2>7 DEF RepTypeOK
<1>3. ASSUME NEW v \in Ventas, NEW b \in LasBodegas, AnularVenta(v, b)
      PROVE  RepTypeOK'
  <2> DEFINE m == NuevoMovimiento("AJUSTE", Factura[v].articulo, Factura[v].cantidad, b, "ANULACION_VENTA", v, hoy)
  <2>1. m \in Asientos
    BY <1>0, NuevoEsAsiento, ReportesSupuestos DEF RepTypeOK, Importes, Documentos
  <2>2. movimientos' \in Seq(Asientos) /\ existencia' \in [LasBodegas \X Articulos -> Nat]
    BY <1>0, <1>3, <2>1, ConfirmarTipos DEF AnularVenta
  <2>4. venta' \in [Ventas -> [estado : {"NINGUNA", "BORRADOR", "EMITIDA", "ANULADA"}, fecha : Dias]]
    <3>1. venta' = [venta EXCEPT ![v].estado = "ANULADA"]
      BY <1>3 DEF AnularVenta
    <3>2. venta \in [Ventas -> [estado : {"NINGUNA", "BORRADOR", "EMITIDA", "ANULADA"}, fecha : Dias]]
      BY <1>0 DEF RepTypeOK
    <3> QED BY <3>1, <3>2, EstadoCambiado
  <2>5. cxc' \in [Ventas -> Cuentas({"NINGUNA", "PENDIENTE", "PARCIAL", "PAGADA", "ANULADA"})]
    <3>1. [cxc[v] EXCEPT !.saldo = 0, !.estado = "ANULADA"] \in Cuentas({"NINGUNA", "PENDIENTE", "PARCIAL", "PAGADA", "ANULADA"})
      <4>1. cxc[v] \in Cuentas({"NINGUNA", "PENDIENTE", "PARCIAL", "PAGADA", "ANULADA"})
        BY <1>0 DEF RepTypeOK
      <4> QED BY <4>1 DEF Cuentas
    <3>2. cxc' = [cxc EXCEPT ![v].saldo = 0, ![v].estado = "ANULADA"]
      BY <1>3 DEF AnularVenta
    <3>3. cxc' = [cxc EXCEPT ![v] = [cxc[v] EXCEPT !.saldo = 0, !.estado = "ANULADA"]]
      BY <1>0, <3>2 DEF RepTypeOK
    <3> QED BY <1>0, <3>1, <3>3 DEF RepTypeOK
  <2>6. UNCHANGED <<hoy, pagos, recibida, abasto, documento, activo, directas>>
    BY <1>3 DEF AnularVenta
  <2> QED BY <1>0, <2>2, <2>4, <2>5, <2>6 DEF RepTypeOK
<1>4. ASSUME NEW v \in Ventas, NEW n \in Montos, NEW forma \in Formas, NEW f \in {hoy} \cup Fechas,
             RegistrarPago(v, n, forma, f)
      PROVE  RepTypeOK'
  <2> DEFINE k == [cxc[v] EXCEPT !.pagos = @ + n]
  <2>1. /\ cxc[v] \in Cuentas({"NINGUNA", "PENDIENTE", "PARCIAL", "PAGADA", "ANULADA"})
        /\ n \in Nat /\ f \in Dias /\ Monto(Factura[v]) \in Nat
    BY <1>0, FechaDia, MontoNatural, ReportesSupuestos DEF RepTypeOK
  <2>2. CuentaAbierta(cxc[v], Monto(Factura[v]))
    BY <1>0, <1>4 DEF RegistrarPago, CobrosPorEstado, RepTypeOK, SinCuenta
  <2>3. Recalculada(k, Monto(Factura[v])) \in Cuentas({"NINGUNA", "PENDIENTE", "PARCIAL", "PAGADA", "ANULADA"})
    <3>1. n <= cxc[v].saldo
      BY <1>4 DEF RegistrarPago
    <3>2. {cxc[v].saldo, cxc[v].retenido, cxc[v].pagos} \subseteq Int
      BY <2>1 DEF Cuentas
    <3>3. Monto(Factura[v]) - cxc[v].retenido - (cxc[v].pagos + n) >= 0
      BY <2>1, <2>2, <3>1, <3>2 DEF CuentaAbierta
    <3> HIDE DEF k
    <3>4. Monto(Factura[v]) - k.retenido - k.pagos >= 0
      BY <2>1, <3>3, CuentaPagada DEF k
    <3>5. k \in [retenido : Int, pagos : Nat, saldo : Nat,
                estado : {"NINGUNA", "PENDIENTE", "PARCIAL", "PAGADA", "ANULADA"}]
      BY <2>1, CuentaPagada DEF k
    <3> QED BY <2>1, <3>4, <3>5, RecalculadaTipo
  <2>4. cxc' = [cxc EXCEPT ![v] = Recalculada(k, Monto(Factura[v]))]
    BY <1>4 DEF RegistrarPago
  <2>5. cxc' \in [Ventas -> Cuentas({"NINGUNA", "PENDIENTE", "PARCIAL", "PAGADA", "ANULADA"})]
    <3> HIDE DEF k
    <3> QED BY <1>0, <2>3, <2>4 DEF RepTypeOK
  <2>6. pagos' \in Seq([venta : Ventas, monto : Nat, forma : Formas, fecha : Dias])
    BY <1>0, <1>4, <2>1 DEF RegistrarPago, RepTypeOK
  <2>7. UNCHANGED <<hoy, venta, recibida, abasto, bodegaje, documento, activo, directas>>
    BY <1>4 DEF RegistrarPago
  <2> QED BY <1>0, <2>5, <2>6, <2>7 DEF RepTypeOK
<1>5. ASSUME NEW r \in Recibidas, NEW e \in {"BORRADOR", "APLICADA", "ANULADA"},
             NEW f \in {hoy} \cup Fechas, CrearRecibida(r, e, f)
      PROVE  RepTypeOK'
  BY <1>0, <1>5, FechaDia DEF CrearRecibida, RepTypeOK
<1>6. ASSUME NEW r \in Recibidas, NEW desde, NEW hasta \in {"APLICADA", "ANULADA"}, NEW w \in Int,
             MoverRecibida(r, desde, hasta, w)
      PROVE  RepTypeOK'
  <2> DEFINE v == Retenida[r].venta
             k == [cxc[v] EXCEPT !.retenido = @ + w]
  <2>1. /\ v \in Ventas /\ cxc[v] \in Cuentas({"NINGUNA", "PENDIENTE", "PARCIAL", "PAGADA", "ANULADA"})
        /\ Monto(Factura[v]) \in Nat
    BY <1>0, MontoNatural, ReportesSupuestos DEF RepTypeOK
  <2>2. k \in [retenido : Int, pagos : Nat, saldo : Nat,
              estado : {"NINGUNA", "PENDIENTE", "PARCIAL", "PAGADA", "ANULADA"}]
    <3> HIDE DEF k, v
    <3> QED BY <2>1, CuentaRetenida DEF k
  <2>3. Monto(Factura[v]) - k.retenido - k.pagos >= 0
    <3>1. Recalculada(k, Monto(Factura[v])).saldo >= 0
      BY <1>6 DEF MoverRecibida
    <3> HIDE DEF k, v
    <3> QED BY <2>2, <3>1, RecalculadaSaldo
  <2>4. Recalculada(k, Monto(Factura[v])) \in Cuentas({"NINGUNA", "PENDIENTE", "PARCIAL", "PAGADA", "ANULADA"})
    <3> HIDE DEF k, v
    <3> QED BY <2>1, <2>2, <2>3, RecalculadaTipo
  <2>5. cxc' = [cxc EXCEPT ![v] = Recalculada(k, Monto(Factura[v]))]
    BY <1>6 DEF MoverRecibida
  <2>6. cxc' \in [Ventas -> Cuentas({"NINGUNA", "PENDIENTE", "PARCIAL", "PAGADA", "ANULADA"})]
    <3> HIDE DEF k, v
    <3> QED BY <1>0, <2>4, <2>5 DEF RepTypeOK
  <2>7. recibida' \in [Recibidas -> [estado : {"NINGUNA", "BORRADOR", "APLICADA", "ANULADA"}, fecha : Dias]]
    <3>1. recibida' = [recibida EXCEPT ![r].estado = hasta]
      BY <1>6 DEF MoverRecibida
    <3> DEFINE E == {"NINGUNA", "BORRADOR", "APLICADA", "ANULADA"}
    <3>2. recibida \in [Recibidas -> [estado : E, fecha : Dias]] /\ hasta \in E
      BY <1>0 DEF RepTypeOK
    <3> HIDE DEF E
    <3>3. recibida' \in [Recibidas -> [estado : E, fecha : Dias]]
      BY <3>1, <3>2, EstadoCambiado
    <3> QED BY <3>3 DEF E
  <2>8. UNCHANGED <<hoy, venta, pagos, abasto, bodegaje, documento, activo, directas>>
    BY <1>6 DEF MoverRecibida
  <2> QED BY <1>0, <2>6, <2>7, <2>8 DEF RepTypeOK

<1>7. ASSUME NEW c \in Compras, NEW f \in {hoy} \cup Fechas, RegistrarCompra(c, f)
      PROVE  RepTypeOK'
  <2> DEFINE x == Adquisicion[c]
             m == NuevoMovimiento("INGRESO", x.articulo, x.cantidad, x.bodega, "COMPRA", c, hoy)
  <2>1. m \in Asientos
    BY <1>0, NuevoEsAsiento, ReportesSupuestos DEF RepTypeOK, Importes, Documentos
  <2>2. movimientos' \in Seq(Asientos) /\ existencia' \in [LasBodegas \X Articulos -> Nat]
    BY <1>0, <1>7, <2>1, ConfirmarTipos DEF RegistrarCompra
  <2>3. Abierta(Monto(x)) \in Cuentas({"NINGUNA", "PENDIENTE", "PARCIAL", "PAGADA"}) /\ f \in Dias
    BY <1>0, FechaDia, MontoNatural, ReportesSupuestos DEF Abierta, Cuentas
  <2>4. /\ compra' \in [Compras -> [estado : {"NINGUNA", "REGISTRADA", "ANULADA"}, fecha : Dias]]
        /\ cxp' \in [Compras -> Cuentas({"NINGUNA", "PENDIENTE", "PARCIAL", "PAGADA"})]
    BY <1>0, <1>7, <2>3 DEF RegistrarCompra, RepTypeOK
  <2>5. UNCHANGED <<hoy, comercio, emitida, documento, activo>>
    BY <1>7 DEF RegistrarCompra
  <2> QED BY <1>0, <2>2, <2>4, <2>5 DEF RepTypeOK
<1>8. ASSUME NEW c \in Compras, AnularCompra(c)
      PROVE  RepTypeOK'
  <2> DEFINE x == Adquisicion[c]
  <2>1. PICK k \in Hay("COMPRA", c) :
           ConfirmarMovimiento(NuevoMovimiento("EGRESO", x.articulo, x.cantidad, movimientos[k].bodega,
                                               "ANULACION_COMPRA", c, hoy))
    BY <1>8 DEF AnularCompra
  <2>2. movimientos[k] \in Asientos
    BY <1>0 DEF Hay, RepTypeOK
  <2>3. NuevoMovimiento("EGRESO", x.articulo, x.cantidad, movimientos[k].bodega, "ANULACION_COMPRA", c, hoy)
          \in Asientos
    <3>1. movimientos[k].bodega \in LasBodegas
      BY <2>2 DEF Asientos
    <3> QED BY <1>0, <3>1, NuevoEsAsiento, ReportesSupuestos DEF RepTypeOK, Importes, Documentos
  <2>4. movimientos' \in Seq(Asientos) /\ existencia' \in [LasBodegas \X Articulos -> Nat]
    BY <1>0, <2>1, <2>3, ConfirmarTipos
  <2>5. compra' \in [Compras -> [estado : {"NINGUNA", "REGISTRADA", "ANULADA"}, fecha : Dias]]
    BY <1>0, <1>8 DEF AnularCompra, RepTypeOK
  <2>6. UNCHANGED <<hoy, comercio, cxp, emitida, documento, activo>>
    BY <1>8 DEF AnularCompra
  <2> QED BY <1>0, <2>4, <2>5, <2>6 DEF RepTypeOK
<1>9. ASSUME NEW c \in Compras, NEW n \in Montos, PagarCompra(c, n)
      PROVE  RepTypeOK'
  <2> DEFINE k == [cxp[c] EXCEPT !.pagos = @ + n]
  <2>1. /\ cxp[c] \in Cuentas({"NINGUNA", "PENDIENTE", "PARCIAL", "PAGADA"})
        /\ n \in Nat /\ Monto(Adquisicion[c]) \in Nat
    BY <1>0, MontoNatural, ReportesSupuestos DEF RepTypeOK
  <2>2. CuentaAbierta(cxp[c], Monto(Adquisicion[c]))
    BY <1>0, <1>9 DEF PagarCompra, PagosPorEstado, SinCuenta
  <2>3. Recalculada(k, Monto(Adquisicion[c])) \in Cuentas({"NINGUNA", "PENDIENTE", "PARCIAL", "PAGADA"})
    <3>1. n <= cxp[c].saldo
      BY <1>9 DEF PagarCompra
    <3>2. {cxp[c].saldo, cxp[c].retenido, cxp[c].pagos} \subseteq Int
      BY <2>1 DEF Cuentas
    <3>3. Monto(Adquisicion[c]) - cxp[c].retenido - (cxp[c].pagos + n) >= 0
      BY <2>1, <2>2, <3>1, <3>2 DEF CuentaAbierta
    <3> HIDE DEF k
    <3>4. Monto(Adquisicion[c]) - k.retenido - k.pagos >= 0
      BY <2>1, <3>3, CuentaPagada DEF k
    <3>5. k \in [retenido : Int, pagos : Nat, saldo : Nat,
                estado : {"NINGUNA", "PENDIENTE", "PARCIAL", "PAGADA"}]
      BY <2>1, CuentaPagada DEF k
    <3> QED BY <2>1, <3>4, <3>5, RecalculadaTipo
  <2>4. cxp' = [cxp EXCEPT ![c] = Recalculada(k, Monto(Adquisicion[c]))]
    BY <1>9 DEF PagarCompra
  <2>5. cxp' \in [Compras -> Cuentas({"NINGUNA", "PENDIENTE", "PARCIAL", "PAGADA"})]
    <3> HIDE DEF k
    <3> QED BY <1>0, <2>3, <2>4 DEF RepTypeOK
  <2>6. UNCHANGED <<hoy, comercio, compra, emitida, bodegaje, documento, activo>>
    BY <1>9 DEF PagarCompra
  <2> QED BY <1>0, <2>5, <2>6 DEF RepTypeOK
<1>10. ASSUME NEW c \in Compras, CrearRetencion(c)
       PROVE  RepTypeOK'
  BY <1>0, <1>10 DEF CrearRetencion, RepTypeOK
<1>11. ASSUME NEW c \in Compras, NEW encolar \in BOOLEAN, EmitirRetencion(c, encolar)
       PROVE  RepTypeOK'
  <2> DEFINE k == [cxp[c] EXCEPT !.retenido = @ + Adquisicion[c].retencion]
  <2>1. /\ cxp[c] \in Cuentas({"NINGUNA", "PENDIENTE", "PARCIAL", "PAGADA"})
        /\ Adquisicion[c].retencion \in Nat /\ Monto(Adquisicion[c]) \in Nat
    BY <1>0, MontoNatural, ReportesSupuestos DEF RepTypeOK
  <2>2. k \in [retenido : Int, pagos : Nat, saldo : Nat,
              estado : {"NINGUNA", "PENDIENTE", "PARCIAL", "PAGADA"}]
    <3> HIDE DEF k
    <3> QED BY <2>1, CuentaRetenida DEF k
  <2>3. Recalculada(k, Monto(Adquisicion[c])) \in Cuentas({"NINGUNA", "PENDIENTE", "PARCIAL", "PAGADA"})
    <3>1. Recalculada(k, Monto(Adquisicion[c])).saldo >= 0
      BY <1>11 DEF EmitirRetencion
    <3> HIDE DEF k
    <3>2. Monto(Adquisicion[c]) - k.retenido - k.pagos >= 0
      BY <2>2, <3>1, RecalculadaSaldo
    <3> QED BY <2>1, <2>2, <3>2, RecalculadaTipo
  <2>4. cxp' \in [Compras -> Cuentas({"NINGUNA", "PENDIENTE", "PARCIAL", "PAGADA"})]
    <3>1. cxp' = [cxp EXCEPT ![c] = Recalculada(k, Monto(Adquisicion[c]))]
      BY <1>11 DEF EmitirRetencion
    <3> HIDE DEF k
    <3> QED BY <1>0, <2>3, <3>1 DEF RepTypeOK
  <2>5. /\ emitida' \in [Compras -> {"NINGUNA", "REGISTRADA", "ENCOLADA", "EMITIDA"}]
        /\ documento' \in [Documentos -> [estado : {"NINGUNO", "EN_COLA", "AUTORIZADO", "RECHAZADO"}, dia : Dias]]
    BY <1>0, <1>11 DEF EmitirRetencion, RepTypeOK
  <2>6. UNCHANGED <<hoy, comercio, compra, bodegaje, activo>>
    BY <1>11 DEF EmitirRetencion
  <2> QED BY <1>0, <2>4, <2>5, <2>6 DEF RepTypeOK
<1>12. ASSUME NEW d \in Documentos, NEW e \in {"AUTORIZADO", "RECHAZADO"}, Responder(d, e)
       PROVE  RepTypeOK'
  BY <1>0, <1>12 DEF Responder, RepTypeOK
<1>13. ASSUME NEW a \in Articulos, NEW n \in Montos, NEW b \in LasBodegas, NEW d \in LasBodegas,
              NEW f \in {hoy} \cup Fechas, TransferirEntreBodegas(a, n, b, d, f)
       PROVE  RepTypeOK'
  <2>1. n \in Nat /\ f \in Dias
    BY <1>0, FechaDia, ReportesSupuestos
  <2>2. /\ NuevoMovimiento("TRANSFERENCIA", a, n, b, "TRANSFERENCIA", a, f) \in Asientos
        /\ NuevoMovimiento("INGRESO", a, n, d, "TRANSFERENCIA", a, f) \in Asientos
    BY <2>1, NuevoEsAsiento
  <2>3. movimientos' \in Seq(Asientos)
    BY <1>0, <1>13, <2>2 DEF TransferirEntreBodegas, RepTypeOK
  <2>4. existencia' \in [LasBodegas \X Articulos -> Nat]
    <3>1. existencia \in [LasBodegas \X Articulos -> Nat] /\ existencia[<<b, a>>] >= n
      BY <1>0, <1>13 DEF TransferirEntreBodegas, RepTypeOK
    <3>2. existencia' = [existencia EXCEPT ![<<b, a>>] = @ - n, ![<<d, a>>] = @ + n] /\ b # d
      BY <1>13 DEF TransferirEntreBodegas
    <3>3. /\ <<b, a>> \in LasBodegas \X Articulos /\ <<d, a>> \in LasBodegas \X Articulos
          /\ <<b, a>> # <<d, a>>
      BY <3>2
    <3>4. existencia[<<b, a>>] - n \in Nat /\ existencia[<<d, a>>] + n \in Nat
      BY <2>1, <3>1, <3>3
    <3> QED BY <3>1, <3>2, <3>3, <3>4
  <2>5. UNCHANGED <<hoy, comercio, abasto, documento, activo>>
    BY <1>13 DEF TransferirEntreBodegas
  <2> QED BY <1>0, <2>3, <2>4, <2>5 DEF RepTypeOK
<1>14. ASSUME NEW k \in DOMAIN movimientos, AnularMovimiento(k)
       PROVE  RepTypeOK'
  <2> DEFINE m == movimientos[k]
             r == [m EXCEPT !.tipo = IF EsSalida(m) THEN "INGRESO" ELSE "EGRESO", !.de = "REVERSO", !.id = k]
  <2>1. m \in Asientos /\ k \in Nat /\ Efecto(m) \in Int
    BY <1>0, EfectoEntero DEF RepTypeOK
  <2>2. r \in Asientos /\ [m EXCEPT !.estado = "ANULADO"] \in Asientos
    BY <2>1 DEF Asientos
  <2>3. [movimientos EXCEPT ![k].estado = "ANULADO"] \in Seq(Asientos)
    BY <1>0, <2>2 DEF RepTypeOK
  <2>4. movimientos' \in Seq(Asientos)
    BY <1>14, <2>2, <2>3 DEF AnularMovimiento
  <2>5. existencia' \in [LasBodegas \X Articulos -> Nat]
    <3>1. <<m.bodega, m.articulo>> \in LasBodegas \X Articulos
      BY <2>1 DEF Asientos
    <3> QED BY <1>0, <1>14, <2>1, <3>1 DEF AnularMovimiento, RepTypeOK
  <2>6. UNCHANGED <<hoy, comercio, abasto, documento, activo>>
    BY <1>14 DEF AnularMovimiento
  <2> QED BY <1>0, <2>4, <2>5, <2>6 DEF RepTypeOK
<1>15. ASSUME NEW x \in activo, Eliminar(x)
       PROVE  RepTypeOK'
  BY <1>0, <1>15 DEF Eliminar, RepTypeOK
<1>16. ASSUME Amanecer
       PROVE  RepTypeOK'
  BY <1>0, <1>16 DEF Amanecer, RepTypeOK
<1>17. \A r \in Recibidas : Retenida[r].valor \in Int /\ 0 - Retenida[r].valor \in Int
  BY ReportesSupuestos
<1> QED
  BY <1>1, <1>2, <1>3, <1>4, <1>5, <1>6, <1>7, <1>8, <1>9, <1>10, <1>11, <1>12, <1>13, <1>14,
     <1>15, <1>16, <1>17 DEF Operacion, AplicarRecibida, AnularRecibida

\* Which operations write sales, their accounts, payments or withholdings.
LEMMA QuienCobra ==
  ASSUME Operacion
  PROVE  \/ UNCHANGED comercio
         \/ \E v \in Ventas, f \in {hoy} \cup Fechas : RegistrarVenta(v, f)
         \/ \E v \in Ventas, b \in LasBodegas : EmitirVenta(v, b)
         \/ \E v \in Ventas, b \in LasBodegas : AnularVenta(v, b)
         \/ \E v \in Ventas, n \in Montos, forma \in Formas, f \in {hoy} \cup Fechas : RegistrarPago(v, n, forma, f)
         \/ \E r \in Recibidas, e \in {"BORRADOR", "APLICADA", "ANULADA"}, f \in {hoy} \cup Fechas : CrearRecibida(r, e, f)
         \/ \E r \in Recibidas : AplicarRecibida(r)
         \/ \E r \in Recibidas : AnularRecibida(r)
<1>1. \A c \in Compras : AnularCompra(c) \/ CrearRetencion(c) => UNCHANGED comercio
  BY DEF AnularCompra, CrearRetencion
<1>2. \A c \in Compras : \A f, n, e : RegistrarCompra(c, f) \/ PagarCompra(c, n) \/ EmitirRetencion(c, e) => UNCHANGED comercio
  BY DEF RegistrarCompra, PagarCompra, EmitirRetencion
<1>3. \A d, e : Responder(d, e) => UNCHANGED comercio
  BY DEF Responder
<1>4. \A a, n, b, d, f : TransferirEntreBodegas(a, n, b, d, f) => UNCHANGED comercio
  BY DEF TransferirEntreBodegas
<1>5. \A k : AnularMovimiento(k) => UNCHANGED comercio
  BY DEF AnularMovimiento
<1>6. (\E x : Eliminar(x)) \/ Amanecer => UNCHANGED comercio
  BY DEF Eliminar, Amanecer
<1> QED BY <1>1, <1>2, <1>3, <1>4, <1>5, <1>6 DEF Operacion

\* What each of them leaves in the accounts: a row of venta or one of cxc.
LEMMA CuentaEscrita ==
  ASSUME RepTypeOK, NEW v \in Ventas, NEW k, cxc' = [cxc EXCEPT ![v] = k]
  PROVE  cxc'[v] = k /\ \A u \in Ventas \ {v} : cxc'[u] = cxc[u]
BY DEF RepTypeOK

\* A sale has an open account while it is issued.
LEMMA CobrosSiguen ==
  ASSUME RepInv, Operacion
  PROVE  CobrosPorEstado'
<1>0. RepTypeOK /\ CobrosPorEstado
  BY DEF RepInv
<1> USE DEF comercio, abasto, bodegaje
<1>1. CASE UNCHANGED comercio
  BY <1>0, <1>1 DEF CobrosPorEstado
<1>2. ASSUME NEW v \in Ventas, NEW f \in {hoy} \cup Fechas, RegistrarVenta(v, f)
      PROVE  CobrosPorEstado'
  <2>1. venta[v].estado = "NINGUNA" /\ venta' = [venta EXCEPT ![v] = [estado |-> "BORRADOR", fecha |-> f]] /\ cxc' = cxc
    BY <1>2 DEF RegistrarVenta
  <2>2. venta'[v].estado = "BORRADOR" /\ \A u \in Ventas \ {v} : venta'[u] = venta[u]
    BY <1>0, <2>1 DEF RepTypeOK
  <2> QED BY <1>0, <2>1, <2>2 DEF CobrosPorEstado
<1>3. ASSUME NEW v \in Ventas, NEW b \in LasBodegas, EmitirVenta(v, b)
      PROVE  CobrosPorEstado'
  <2>1. /\ venta' = [venta EXCEPT ![v].estado = "EMITIDA"]
        /\ cxc' = [cxc EXCEPT ![v] = Abierta(Monto(Factura[v]))]
    BY <1>3 DEF EmitirVenta
  <2>2. venta'[v].estado = "EMITIDA" /\ \A u \in Ventas \ {v} : venta'[u] = venta[u]
    BY <1>0, <2>1 DEF RepTypeOK
  <2>3. CuentaAbierta(cxc'[v], Monto(Factura[v])) /\ \A u \in Ventas \ {v} : cxc'[u] = cxc[u]
    <3>1. Monto(Factura[v]) \in Nat
      BY MontoNatural, ReportesSupuestos
    <3>2. CuentaAbierta(Abierta(Monto(Factura[v])), Monto(Factura[v]))
      BY <3>1 DEF Abierta, CuentaAbierta
    <3> QED BY <1>0, <2>1, <3>2, CuentaEscrita
  <2> QED BY <1>0, <2>2, <2>3 DEF CobrosPorEstado
<1>4. ASSUME NEW v \in Ventas, NEW b \in LasBodegas, AnularVenta(v, b)
      PROVE  CobrosPorEstado'
  <2>1. /\ venta' = [venta EXCEPT ![v].estado = "ANULADA"]
        /\ cxc' = [cxc EXCEPT ![v].saldo = 0, ![v].estado = "ANULADA"]
        /\ cxc[v].pagos = 0 /\ cxc[v].retenido = 0
    BY <1>4 DEF AnularVenta
  <2>2. venta'[v].estado = "ANULADA" /\ \A u \in Ventas \ {v} : venta'[u] = venta[u]
    BY <1>0, <2>1 DEF RepTypeOK
  <2>3. /\ cxc'[v].estado = "ANULADA" /\ cxc'[v].saldo = 0 /\ cxc'[v].pagos = 0 /\ cxc'[v].retenido = 0
        /\ \A u \in Ventas \ {v} : cxc'[u] = cxc[u]
    BY <1>0, <2>1 DEF RepTypeOK, Cuentas
  <2> QED BY <1>0, <2>2, <2>3 DEF CobrosPorEstado
<1>5. ASSUME NEW v \in Ventas, NEW n \in Montos, NEW forma, NEW f, RegistrarPago(v, n, forma, f)
      PROVE  CobrosPorEstado'
  <2> DEFINE k == [cxc[v] EXCEPT !.pagos = @ + n]
  <2>1. /\ cxc' = [cxc EXCEPT ![v] = Recalculada(k, Monto(Factura[v]))] /\ venta' = venta
        /\ cxc[v].estado \notin {"NINGUNA", "ANULADA"} /\ n <= cxc[v].saldo
    BY <1>5 DEF RegistrarPago
  <2>2. /\ cxc[v] \in Cuentas({"NINGUNA", "PENDIENTE", "PARCIAL", "PAGADA", "ANULADA"})
        /\ n \in Nat /\ Monto(Factura[v]) \in Nat
    BY <1>0, MontoNatural, ReportesSupuestos DEF RepTypeOK
  <2>3. venta[v].estado = "EMITIDA" /\ CuentaAbierta(cxc[v], Monto(Factura[v]))
    BY <1>0, <2>1 DEF CobrosPorEstado, RepTypeOK, SinCuenta
  <2>4. CuentaAbierta(Recalculada(k, Monto(Factura[v])), Monto(Factura[v]))
    <3>1. {cxc[v].saldo, cxc[v].retenido, cxc[v].pagos} \subseteq Int
      BY <2>2 DEF Cuentas
    <3>2. Monto(Factura[v]) - cxc[v].retenido - (cxc[v].pagos + n) >= 0
      BY <2>1, <2>2, <2>3, <3>1 DEF CuentaAbierta
    <3> HIDE DEF k
    <3>3. /\ k \in [retenido : Int, pagos : Nat, saldo : Nat,
                    estado : {"NINGUNA", "PENDIENTE", "PARCIAL", "PAGADA", "ANULADA"}]
          /\ Monto(Factura[v]) - k.retenido - k.pagos >= 0
      BY <2>2, <3>2, CuentaPagada DEF k
    <3> QED BY <2>2, <3>3, RecalculadaAbierta
  <2>5. CuentaAbierta(cxc'[v], Monto(Factura[v])) /\ \A u \in Ventas \ {v} : cxc'[u] = cxc[u]
    BY <1>0, <2>1, <2>4, CuentaEscrita
  <2> QED BY <1>0, <2>1, <2>3, <2>5 DEF CobrosPorEstado
<1>6. ASSUME NEW r \in Recibidas, NEW e, NEW f, CrearRecibida(r, e, f)
      PROVE  CobrosPorEstado'
  BY <1>0, <1>6 DEF CobrosPorEstado, CrearRecibida
<1>7. ASSUME NEW r \in Recibidas, NEW desde, NEW hasta, NEW w \in Int, MoverRecibida(r, desde, hasta, w)
      PROVE  CobrosPorEstado'
  <2> DEFINE v == Retenida[r].venta
             k == [cxc[v] EXCEPT !.retenido = @ + w]
  <2>1. /\ cxc' = [cxc EXCEPT ![v] = Recalculada(k, Monto(Factura[v]))] /\ venta' = venta
        /\ cxc[v].estado \notin {"NINGUNA", "ANULADA"} /\ Recalculada(k, Monto(Factura[v])).saldo >= 0
    BY <1>7 DEF MoverRecibida
  <2>2. /\ v \in Ventas /\ cxc[v] \in Cuentas({"NINGUNA", "PENDIENTE", "PARCIAL", "PAGADA", "ANULADA"})
        /\ Monto(Factura[v]) \in Nat
    BY <1>0, MontoNatural, ReportesSupuestos DEF RepTypeOK
  <2> HIDE DEF v
  <2>3. venta[v].estado = "EMITIDA"
    BY <1>0, <2>1, <2>2 DEF CobrosPorEstado, RepTypeOK, SinCuenta
  <2>4. CuentaAbierta(Recalculada(k, Monto(Factura[v])), Monto(Factura[v]))
    <3> HIDE DEF k
    <3>1. k \in [retenido : Int, pagos : Nat, saldo : Nat,
                 estado : {"NINGUNA", "PENDIENTE", "PARCIAL", "PAGADA", "ANULADA"}]
      BY <2>2, CuentaRetenida DEF k
    <3>2. Monto(Factura[v]) - k.retenido - k.pagos >= 0
      BY <2>1, <3>1, RecalculadaSaldo
    <3> QED BY <2>2, <3>1, <3>2, RecalculadaAbierta
  <2>5. CuentaAbierta(cxc'[v], Monto(Factura[v])) /\ \A u \in Ventas \ {v} : cxc'[u] = cxc[u]
    BY <1>0, <2>1, <2>2, <2>4, CuentaEscrita
  <2> QED BY <1>0, <2>1, <2>3, <2>5 DEF CobrosPorEstado
<1>8. \A r \in Recibidas : Retenida[r].valor \in Int /\ 0 - Retenida[r].valor \in Int
  BY ReportesSupuestos
<1> QED
  BY <1>1, <1>2, <1>3, <1>4, <1>5, <1>6, <1>7, <1>8, QuienCobra DEF AplicarRecibida, AnularRecibida

\* A payment is always an account's: the column adds up its rows.
LEMMA PagosSiguen ==
  ASSUME RepInv, Operacion
  PROVE  PagosSumados'
<1>0. RepTypeOK /\ CobrosPorEstado /\ PagosSumados
  BY DEF RepInv
<1> USE DEF comercio
<1>1. ASSUME pagos' = pagos, \A v \in Ventas : cxc'[v].pagos = cxc[v].pagos
      PROVE  PagosSumados'
  <2>1. \A v \in Ventas : PagosDe(v)' = PagosDe(v)
    BY <1>1 DEF PagosDe
  <2> QED BY <1>0, <1>1, <2>1 DEF PagosSumados
<1>2. ASSUME NEW v \in Ventas, NEW b \in LasBodegas, EmitirVenta(v, b)
      PROVE  PagosSumados'
  <2>1. cxc' = [cxc EXCEPT ![v] = Abierta(Monto(Factura[v]))] /\ pagos' = pagos /\ venta[v].estado = "BORRADOR"
    BY <1>2 DEF EmitirVenta
  <2>2. cxc[v].pagos = 0 /\ Abierta(Monto(Factura[v])).pagos = 0
    BY <1>0, <2>1 DEF CobrosPorEstado, SinCuenta, Abierta
  <2>3. \A u \in Ventas : cxc'[u].pagos = cxc[u].pagos
    BY <1>0, <2>1, <2>2, CuentaEscrita
  <2> QED BY <1>1, <2>1, <2>3
<1>3. ASSUME NEW v \in Ventas, NEW b \in LasBodegas, AnularVenta(v, b)
      PROVE  PagosSumados'
  <2>1. cxc' = [cxc EXCEPT ![v].saldo = 0, ![v].estado = "ANULADA"] /\ pagos' = pagos
    BY <1>3 DEF AnularVenta
  <2>2. \A u \in Ventas : cxc'[u].pagos = cxc[u].pagos
    BY <1>0, <2>1 DEF RepTypeOK, Cuentas
  <2> QED BY <1>1, <2>1, <2>2
<1>4. ASSUME NEW v \in Ventas, NEW n \in Montos, NEW forma \in Formas, NEW f \in {hoy} \cup Fechas,
             RegistrarPago(v, n, forma, f)
      PROVE  PagosSumados'
  <2> DEFINE k == [cxc[v] EXCEPT !.pagos = @ + n]
             x == [venta |-> v, monto |-> n, forma |-> forma, fecha |-> f]
  <2>1. cxc' = [cxc EXCEPT ![v] = Recalculada(k, Monto(Factura[v]))] /\ pagos' = Append(pagos, x)
    BY <1>4 DEF RegistrarPago
  <2>2. /\ cxc[v] \in Cuentas({"NINGUNA", "PENDIENTE", "PARCIAL", "PAGADA", "ANULADA"})
        /\ n \in Nat /\ Monto(Factura[v]) \in Nat
        /\ pagos \in Seq([venta : Ventas, monto : Nat, forma : Formas, fecha : Dias])
    BY <1>0, MontoNatural, ReportesSupuestos DEF RepTypeOK
  <2>3. cxc'[v].pagos = cxc[v].pagos + n /\ \A u \in Ventas \ {v} : cxc'[u] = cxc[u]
    <3> HIDE DEF k
    <3>1. Recalculada(k, Monto(Factura[v])).pagos = cxc[v].pagos + n
      <4>1. k.pagos = cxc[v].pagos + n
        BY <2>2, CuentaPagada DEF k
      <4>2. k \in [retenido : Int, pagos : Nat, saldo : Nat,
                   estado : {"NINGUNA", "PENDIENTE", "PARCIAL", "PAGADA", "ANULADA"}]
        BY <2>2, CuentaPagada DEF k
      <4>3. Recalculada(k, Monto(Factura[v])).pagos = k.pagos
        BY <4>2 DEF Recalculada
      <4> QED BY <4>1, <4>3
    <3> QED BY <1>0, <2>1, <3>1, CuentaEscrita
  <2>4. ASSUME NEW u \in Ventas
        PROVE  SumFunction(PagosDe(u)') = SumFunction(PagosDe(u)) + (IF u = v THEN n ELSE 0)
    <3> DEFINE N == Len(pagos)
    <3>1. /\ N \in Nat /\ DOMAIN pagos = 1..N /\ DOMAIN pagos' = 1..(N + 1)
          /\ pagos'[N + 1] = x /\ \A i \in 1..N : pagos'[i] = pagos[i]
      BY <2>1, <2>2
    <3>2. \A i \in 1..N : pagos[i].monto \in Int
      <4> DEFINE R == [venta : Ventas, monto : Nat, forma : Formas, fecha : Dias]
      <4>1. \A i \in 1..N : pagos[i] \in R
        <5>1. pagos \in Seq(R)
          BY <2>2
        <5> HIDE DEF R
        <5> QED BY <5>1
      <4> QED BY <4>1
    <3>3. /\ PagosDe(u) \in [1..N -> Int] /\ PagosDe(u)' \in [1..(N + 1) -> Int]
          /\ \A i \in 1..N : PagosDe(u)'[i] = PagosDe(u)[i]
          /\ PagosDe(u)'[N + 1] = IF u = v THEN n ELSE 0
      <4> HIDE DEF N
      <4>1. \A i \in 1..(N + 1) : i \in 1..N \/ i = N + 1
        BY <3>1
      <4>2. N + 1 \in 1..(N + 1) /\ 1..N \subseteq 1..(N + 1)
        BY <3>1
      <4>3. PagosDe(u) = [i \in 1..N |-> IF pagos[i].venta = u THEN pagos[i].monto ELSE 0]
        BY <3>1 DEF PagosDe
      <4>4. PagosDe(u)' = [i \in 1..(N + 1) |-> IF pagos'[i].venta = u THEN pagos'[i].monto ELSE 0]
        BY <3>1 DEF PagosDe
      <4>5. pagos'[N + 1].venta = v /\ pagos'[N + 1].monto = n
        BY <3>1
      <4> QED BY <2>2, <3>1, <3>2, <4>1, <4>2, <4>3, <4>4, <4>5
    <3> HIDE DEF N
    <3> QED BY <3>1, <3>3, SumaAlFinal
  <2>5. \A u \in Ventas : cxc[u].pagos \in Int
    BY <1>0 DEF RepTypeOK, Cuentas
  <2> QED BY <1>0, <2>3, <2>4, <2>5 DEF PagosSumados
<1>5. ASSUME NEW r \in Recibidas, NEW desde, NEW hasta, NEW w \in Int, MoverRecibida(r, desde, hasta, w)
      PROVE  PagosSumados'
  <2> DEFINE v == Retenida[r].venta
             k == [cxc[v] EXCEPT !.retenido = @ + w]
  <2>1. cxc' = [cxc EXCEPT ![v] = Recalculada(k, Monto(Factura[v]))] /\ pagos' = pagos
    BY <1>5 DEF MoverRecibida
  <2>2. v \in Ventas /\ cxc[v] \in Cuentas({"NINGUNA", "PENDIENTE", "PARCIAL", "PAGADA", "ANULADA"})
    BY <1>0, ReportesSupuestos DEF RepTypeOK
  <2> HIDE DEF v
  <2>3. Recalculada(k, Monto(Factura[v])).pagos = cxc[v].pagos
    <3> HIDE DEF k
    <3>1. k.pagos = cxc[v].pagos
      BY <2>2, CuentaRetenida DEF k
    <3>2. k \in [retenido : Int, pagos : Nat, saldo : Nat,
                 estado : {"NINGUNA", "PENDIENTE", "PARCIAL", "PAGADA", "ANULADA"}]
      BY <2>2, CuentaRetenida DEF k
    <3>3. Recalculada(k, Monto(Factura[v])).pagos = k.pagos
      BY <3>2 DEF Recalculada
    <3> QED BY <3>1, <3>3
  <2>4. \A u \in Ventas : cxc'[u].pagos = cxc[u].pagos
    BY <1>0, <2>1, <2>2, <2>3, CuentaEscrita
  <2> QED BY <1>1, <2>1, <2>4
<1>6. \A r \in Recibidas : Retenida[r].valor \in Int /\ 0 - Retenida[r].valor \in Int
  BY ReportesSupuestos
<1>7. ASSUME NEW v \in Ventas, NEW f, RegistrarVenta(v, f)
      PROVE  PagosSumados'
  BY <1>1, <1>7 DEF RegistrarVenta
<1>8. ASSUME NEW r \in Recibidas, NEW e, NEW f, CrearRecibida(r, e, f)
      PROVE  PagosSumados'
  BY <1>1, <1>8 DEF CrearRecibida
<1>9. CASE UNCHANGED comercio
  BY <1>1, <1>9
<1> QED
  BY <1>2, <1>3, <1>4, <1>5, <1>6, <1>7, <1>8, <1>9, QuienCobra DEF AplicarRecibida, AnularRecibida

\* What a withholding weighs is an integer.
LEMMA AportesEnteros ==
  ASSUME NEW v
  PROVE  AportesA(v) \in [Recibidas -> Int]
<1>1. \A r \in Recibidas : Retenida[r].valor \in Int
  BY ReportesSupuestos
<1> QED BY <1>1 DEF AportesA, Aporte

\* If one withholding weighs w more, so does the sum of its sale, and no other.
LEMMA AporteCambia ==
  ASSUME NEW r \in Recibidas, NEW w \in Int, Aporte(r)' = Aporte(r) + w,
         \A q \in Recibidas \ {r} : Aporte(q)' = Aporte(q), NEW v
  PROVE  SumFunction(AportesA(v)') = SumFunction(AportesA(v)) + (IF Retenida[r].venta = v THEN w ELSE 0)
<1> DEFINE g == AportesA(v)
           k == AportesA(v)'
<1>1. \A q \in Recibidas : Aporte(q) \in Int
  <2>1. \A q \in Recibidas : Retenida[q].valor \in Int
    BY ReportesSupuestos
  <2> QED BY <2>1 DEF Aporte
<1>2. \A q \in Recibidas : Aporte(q)' \in Int
  BY <1>1
<1>3. /\ g \in [Recibidas -> Int] /\ k \in [Recibidas -> Int]
      /\ \A x \in Recibidas \ {r} : k[x] = g[x]
      /\ k[r] - g[r] = IF Retenida[r].venta = v THEN w ELSE 0
  BY <1>1, <1>2 DEF AportesA
<1>4. IsFiniteSet(Recibidas)
  BY ReportesSupuestos
<1> HIDE DEF g, k
<1>5. SumFunction(g) \in Int /\ SumFunction(k) = SumFunction(g) + (k[r] - g[r])
  BY <1>3, <1>4, SumaCambia
<1>6. SumFunction(k) = SumFunction(g) + (IF Retenida[r].venta = v THEN w ELSE 0)
  BY <1>3, <1>5
<1> QED BY <1>6 DEF g, k

\* The withheld column adds up what each withholding has done to it.
LEMMA RetenidoSigue ==
  ASSUME RepInv, Operacion
  PROVE  RetenidoSumado'
<1>0. RepTypeOK /\ CobrosPorEstado /\ RetenidoSumado
  BY DEF RepInv
<1> USE DEF comercio
<1>1. ASSUME recibida' = recibida, directas' = directas, \A v \in Ventas : cxc'[v].retenido = cxc[v].retenido
      PROVE  RetenidoSumado'
  <2>1. \A v \in Ventas : AportesA(v)' = AportesA(v)
    BY <1>1 DEF AportesA, Aporte
  <2> QED BY <1>0, <1>1, <2>1 DEF RetenidoSumado
<1>2. ASSUME NEW v \in Ventas, NEW b \in LasBodegas, EmitirVenta(v, b)
      PROVE  RetenidoSumado'
  <2>1. /\ cxc' = [cxc EXCEPT ![v] = Abierta(Monto(Factura[v]))] /\ recibida' = recibida /\ directas' = directas
        /\ venta[v].estado = "BORRADOR"
    BY <1>2 DEF EmitirVenta
  <2>2. cxc[v].retenido = 0 /\ Abierta(Monto(Factura[v])).retenido = 0
    BY <1>0, <2>1 DEF CobrosPorEstado, SinCuenta, Abierta
  <2>3. \A u \in Ventas : cxc'[u].retenido = cxc[u].retenido
    BY <1>0, <2>1, <2>2, CuentaEscrita
  <2> QED BY <1>1, <2>1, <2>3
<1>3. ASSUME NEW v \in Ventas, NEW b \in LasBodegas, AnularVenta(v, b)
      PROVE  RetenidoSumado'
  <2>1. cxc' = [cxc EXCEPT ![v].saldo = 0, ![v].estado = "ANULADA"] /\ recibida' = recibida /\ directas' = directas
    BY <1>3 DEF AnularVenta
  <2>2. \A u \in Ventas : cxc'[u].retenido = cxc[u].retenido
    BY <1>0, <2>1 DEF RepTypeOK, Cuentas
  <2> QED BY <1>1, <2>1, <2>2
<1>4. ASSUME NEW v \in Ventas, NEW n \in Montos, NEW forma, NEW f, RegistrarPago(v, n, forma, f)
      PROVE  RetenidoSumado'
  <2> DEFINE k == [cxc[v] EXCEPT !.pagos = @ + n]
  <2>1. cxc' = [cxc EXCEPT ![v] = Recalculada(k, Monto(Factura[v]))] /\ recibida' = recibida /\ directas' = directas
    BY <1>4 DEF RegistrarPago
  <2>2. cxc[v] \in Cuentas({"NINGUNA", "PENDIENTE", "PARCIAL", "PAGADA", "ANULADA"}) /\ n \in Nat
    BY <1>0, ReportesSupuestos DEF RepTypeOK
  <2>3. Recalculada(k, Monto(Factura[v])).retenido = cxc[v].retenido
    <3> HIDE DEF k
    <3>1. k.retenido = cxc[v].retenido
      BY <2>2, CuentaPagada DEF k
    <3>2. k \in [retenido : Int, pagos : Nat, saldo : Nat,
                 estado : {"NINGUNA", "PENDIENTE", "PARCIAL", "PAGADA", "ANULADA"}]
      BY <2>2, CuentaPagada DEF k
    <3>3. Recalculada(k, Monto(Factura[v])).retenido = k.retenido
      BY <3>2 DEF Recalculada
    <3> QED BY <3>1, <3>3
  <2>4. \A u \in Ventas : cxc'[u].retenido = cxc[u].retenido
    BY <1>0, <2>1, <2>3, CuentaEscrita
  <2> QED BY <1>1, <2>1, <2>4
<1>5. ASSUME NEW r \in Recibidas, NEW e \in {"BORRADOR", "APLICADA", "ANULADA"}, NEW f, CrearRecibida(r, e, f)
      PROVE  RetenidoSumado'
  <2>1. /\ recibida[r].estado = "NINGUNA" /\ recibida' = [recibida EXCEPT ![r] = [estado |-> e, fecha |-> f]]
        /\ directas' = (IF e = "APLICADA" THEN directas \cup {r} ELSE directas) /\ cxc' = cxc
    BY <1>5 DEF CrearRecibida
  <2>2. /\ recibida'[r].estado = e /\ \A q \in Recibidas \ {r} : recibida'[q] = recibida[q]
        /\ r \notin directas /\ directas \subseteq Recibidas
    BY <1>0, <2>1 DEF RepTypeOK, RetenidoSumado
  <2>3. /\ \A q \in Recibidas \ {r} : q \in directas' <=> q \in directas
        /\ r \in directas' <=> e = "APLICADA"
    BY <2>1, <2>2
  <2>4. Aporte(r)' = Aporte(r) + 0
    <3>1. Retenida[r].valor \in Int
      BY ReportesSupuestos
    <3> QED BY <2>1, <2>2, <2>3, <3>1 DEF Aporte
  <2>5. \A q \in Recibidas \ {r} : Aporte(q)' = Aporte(q)
    BY <2>2, <2>3 DEF Aporte
  <2>6. \A v \in Ventas : SumFunction(AportesA(v)') = SumFunction(AportesA(v)) + 0
    BY <2>4, <2>5, AporteCambia
  <2>7. \A v \in Ventas : cxc[v].retenido \in Int
    BY <1>0 DEF RepTypeOK, Cuentas
  <2>8. \A v \in Ventas : cxc'[v].retenido = SumFunction(AportesA(v)')
    BY <1>0, <2>1, <2>6, <2>7 DEF RetenidoSumado
  <2>9. \A q \in directas' : recibida'[q].estado \in {"APLICADA", "ANULADA"}
    BY <1>0, <2>1, <2>2, <2>3 DEF RetenidoSumado
  <2> QED BY <2>8, <2>9 DEF RetenidoSumado
<1>6. ASSUME NEW r \in Recibidas, NEW desde, NEW hasta, NEW w \in Int, MoverRecibida(r, desde, hasta, w),
             \/ desde = "BORRADOR" /\ hasta = "APLICADA" /\ w = Retenida[r].valor
             \/ desde = "APLICADA" /\ hasta = "ANULADA" /\ w = 0 - Retenida[r].valor
      PROVE  RetenidoSumado'
  <2> DEFINE v == Retenida[r].venta
             k == [cxc[v] EXCEPT !.retenido = @ + w]
  <2>1. /\ cxc' = [cxc EXCEPT ![v] = Recalculada(k, Monto(Factura[v]))] /\ directas' = directas
        /\ recibida[r].estado = desde /\ recibida' = [recibida EXCEPT ![r].estado = hasta]
    BY <1>6 DEF MoverRecibida
  <2>2. v \in Ventas /\ cxc[v] \in Cuentas({"NINGUNA", "PENDIENTE", "PARCIAL", "PAGADA", "ANULADA"})
    BY <1>0, ReportesSupuestos DEF RepTypeOK
  <2>3. recibida'[r].estado = hasta /\ \A q \in Recibidas \ {r} : recibida'[q] = recibida[q]
    BY <1>0, <2>1 DEF RepTypeOK
  <2>4. Aporte(r)' = Aporte(r) + w
    <3>1. Retenida[r].valor \in Int
      BY ReportesSupuestos
    <3>2. desde = "BORRADOR" => r \notin directas
      BY <1>0, <2>1 DEF RetenidoSumado
    <3> QED BY <1>6, <2>1, <2>3, <3>1, <3>2 DEF Aporte
  <2>5. \A q \in Recibidas \ {r} : Aporte(q)' = Aporte(q)
    BY <2>1, <2>3 DEF Aporte
  <2>6. \A u \in Ventas : SumFunction(AportesA(u)') = SumFunction(AportesA(u)) + (IF v = u THEN w ELSE 0)
    BY <2>4, <2>5, AporteCambia
  <2> HIDE DEF v
  <2>7. cxc'[v].retenido = cxc[v].retenido + w /\ \A u \in Ventas \ {v} : cxc'[u] = cxc[u]
    <3> HIDE DEF k
    <3>1. k.retenido = cxc[v].retenido + w
      BY <2>2, CuentaRetenida DEF k
    <3>2. k \in [retenido : Int, pagos : Nat, saldo : Nat,
                 estado : {"NINGUNA", "PENDIENTE", "PARCIAL", "PAGADA", "ANULADA"}]
      BY <2>2, CuentaRetenida DEF k
    <3>3. Recalculada(k, Monto(Factura[v])).retenido = k.retenido
      BY <3>2 DEF Recalculada
    <3> QED BY <1>0, <2>1, <2>2, <3>1, <3>3, CuentaEscrita
  <2>8. \A u \in Ventas : cxc[u].retenido \in Int
    BY <1>0 DEF RepTypeOK, Cuentas
  <2>9. \A u \in Ventas : cxc'[u].retenido = SumFunction(AportesA(u)')
    BY <1>0, <2>6, <2>7, <2>8 DEF RetenidoSumado
  <2>10. \A q \in directas' : recibida'[q].estado \in {"APLICADA", "ANULADA"}
    BY <1>0, <1>6, <2>1, <2>3 DEF RetenidoSumado, RepTypeOK
  <2> QED BY <2>9, <2>10 DEF RetenidoSumado
<1>7. \A r \in Recibidas : Retenida[r].valor \in Int /\ 0 - Retenida[r].valor \in Int
  BY ReportesSupuestos
<1>8. ASSUME NEW v \in Ventas, NEW f, RegistrarVenta(v, f)
      PROVE  RetenidoSumado'
  BY <1>1, <1>8 DEF RegistrarVenta
<1>9. CASE UNCHANGED comercio
  BY <1>1, <1>9
<1> QED
  BY <1>2, <1>3, <1>4, <1>5, <1>6, <1>7, <1>8, <1>9, QuienCobra DEF AplicarRecibida, AnularRecibida

\* Which operations write purchases, their accounts, what was withheld of them, or documents.
LEMMA QuienPaga ==
  ASSUME Operacion
  PROVE  \/ UNCHANGED <<abasto, documento>>
         \/ \E v \in Ventas, b \in LasBodegas : EmitirVenta(v, b)
         \/ \E c \in Compras, f \in {hoy} \cup Fechas : RegistrarCompra(c, f)
         \/ \E c \in Compras : AnularCompra(c)
         \/ \E c \in Compras, n \in Montos : PagarCompra(c, n)
         \/ \E c \in Compras : CrearRetencion(c)
         \/ \E c \in Compras, encolar \in BOOLEAN : EmitirRetencion(c, encolar)
         \/ \E d \in Documentos, e \in {"AUTORIZADO", "RECHAZADO"} : Responder(d, e)
<1>1. \A v \in Ventas : \A f : RegistrarVenta(v, f) => UNCHANGED <<abasto, documento>>
  BY DEF RegistrarVenta
<1>2. \A v \in Ventas, b \in LasBodegas : AnularVenta(v, b) => UNCHANGED <<abasto, documento>>
  BY DEF AnularVenta
<1>3. \A v \in Ventas : \A n, forma, f : RegistrarPago(v, n, forma, f) => UNCHANGED <<abasto, documento>>
  BY DEF RegistrarPago
<1>4. \A r \in Recibidas : \A e, f : CrearRecibida(r, e, f) => UNCHANGED <<abasto, documento>>
  BY DEF CrearRecibida
<1>5. \A r \in Recibidas : AplicarRecibida(r) \/ AnularRecibida(r) => UNCHANGED <<abasto, documento>>
  BY DEF AplicarRecibida, AnularRecibida, MoverRecibida
<1>6. \A a, n, b, d, f : TransferirEntreBodegas(a, n, b, d, f) => UNCHANGED <<abasto, documento>>
  BY DEF TransferirEntreBodegas
<1>7. \A k : AnularMovimiento(k) => UNCHANGED <<abasto, documento>>
  BY DEF AnularMovimiento
<1>8. (\E x : Eliminar(x)) \/ Amanecer => UNCHANGED <<abasto, documento>>
  BY DEF Eliminar, Amanecer
<1> QED BY <1>1, <1>2, <1>3, <1>4, <1>5, <1>6, <1>7, <1>8 DEF Operacion

\* The account payable and what was withheld.
LEMMA PagosPorEstadoSigue ==
  ASSUME RepInv, Operacion
  PROVE  PagosPorEstado'
<1>0. RepTypeOK /\ PagosPorEstado /\ DocumentosPorEstado
  BY DEF RepInv
<1> USE DEF abasto
<1>1. CASE UNCHANGED abasto
  BY <1>0, <1>1 DEF PagosPorEstado
<1>2. ASSUME NEW c \in Compras, NEW f, RegistrarCompra(c, f)
      PROVE  PagosPorEstado'
  <2>1. /\ compra[c].estado = "NINGUNA" /\ compra' = [compra EXCEPT ![c] = [estado |-> "REGISTRADA", fecha |-> f]]
        /\ cxp' = [cxp EXCEPT ![c] = Abierta(Monto(Adquisicion[c]))] /\ emitida' = emitida
    BY <1>2 DEF RegistrarCompra
  <2>2. /\ compra'[c].estado = "REGISTRADA" /\ \A d \in Compras \ {c} : compra'[d] = compra[d]
        /\ cxp'[c] = Abierta(Monto(Adquisicion[c])) /\ \A d \in Compras \ {c} : cxp'[d] = cxp[d]
    BY <1>0, <2>1 DEF RepTypeOK
  <2>3. /\ CuentaAbierta(Abierta(Monto(Adquisicion[c])), Monto(Adquisicion[c]))
        /\ Abierta(Monto(Adquisicion[c])).retenido = 0
    <3>1. Monto(Adquisicion[c]) \in Nat
      BY MontoNatural, ReportesSupuestos
    <3> QED BY <3>1 DEF Abierta, CuentaAbierta
  <2>4. emitida[c] = "NINGUNA"
    BY <1>0, <2>1 DEF PagosPorEstado
  <2> QED BY <1>0, <2>1, <2>2, <2>3, <2>4 DEF PagosPorEstado
<1>3. ASSUME NEW c \in Compras, AnularCompra(c)
      PROVE  PagosPorEstado'
  <2>1. /\ compra[c].estado = "REGISTRADA" /\ compra' = [compra EXCEPT ![c].estado = "ANULADA"]
        /\ cxp' = cxp /\ emitida' = emitida
    BY <1>3 DEF AnularCompra
  <2>2. compra'[c].estado = "ANULADA" /\ \A d \in Compras \ {c} : compra'[d] = compra[d]
    BY <1>0, <2>1 DEF RepTypeOK
  <2> QED BY <1>0, <2>1, <2>2 DEF PagosPorEstado
<1>4. ASSUME NEW c \in Compras, NEW n \in Montos, PagarCompra(c, n)
      PROVE  PagosPorEstado'
  <2> DEFINE k == [cxp[c] EXCEPT !.pagos = @ + n]
             total == Monto(Adquisicion[c])
  <2>1. /\ cxp' = [cxp EXCEPT ![c] = Recalculada(k, total)] /\ compra' = compra /\ emitida' = emitida
        /\ cxp[c].estado \notin {"NINGUNA", "ANULADA"} /\ n <= cxp[c].saldo
    BY <1>4 DEF PagarCompra
  <2>2. cxp[c] \in Cuentas({"NINGUNA", "PENDIENTE", "PARCIAL", "PAGADA"}) /\ n \in Nat /\ total \in Nat
    BY <1>0, MontoNatural, ReportesSupuestos DEF RepTypeOK
  <2>3. compra[c].estado # "NINGUNA" /\ CuentaAbierta(cxp[c], total)
    BY <1>0, <2>1 DEF PagosPorEstado, SinCuenta
  <2>4. CuentaAbierta(Recalculada(k, total), total) /\ Recalculada(k, total).retenido = cxp[c].retenido
    <3>1. {cxp[c].saldo, cxp[c].retenido, cxp[c].pagos} \subseteq Int
      BY <2>2 DEF Cuentas
    <3> HIDE DEF total
    <3>2. total - cxp[c].retenido - (cxp[c].pagos + n) >= 0
      BY <2>1, <2>2, <2>3, <3>1 DEF CuentaAbierta
    <3> HIDE DEF k
    <3>3. /\ k \in [retenido : Int, pagos : Nat, saldo : Nat,
                    estado : {"NINGUNA", "PENDIENTE", "PARCIAL", "PAGADA"}]
          /\ k.retenido = cxp[c].retenido /\ k.pagos = cxp[c].pagos + n
      BY <2>2, CuentaPagada DEF k
    <3>4. total - k.retenido - k.pagos >= 0
      BY <3>2, <3>3
    <3>5. total \in Int
      BY <2>2
    <3>6. CuentaAbierta(Recalculada(k, total), total) /\ Recalculada(k, total).retenido = k.retenido
      BY <3>3, <3>4, <3>5, RecalculadaAbierta
    <3> QED BY <3>3, <3>6
  <2>5. cxp'[c] = Recalculada(k, total) /\ \A d \in Compras \ {c} : cxp'[d] = cxp[d]
    BY <1>0, <2>1 DEF RepTypeOK
  <2> HIDE DEF k, total
  <2>6. CuentaAbierta(cxp'[c], total) /\ cxp'[c].retenido = cxp[c].retenido
    BY <2>4, <2>5
  <2> QED BY <1>0, <2>1, <2>3, <2>5, <2>6 DEF PagosPorEstado, total
<1>5. ASSUME NEW c \in Compras, CrearRetencion(c)
      PROVE  PagosPorEstado'
  <2>1. /\ emitida[c] = "NINGUNA" /\ emitida' = [emitida EXCEPT ![c] = "REGISTRADA"]
        /\ compra[c].estado # "NINGUNA" /\ compra' = compra /\ cxp' = cxp
    BY <1>5 DEF CrearRetencion
  <2>2. emitida'[c] = "REGISTRADA" /\ \A d \in Compras \ {c} : emitida'[d] = emitida[d]
    BY <1>0, <2>1 DEF RepTypeOK
  <2> QED BY <1>0, <2>1, <2>2 DEF PagosPorEstado
<1>6. ASSUME NEW c \in Compras, NEW encolar \in BOOLEAN, EmitirRetencion(c, encolar)
      PROVE  PagosPorEstado'
  <2> DEFINE k == [cxp[c] EXCEPT !.retenido = @ + Adquisicion[c].retencion]
             total == Monto(Adquisicion[c])
  <2>1. /\ cxp' = [cxp EXCEPT ![c] = Recalculada(k, total)] /\ compra' = compra
        /\ emitida' = [emitida EXCEPT ![c] = IF encolar THEN "ENCOLADA" ELSE "EMITIDA"]
        /\ emitida[c] = "REGISTRADA" /\ Recalculada(k, total).saldo >= 0
    BY <1>6 DEF EmitirRetencion
  <2>2. /\ cxp[c] \in Cuentas({"NINGUNA", "PENDIENTE", "PARCIAL", "PAGADA"}) /\ total \in Nat
        /\ Adquisicion[c].retencion \in Nat
    BY <1>0, MontoNatural, ReportesSupuestos DEF RepTypeOK
  <2>3. compra[c].estado # "NINGUNA" /\ cxp[c].retenido = 0
    BY <1>0, <2>1 DEF PagosPorEstado
  <2>4. CuentaAbierta(Recalculada(k, total), total) /\ Recalculada(k, total).retenido = Adquisicion[c].retencion
    <3> HIDE DEF k, total
    <3>1. /\ k \in [retenido : Int, pagos : Nat, saldo : Nat,
                    estado : {"NINGUNA", "PENDIENTE", "PARCIAL", "PAGADA"}]
          /\ k.retenido = Adquisicion[c].retencion
      <4>1. k.retenido = cxp[c].retenido + Adquisicion[c].retencion
        BY <2>2, CuentaRetenida DEF k
      <4>2. k \in [retenido : Int, pagos : Nat, saldo : Nat,
                   estado : {"NINGUNA", "PENDIENTE", "PARCIAL", "PAGADA"}]
        BY <2>2, CuentaRetenida DEF k
      <4> QED BY <2>2, <2>3, <4>1, <4>2
    <3>2. total - k.retenido - k.pagos >= 0
      BY <2>1, <3>1, RecalculadaSaldo
    <3> QED BY <2>2, <3>1, <3>2, RecalculadaAbierta
  <2>5. /\ cxp'[c] = Recalculada(k, total) /\ \A d \in Compras \ {c} : cxp'[d] = cxp[d]
        /\ emitida'[c] \in {"ENCOLADA", "EMITIDA"} /\ \A d \in Compras \ {c} : emitida'[d] = emitida[d]
    BY <1>0, <2>1 DEF RepTypeOK
  <2> HIDE DEF k, total
  <2>6. CuentaAbierta(cxp'[c], total) /\ cxp'[c].retenido = Adquisicion[c].retencion
    BY <2>4, <2>5
  <2> QED BY <1>0, <2>1, <2>3, <2>5, <2>6 DEF PagosPorEstado, total
<1>7. ASSUME NEW d \in Documentos, NEW e \in {"AUTORIZADO", "RECHAZADO"}, Responder(d, e)
      PROVE  PagosPorEstado'
  <2>1. /\ documento[d].estado = "EN_COLA" /\ compra' = compra /\ cxp' = cxp
        /\ emitida' = IF d \in Compras /\ e = "AUTORIZADO" THEN [emitida EXCEPT ![d] = "EMITIDA"] ELSE emitida
    BY <1>7 DEF Responder
  <2>2. d \in Compras => emitida[d] \in {"ENCOLADA", "EMITIDA"}
    BY <1>0, <2>1 DEF DocumentosPorEstado
  <2>3. \A c \in Compras : /\ emitida'[c] \in {"ENCOLADA", "EMITIDA"} <=> emitida[c] \in {"ENCOLADA", "EMITIDA"}
                           /\ emitida[c] = "NINGUNA" => emitida'[c] = "NINGUNA"
    BY <1>0, <2>1, <2>2 DEF RepTypeOK
  <2> QED BY <1>0, <2>1, <2>3 DEF PagosPorEstado
<1>8. ASSUME NEW v \in Ventas, NEW b, EmitirVenta(v, b)
      PROVE  PagosPorEstado'
  <2>1. UNCHANGED abasto
    BY <1>8 DEF EmitirVenta
  <2> QED BY <1>1, <2>1
<1> QED BY <1>1, <1>2, <1>3, <1>4, <1>5, <1>6, <1>7, <1>8, QuienPaga

\* Which rows have an electronic document.
LEMMA DocumentosSiguen ==
  ASSUME RepInv, Operacion
  PROVE  DocumentosPorEstado'
<1>0. RepTypeOK /\ DocumentosPorEstado /\ Ventas \cap Compras = {}
  BY ReportesSupuestos DEF RepInv
<1> USE DEF comercio, abasto
<1>1. ASSUME UNCHANGED <<documento, emitida>>,
             \A v \in Ventas : venta'[v].estado \in {"EMITIDA", "ANULADA"} <=> venta[v].estado \in {"EMITIDA", "ANULADA"}
      PROVE  DocumentosPorEstado'
  BY <1>0, <1>1 DEF DocumentosPorEstado
<1>2. ASSUME NEW v \in Ventas, NEW b, EmitirVenta(v, b)
      PROVE  DocumentosPorEstado'
  <2>1. /\ venta[v].estado = "BORRADOR" /\ venta' = [venta EXCEPT ![v].estado = "EMITIDA"] /\ emitida' = emitida
        /\ documento' = IF Factura[v].electronica
                        THEN [documento EXCEPT ![v] = [estado |-> "EN_COLA", dia |-> hoy]] ELSE documento
    BY <1>2 DEF EmitirVenta
  <2>2. venta'[v].estado = "EMITIDA" /\ \A u \in Ventas \ {v} : venta'[u] = venta[u]
    BY <1>0, <2>1 DEF RepTypeOK
  <2>3. /\ Factura[v].electronica => documento'[v].estado = "EN_COLA"
        /\ ~Factura[v].electronica => documento'[v] = documento[v]
        /\ \A d \in Documentos \ {v} : documento'[d] = documento[d]
    BY <1>0, <2>1 DEF RepTypeOK, Documentos
  <2>4. \A u \in Ventas : documento'[u].estado # "NINGUNO" <=>
                            Factura[u].electronica /\ venta'[u].estado \in {"EMITIDA", "ANULADA"}
    BY <1>0, <2>2, <2>3 DEF DocumentosPorEstado, Documentos
  <2>5. \A c \in Compras : documento'[c] = documento[c]
    BY <1>0, <2>3 DEF Documentos
  <2> QED BY <1>0, <2>1, <2>4, <2>5 DEF DocumentosPorEstado
<1>3. ASSUME NEW c \in Compras, CrearRetencion(c)
      PROVE  DocumentosPorEstado'
  <2>1. /\ emitida[c] = "NINGUNA" /\ emitida' = [emitida EXCEPT ![c] = "REGISTRADA"]
        /\ venta' = venta /\ documento' = documento
    BY <1>3 DEF CrearRetencion
  <2>2. emitida'[c] = "REGISTRADA" /\ \A d \in Compras \ {c} : emitida'[d] = emitida[d]
    BY <1>0, <2>1 DEF RepTypeOK
  <2> QED BY <1>0, <2>1, <2>2 DEF DocumentosPorEstado
<1>4. ASSUME NEW c \in Compras, NEW encolar \in BOOLEAN, EmitirRetencion(c, encolar)
      PROVE  DocumentosPorEstado'
  <2>1. /\ emitida[c] = "REGISTRADA" /\ venta' = venta
        /\ emitida' = [emitida EXCEPT ![c] = IF encolar THEN "ENCOLADA" ELSE "EMITIDA"]
        /\ documento' = IF encolar THEN [documento EXCEPT ![c] = [estado |-> "EN_COLA", dia |-> hoy]] ELSE documento
    BY <1>4 DEF EmitirRetencion
  <2>2. /\ emitida'[c] = (IF encolar THEN "ENCOLADA" ELSE "EMITIDA")
        /\ \A d \in Compras \ {c} : emitida'[d] = emitida[d]
    BY <1>0, <2>1 DEF RepTypeOK
  <2>3. /\ encolar => documento'[c].estado = "EN_COLA"
        /\ ~encolar => documento' = documento
        /\ \A d \in Documentos \ {c} : documento'[d] = documento[d]
    BY <1>0, <2>1 DEF RepTypeOK, Documentos
  <2>4. \A v \in Ventas : documento'[v] = documento[v]
    BY <1>0, <2>3 DEF Documentos
  <2>5. \A d \in Compras \ {c} : documento'[d] = documento[d]
    BY <2>3 DEF Documentos
  <2>6. documento[c].estado = "NINGUNO"
    BY <1>0, <2>1 DEF DocumentosPorEstado
  <2> QED BY <1>0, <2>1, <2>2, <2>3, <2>4, <2>5, <2>6 DEF DocumentosPorEstado
<1>5. ASSUME NEW d \in Documentos, NEW e \in {"AUTORIZADO", "RECHAZADO"}, Responder(d, e)
      PROVE  DocumentosPorEstado'
  <2>1. /\ documento[d].estado = "EN_COLA" /\ documento' = [documento EXCEPT ![d].estado = e] /\ venta' = venta
        /\ emitida' = IF d \in Compras /\ e = "AUTORIZADO" THEN [emitida EXCEPT ![d] = "EMITIDA"] ELSE emitida
    BY <1>5 DEF Responder
  <2>2. documento'[d].estado = e /\ \A x \in Documentos \ {d} : documento'[x] = documento[x]
    BY <1>0, <2>1 DEF RepTypeOK
  <2>3. \A c \in Compras : emitida'[c] = IF c = d /\ e = "AUTORIZADO" THEN "EMITIDA" ELSE emitida[c]
    BY <1>0, <2>1 DEF RepTypeOK
  <2>4. \A v \in Ventas : documento'[v].estado # "NINGUNO" <=> documento[v].estado # "NINGUNO"
    BY <2>1, <2>2 DEF Documentos
  <2>5. ASSUME NEW c \in Compras
        PROVE  /\ documento'[c].estado # "NINGUNO" => emitida'[c] \in {"ENCOLADA", "EMITIDA"}
               /\ emitida'[c] = "ENCOLADA" => documento'[c].estado \in {"EN_COLA", "RECHAZADO"}
    <3>1. c \in Documentos
      BY DEF Documentos
    <3>2. CASE c = d
      BY <1>0, <2>1, <2>2, <2>3, <3>2 DEF DocumentosPorEstado
    <3>3. CASE c # d
      BY <1>0, <2>2, <2>3, <3>1, <3>3 DEF DocumentosPorEstado
    <3> QED BY <3>2, <3>3
  <2> QED BY <1>0, <2>1, <2>4, <2>5 DEF DocumentosPorEstado
<1>6. ASSUME NEW v \in Ventas, NEW f, RegistrarVenta(v, f)
      PROVE  DocumentosPorEstado'
  <2>1. /\ venta[v].estado = "NINGUNA" /\ venta' = [venta EXCEPT ![v] = [estado |-> "BORRADOR", fecha |-> f]]
        /\ UNCHANGED <<documento, emitida>>
    BY <1>6 DEF RegistrarVenta
  <2>2. venta'[v].estado = "BORRADOR" /\ \A u \in Ventas \ {v} : venta'[u] = venta[u]
    BY <1>0, <2>1 DEF RepTypeOK
  <2> QED BY <1>1, <2>1, <2>2
<1>7. ASSUME NEW v \in Ventas, NEW b, AnularVenta(v, b)
      PROVE  DocumentosPorEstado'
  <2>1. /\ venta[v].estado = "EMITIDA" /\ venta' = [venta EXCEPT ![v].estado = "ANULADA"]
        /\ UNCHANGED <<documento, emitida>>
    BY <1>7 DEF AnularVenta
  <2>2. venta'[v].estado = "ANULADA" /\ \A u \in Ventas \ {v} : venta'[u] = venta[u]
    BY <1>0, <2>1 DEF RepTypeOK
  <2> QED BY <1>1, <2>1, <2>2
<1>8. CASE UNCHANGED <<venta, documento, emitida>>
  BY <1>1, <1>8
<1> QED
  BY <1>2, <1>3, <1>4, <1>5, <1>6, <1>7, <1>8
  DEF Operacion, RegistrarPago, CrearRecibida, AplicarRecibida, AnularRecibida, MoverRecibida, RegistrarCompra,
      AnularCompra, PagarCompra, TransferirEntreBodegas, AnularMovimiento, Eliminar, Amanecer

\* A movement more adds its effect where it was made, and nowhere else.
LEMMA EfectosCrecen ==
  ASSUME NEW s \in Seq(Asientos), NEW m \in Asientos, NEW b, NEW a
  PROVE  /\ SumFunction(EfectosEn(s, b, a)) \in Int
         /\ SumFunction(EfectosEn(Append(s, m), b, a)) =
              SumFunction(EfectosEn(s, b, a)) + (IF m.bodega = b /\ m.articulo = a THEN Efecto(m) ELSE 0)
<1> DEFINE N == Len(s)
           z == Append(s, m)
           g == EfectosEn(s, b, a)
           f == EfectosEn(z, b, a)
<1>1. /\ N \in Nat /\ DOMAIN s = 1..N /\ DOMAIN z = 1..(N + 1)
      /\ z[N + 1] = m /\ \A i \in 1..N : z[i] = s[i] /\ s[i] \in Asientos
  OBVIOUS
<1>2. \A i \in 1..N : Efecto(s[i]) \in Int
  BY <1>1, EfectoEntero
<1>3. Efecto(m) \in Int
  BY EfectoEntero
<1> HIDE DEF N, z
<1>4. \A i \in 1..(N + 1) : i \in 1..N \/ i = N + 1
  BY <1>1
<1>5. N + 1 \in 1..(N + 1) /\ 1..N \subseteq 1..(N + 1)
  BY <1>1
<1>6. g = [i \in 1..N |-> IF s[i].bodega = b /\ s[i].articulo = a THEN Efecto(s[i]) ELSE 0]
  BY <1>1 DEF EfectosEn
<1>7. f = [i \in 1..(N + 1) |-> IF z[i].bodega = b /\ z[i].articulo = a THEN Efecto(z[i]) ELSE 0]
  BY <1>1 DEF EfectosEn
<1>8. f[N + 1] = IF m.bodega = b /\ m.articulo = a THEN Efecto(m) ELSE 0
  BY <1>1, <1>5, <1>7
<1> HIDE DEF g, f
<1>9. \A i \in 1..N : g[i] \in Int /\ f[i] = g[i]
  BY <1>1, <1>2, <1>5, <1>6, <1>7
<1>10. f[N + 1] \in Int
  BY <1>3, <1>8
<1>11. g \in [1..N -> Int] /\ f \in [1..(N + 1) -> Int]
  <2>1. \A i \in 1..(N + 1) : f[i] \in Int
    BY <1>4, <1>9, <1>10
  <2> QED BY <1>6, <1>7, <1>9, <2>1
<1>12. SumFunction(f) = SumFunction(g) + f[N + 1] /\ SumFunction(g) \in Int
  BY <1>1, <1>9, <1>11, SumaAlFinal
<1> QED BY <1>8, <1>12 DEF f, g, z

\* The stock of each place after something was added there.
LEMMA ExistenciaEscrita ==
  ASSUME NEW e \in [LasBodegas \X Articulos -> Nat], NEW b \in LasBodegas, NEW a \in Articulos, NEW w \in Int,
         NEW x \in LasBodegas, NEW y \in Articulos
  PROVE  [e EXCEPT ![<<b, a>>] = @ + w][<<x, y>>] = e[<<x, y>>] + (IF b = x /\ a = y THEN w ELSE 0)
<1>1. e[<<x, y>>] \in Int /\ <<b, a>> \in LasBodegas \X Articulos /\ <<x, y>> \in LasBodegas \X Articulos
  OBVIOUS
<1>2. CASE b = x /\ a = y
  BY <1>1, <1>2
<1>3. CASE ~(b = x /\ a = y)
  <2>1. <<b, a>> # <<x, y>>
    BY <1>3
  <2> QED BY <1>1, <1>3, <2>1
<1> QED BY <1>2, <1>3

\* A confirmed movement keeps the stock equal to what the movements did.
LEMMA StockConfirmado ==
  ASSUME RepTypeOK, StockSumado, NEW m \in Asientos, ConfirmarMovimiento(m)
  PROVE  StockSumado'
<1>1. /\ existencia' = [existencia EXCEPT ![<<m.bodega, m.articulo>>] = @ + Efecto(m)]
      /\ movimientos' = Append(movimientos, m)
  BY DEF ConfirmarMovimiento
<1>2. /\ movimientos \in Seq(Asientos) /\ existencia \in [LasBodegas \X Articulos -> Nat]
      /\ m.bodega \in LasBodegas /\ m.articulo \in Articulos /\ Efecto(m) \in Int
  BY EfectoEntero DEF RepTypeOK, Asientos
<1>3. ASSUME NEW b \in LasBodegas, NEW a \in Articulos
      PROVE  existencia'[<<b, a>>] = SumFunction(EfectosEn(movimientos', b, a))
  <2>1. existencia'[<<b, a>>] = existencia[<<b, a>>] + (IF m.bodega = b /\ m.articulo = a THEN Efecto(m) ELSE 0)
    BY <1>1, <1>2, ExistenciaEscrita
  <2>2. SumFunction(EfectosEn(movimientos', b, a)) =
          SumFunction(EfectosEn(movimientos, b, a)) + (IF m.bodega = b /\ m.articulo = a THEN Efecto(m) ELSE 0)
    BY <1>1, <1>2, EfectosCrecen
  <2> QED BY <2>1, <2>2 DEF StockSumado
<1> QED BY <1>3 DEF StockSumado

\* Who moves stock, and how: one movement confirmed, a transfer, or a movement annulled.
LEMMA QuienMueve ==
  ASSUME RepTypeOK, Operacion
  PROVE  \/ UNCHANGED bodegaje
         \/ \E m \in Asientos : ConfirmarMovimiento(m) /\ SalidaBien(m)
         \/ \E a \in Articulos, n \in Montos, b, d \in LasBodegas, f \in Dias : TransferirEntreBodegas(a, n, b, d, f)
         \/ \E k \in DOMAIN movimientos : AnularMovimiento(k)
<1> DEFINE Meta == \E m \in Asientos : ConfirmarMovimiento(m) /\ SalidaBien(m)
<1>0. hoy \in Dias
  BY DEF RepTypeOK
<1>1. ASSUME NEW v \in Ventas, NEW b \in LasBodegas, EmitirVenta(v, b)
      PROVE  Meta
  <2> DEFINE m == NuevoMovimiento("EGRESO", Factura[v].articulo, Factura[v].cantidad, b, "VENTA", v, hoy)
  <2>1. m \in Asientos
    BY <1>0, NuevoEsAsiento, ReportesSupuestos DEF Importes, Documentos
  <2>2. ConfirmarMovimiento(m)
    BY <1>1 DEF EmitirVenta
  <2>3. SalidaBien(m)
    BY DEF NuevoMovimiento, SalidaBien
  <2> HIDE DEF m
  <2> QED BY <2>1, <2>2, <2>3
<1>2. ASSUME NEW v \in Ventas, NEW b \in LasBodegas, AnularVenta(v, b)
      PROVE  Meta
  <2> DEFINE m == NuevoMovimiento("AJUSTE", Factura[v].articulo, Factura[v].cantidad, b, "ANULACION_VENTA", v, hoy)
  <2>1. m \in Asientos
    BY <1>0, NuevoEsAsiento, ReportesSupuestos DEF Importes, Documentos
  <2>2. ConfirmarMovimiento(m)
    BY <1>2 DEF AnularVenta
  <2>3. SalidaBien(m)
    BY DEF NuevoMovimiento, SalidaBien
  <2> HIDE DEF m
  <2> QED BY <2>1, <2>2, <2>3
<1>3. ASSUME NEW c \in Compras, NEW f, RegistrarCompra(c, f)
      PROVE  Meta
  <2> DEFINE x == Adquisicion[c]
             m == NuevoMovimiento("INGRESO", x.articulo, x.cantidad, x.bodega, "COMPRA", c, hoy)
  <2>1. m \in Asientos
    BY <1>0, NuevoEsAsiento, ReportesSupuestos DEF Importes, Documentos
  <2>2. ConfirmarMovimiento(m)
    BY <1>3 DEF RegistrarCompra
  <2>3. SalidaBien(m)
    BY DEF NuevoMovimiento, SalidaBien
  <2> HIDE DEF m
  <2> QED BY <2>1, <2>2, <2>3
<1>4. ASSUME NEW c \in Compras, AnularCompra(c)
      PROVE  Meta
  <2> DEFINE x == Adquisicion[c]
             m(k) == NuevoMovimiento("EGRESO", x.articulo, x.cantidad, movimientos[k].bodega, "ANULACION_COMPRA", c, hoy)
  <2>1. PICK k \in Hay("COMPRA", c) : ConfirmarMovimiento(m(k))
    BY <1>4 DEF AnularCompra
  <2>2. movimientos[k] \in Asientos
    BY DEF Hay, RepTypeOK
  <2>3. m(k) \in Asientos
    <3>1. movimientos[k].bodega \in LasBodegas
      BY <2>2 DEF Asientos
    <3> QED BY <1>0, <3>1, NuevoEsAsiento, ReportesSupuestos DEF Importes, Documentos
  <2>4. SalidaBien(m(k))
    BY DEF NuevoMovimiento, SalidaBien
  <2> HIDE DEF m
  <2> QED BY <2>1, <2>3, <2>4
<1>5. \A f \in {hoy} \cup Fechas : f \in Dias
  BY FechaDia
<1> HIDE DEF Meta
<1>6. \/ UNCHANGED bodegaje \/ Meta
      \/ \E a \in Articulos, n \in Montos, b, d \in LasBodegas, f \in {hoy} \cup Fechas : TransferirEntreBodegas(a, n, b, d, f)
      \/ \E k \in DOMAIN movimientos : AnularMovimiento(k)
  BY <1>1, <1>2, <1>3, <1>4
  DEF Operacion, RegistrarVenta, RegistrarPago, CrearRecibida, AplicarRecibida, AnularRecibida,
      MoverRecibida, PagarCompra, CrearRetencion, EmitirRetencion, Responder, Eliminar, Amanecer
<1> QED BY <1>5, <1>6 DEF Meta

\* The stock is what all movements did.
LEMMA StockSigue ==
  ASSUME RepInv, Operacion
  PROVE  StockSumado'
<1>0. RepTypeOK /\ StockSumado
  BY DEF RepInv
<1>1. CASE UNCHANGED bodegaje
  BY <1>0, <1>1 DEF StockSumado, bodegaje
<1>2. ASSUME NEW m \in Asientos, ConfirmarMovimiento(m)
      PROVE  StockSumado'
  BY <1>0, <1>2, StockConfirmado
<1>3. ASSUME NEW a \in Articulos, NEW n \in Montos, NEW b \in LasBodegas, NEW d \in LasBodegas, NEW f \in Dias,
             TransferirEntreBodegas(a, n, b, d, f)
      PROVE  StockSumado'
  <2> DEFINE s == NuevoMovimiento("TRANSFERENCIA", a, n, b, "TRANSFERENCIA", a, f)
             e == NuevoMovimiento("INGRESO", a, n, d, "TRANSFERENCIA", a, f)
  <2>1. n \in Nat /\ s \in Asientos /\ e \in Asientos
    BY NuevoEsAsiento, ReportesSupuestos
  <2>2. /\ s.bodega = b /\ s.articulo = a /\ Efecto(s) = 0 - n
        /\ e.bodega = d /\ e.articulo = a /\ Efecto(e) = n
    BY <2>1 DEF NuevoMovimiento, Efecto, EsSalida
  <2>3. /\ b # d /\ existencia' = [existencia EXCEPT ![<<b, a>>] = @ - n, ![<<d, a>>] = @ + n]
        /\ movimientos' = movimientos \o <<s, e>> /\ existencia[<<b, a>>] >= n
    BY <1>3 DEF TransferirEntreBodegas
  <2> HIDE DEF s, e
  <2>4. movimientos \in Seq(Asientos) /\ existencia \in [LasBodegas \X Articulos -> Nat]
    BY <1>0 DEF RepTypeOK
  <2>5. movimientos' = Append(Append(movimientos, s), e) /\ Append(movimientos, s) \in Seq(Asientos)
    BY <2>1, <2>3, <2>4
  <2>6. ASSUME NEW x \in LasBodegas, NEW y \in Articulos
        PROVE  existencia'[<<x, y>>] = SumFunction(EfectosEn(movimientos', x, y))
    <3>1. existencia'[<<x, y>>] = existencia[<<x, y>>] + (IF b = x /\ a = y THEN 0 - n ELSE 0)
                                                       + (IF d = x /\ a = y THEN n ELSE 0)
      <4>1. existencia[<<x, y>>] \in Int /\ <<b, a>> # <<d, a>> /\ <<x, y>> \in LasBodegas \X Articulos
            /\ <<b, a>> \in LasBodegas \X Articulos /\ <<d, a>> \in LasBodegas \X Articulos
        BY <2>3, <2>4
      <4>2. CASE <<x, y>> = <<b, a>>
        BY <2>1, <2>3, <2>4, <4>1, <4>2
      <4>3. CASE <<x, y>> = <<d, a>>
        BY <2>1, <2>3, <2>4, <4>1, <4>3
      <4>4. CASE <<x, y>> # <<b, a>> /\ <<x, y>> # <<d, a>>
        BY <2>1, <2>3, <2>4, <4>1, <4>4
      <4> QED BY <4>2, <4>3, <4>4
    <3>2. /\ SumFunction(EfectosEn(movimientos, x, y)) \in Int
          /\ SumFunction(EfectosEn(Append(movimientos, s), x, y)) =
               SumFunction(EfectosEn(movimientos, x, y)) + (IF b = x /\ a = y THEN 0 - n ELSE 0)
      BY <2>1, <2>2, <2>4, EfectosCrecen
    <3>3. SumFunction(EfectosEn(movimientos', x, y)) =
            SumFunction(EfectosEn(Append(movimientos, s), x, y)) + (IF d = x /\ a = y THEN n ELSE 0)
      <4> DEFINE z == Append(movimientos, s)
      <4>1. z \in Seq(Asientos) /\ movimientos' = Append(z, e)
        BY <2>5
      <4> HIDE DEF z
      <4>2. SumFunction(EfectosEn(Append(z, e), x, y)) =
              SumFunction(EfectosEn(z, x, y)) + (IF e.bodega = x /\ e.articulo = y THEN Efecto(e) ELSE 0)
        BY <2>1, <4>1, EfectosCrecen
      <4>3. (IF e.bodega = x /\ e.articulo = y THEN Efecto(e) ELSE 0) = (IF d = x /\ a = y THEN n ELSE 0)
        BY <2>2
      <4>4. movimientos' = Append(z, e)
        BY <4>1
      <4>5. SumFunction(EfectosEn(movimientos', x, y)) = SumFunction(EfectosEn(z, x, y)) + (IF d = x /\ a = y THEN n ELSE 0)
        BY <4>2, <4>3, <4>4
      <4> QED BY <4>5 DEF z
    <3>4. existencia[<<x, y>>] = SumFunction(EfectosEn(movimientos, x, y))
      BY <1>0 DEF StockSumado
    <3> QED BY <3>1, <3>2, <3>3, <3>4
  <2> QED BY <2>6 DEF StockSumado
<1>4. ASSUME NEW k \in DOMAIN movimientos, AnularMovimiento(k)
      PROVE  StockSumado'
  <2> DEFINE m == movimientos[k]
             r == [m EXCEPT !.tipo = IF EsSalida(m) THEN "INGRESO" ELSE "EGRESO", !.de = "REVERSO", !.id = k]
             z == [movimientos EXCEPT ![k].estado = "ANULADO"]
  <2>1. /\ existencia' = [existencia EXCEPT ![<<m.bodega, m.articulo>>] = @ - Efecto(m)]
        /\ movimientos' = Append(z, r)
    BY <1>4 DEF AnularMovimiento
  <2>2. /\ movimientos \in Seq(Asientos) /\ existencia \in [LasBodegas \X Articulos -> Nat]
        /\ m \in Asientos /\ k \in Nat
    BY <1>0 DEF RepTypeOK
  <2>3. /\ m.bodega \in LasBodegas /\ m.articulo \in Articulos /\ Efecto(m) \in Int
        /\ m.tipo \in {"INGRESO", "EGRESO", "AJUSTE", "TRANSFERENCIA"} /\ m.cantidad \in Nat
    BY <2>2, EfectoEntero DEF Asientos
  <2>4. /\ r \in Asientos /\ r.bodega = m.bodega /\ r.articulo = m.articulo
        /\ r.cantidad = m.cantidad /\ r.tipo = IF EsSalida(m) THEN "INGRESO" ELSE "EGRESO"
    BY <2>2 DEF Asientos
  <2>5. Efecto(r) = 0 - Efecto(m)
    <3> HIDE DEF r, m
    <3>1. EsSalida(r) <=> ~EsSalida(m)
      BY <2>4 DEF EsSalida
    <3> QED BY <2>3, <2>4, <3>1 DEF Efecto
  <2>6. /\ z \in Seq(Asientos) /\ DOMAIN z = DOMAIN movimientos
        /\ \A i \in DOMAIN movimientos : /\ z[i].bodega = movimientos[i].bodega
                                         /\ z[i].articulo = movimientos[i].articulo
                                         /\ Efecto(z[i]) = Efecto(movimientos[i])
    <3>1. z \in Seq(Asientos)
      <4>1. [m EXCEPT !.estado = "ANULADO"] \in Asientos
        BY <2>2 DEF Asientos
      <4> QED BY <2>2, <4>1
    <3>2. z[k] = [m EXCEPT !.estado = "ANULADO"] /\ \A i \in DOMAIN movimientos \ {k} : z[i] = movimientos[i]
      BY <2>2
    <3>3. z[k].bodega = m.bodega /\ z[k].articulo = m.articulo /\ z[k].tipo = m.tipo /\ z[k].cantidad = m.cantidad
      BY <2>2, <3>2 DEF Asientos
    <3>4. Efecto(z[k]) = Efecto(m)
      BY <3>3 DEF Efecto, EsSalida
    <3> HIDE DEF z
    <3>5. \A i \in DOMAIN movimientos : /\ z[i].bodega = movimientos[i].bodega
                                        /\ z[i].articulo = movimientos[i].articulo
                                        /\ Efecto(z[i]) = Efecto(movimientos[i])
      BY <3>2, <3>3, <3>4
    <3> QED BY <3>1, <3>5 DEF z
  <2> HIDE DEF m, r, z
  <2>7. ASSUME NEW x \in LasBodegas, NEW y \in Articulos
        PROVE  existencia'[<<x, y>>] = SumFunction(EfectosEn(movimientos', x, y))
    <3>1. existencia' = [existencia EXCEPT ![<<m.bodega, m.articulo>>] = @ + (0 - Efecto(m))]
      <4> DEFINE w == existencia[<<m.bodega, m.articulo>>]
      <4>1. w \in Int
        BY <2>2, <2>3
      <4>2. w - Efecto(m) = w + (0 - Efecto(m))
        BY <2>3, <4>1
      <4>3. existencia' = [existencia EXCEPT ![<<m.bodega, m.articulo>>] = w - Efecto(m)]
        BY <2>1
      <4>4. existencia' = [existencia EXCEPT ![<<m.bodega, m.articulo>>] = w + (0 - Efecto(m))]
        BY <4>2, <4>3
      <4> QED BY <4>4
    <3>2. existencia'[<<x, y>>] = existencia[<<x, y>>] + (IF m.bodega = x /\ m.articulo = y THEN 0 - Efecto(m) ELSE 0)
      BY <2>2, <2>3, <3>1, ExistenciaEscrita
    <3>3. EfectosEn(z, x, y) = EfectosEn(movimientos, x, y)
      BY <2>6 DEF EfectosEn
    <3>4. SumFunction(EfectosEn(movimientos', x, y)) =
            SumFunction(EfectosEn(z, x, y)) + (IF m.bodega = x /\ m.articulo = y THEN 0 - Efecto(m) ELSE 0)
      BY <2>1, <2>4, <2>5, <2>6, EfectosCrecen
    <3>5. existencia[<<x, y>>] = SumFunction(EfectosEn(movimientos, x, y))
      BY <1>0 DEF StockSumado
    <3> QED BY <3>2, <3>3, <3>4, <3>5
  <2> QED BY <2>7 DEF StockSumado
<1> QED BY <1>0, <1>1, <1>2, <1>3, <1>4, QuienMueve

\* The output of a sale is of what the sale says, and every row has the cost of its article.
LEMMA SalidasSiguen ==
  ASSUME RepInv, Operacion
  PROVE  SalidasDeVentas'
<1>0. RepTypeOK /\ SalidasDeVentas /\ movimientos \in Seq(Asientos)
  BY DEF RepInv, RepTypeOK
<1>1. CASE UNCHANGED bodegaje
  BY <1>0, <1>1 DEF SalidasDeVentas, bodegaje
<1>2. ASSUME NEW m \in Asientos, ConfirmarMovimiento(m), SalidaBien(m)
      PROVE  SalidasDeVentas'
  <2>1. movimientos' = Append(movimientos, m)
    BY <1>2 DEF ConfirmarMovimiento
  <2>2. \A k \in DOMAIN movimientos' : movimientos'[k] = m \/ (k \in DOMAIN movimientos /\ movimientos'[k] = movimientos[k])
    BY <1>0, <2>1
  <2> QED BY <1>0, <1>2, <2>2 DEF SalidasDeVentas
<1>3. ASSUME NEW a \in Articulos, NEW n, NEW b, NEW d, NEW f, TransferirEntreBodegas(a, n, b, d, f)
      PROVE  SalidasDeVentas'
  <2> DEFINE s == NuevoMovimiento("TRANSFERENCIA", a, n, b, "TRANSFERENCIA", a, f)
             e == NuevoMovimiento("INGRESO", a, n, d, "TRANSFERENCIA", a, f)
  <2>1. movimientos' = movimientos \o <<s, e>>
    BY <1>3 DEF TransferirEntreBodegas
  <2>2. SalidaBien(s) /\ SalidaBien(e)
    BY DEF SalidaBien, NuevoMovimiento
  <2> HIDE DEF s, e
  <2>3. \A k \in DOMAIN movimientos' : \/ movimientos'[k] \in {s, e}
                                       \/ k \in DOMAIN movimientos /\ movimientos'[k] = movimientos[k]
    BY <1>0, <2>1
  <2> QED BY <1>0, <2>2, <2>3 DEF SalidasDeVentas
<1>4. ASSUME NEW k \in DOMAIN movimientos, AnularMovimiento(k)
      PROVE  SalidasDeVentas'
  <2> DEFINE m == movimientos[k]
             r == [m EXCEPT !.tipo = IF EsSalida(m) THEN "INGRESO" ELSE "EGRESO", !.de = "REVERSO", !.id = k]
             x == [m EXCEPT !.estado = "ANULADO"]
             z == [movimientos EXCEPT ![k].estado = "ANULADO"]
  <2>1. movimientos' = Append(z, r)
    BY <1>4 DEF AnularMovimiento
  <2>2. m \in Asientos /\ SalidaBien(m)
    BY <1>0 DEF SalidasDeVentas
  <2>3. SalidaBien(r) /\ SalidaBien(x)
    BY <2>2 DEF SalidaBien, Asientos
  <2>4. z = [movimientos EXCEPT ![k] = x]
    BY <1>0
  <2> HIDE DEF m, r, x, z
  <2>5. \A i \in DOMAIN movimientos' : \/ movimientos'[i] \in {r, x}
                                       \/ i \in DOMAIN movimientos /\ movimientos'[i] = movimientos[i]
    <3>1. Len(z) = Len(movimientos) /\ DOMAIN z = DOMAIN movimientos /\ z[k] = x
          /\ \A i \in DOMAIN movimientos \ {k} : z[i] = movimientos[i]
      BY <1>0, <2>4
    <3>2. \A i \in DOMAIN movimientos' : movimientos'[i] = r \/ (i \in DOMAIN z /\ movimientos'[i] = z[i])
      <4>1. Len(z) \in Nat /\ DOMAIN z = 1..Len(z)
        BY <1>0, <3>1
      <4> QED BY <2>1, <4>1
    <3> QED BY <3>1, <3>2
  <2> QED BY <1>0, <2>3, <2>5 DEF SalidasDeVentas
<1> QED BY <1>0, <1>1, <1>2, <1>3, <1>4, QuienMueve

\* A sum with one term that is not 0.
LEMMA SumaDeUno ==
  ASSUME NEW S, IsFiniteSet(S), NEW g \in [S -> Int], NEW x \in S, \A y \in S \ {x} : g[y] = 0
  PROVE  SumFunction(g) = g[x]
<1>1. /\ SumFunction(g) = Parcial(g, S)
      /\ Parcial(g, S) = g[x] + Parcial(g, S \ {x})
  BY SumaDePartes
<1>2. Parcial(g, S \ {x}) = 0
  BY SumaDeCeros
<1>3. g[x] \in Int
  OBVIOUS
<1> QED BY <1>1, <1>2, <1>3

\* The first units of each article are in its first bodega, and one movement tells of them.
LEMMA PrimerasUnidades ==
  ASSUME RepInit
  PROVE  movimientos \in Seq(Asientos) /\ SalidasDeVentas /\ StockSumado
<1> DEFINE N == Cardinality(Articulos)
           uno(a) == NuevoMovimiento("INGRESO", a, 1, BodegaInicial, "APERTURA", a, 1)
<1>1. IsFiniteSet(Articulos) /\ N \in Nat /\ BodegaInicial \in LasBodegas /\ 1 \in Dias
  BY FS_CardinalityType, ReportesSupuestos DEF Dias
<1>2. PICK orden \in Injection(1..N, Articulos) : movimientos = [k \in DOMAIN orden |-> uno(orden[k])]
  BY DEF RepInit
<1>3. orden \in [1..N -> Articulos] /\ DOMAIN orden = 1..N
  BY <1>2 DEF Injection
<1>4. \A k, n \in 1..N : orden[k] = orden[n] => k = n
  BY <1>2, <1>3 DEF Injection, IsInjective
<1>5. \A a \in Articulos : \E k \in 1..N : orden[k] = a
  <2>1. IsFiniteSet(1..N) /\ Cardinality(1..N) = N
    <3>1. Cardinality(1..N) = IF 1 > N THEN 0 ELSE N - 1 + 1
      BY <1>1, FS_Interval
    <3> QED BY <1>1, <3>1, FS_Interval
  <2>2. orden \in Surjection(1..N, Articulos)
    BY <1>1, <1>2, <2>1, FS_Injection
  <2> QED BY <2>2 DEF Surjection
<1>6. ASSUME NEW a \in Articulos
      PROVE  /\ uno(a) \in Asientos /\ SalidaBien(uno(a)) /\ Efecto(uno(a)) = 1
             /\ uno(a).bodega = BodegaInicial /\ uno(a).articulo = a
  <2>1. uno(a) \in Asientos
    BY <1>1, NuevoEsAsiento
  <2> QED BY <2>1 DEF NuevoMovimiento, SalidaBien, Efecto, EsSalida
<1> HIDE DEF uno, N
<1>7. DOMAIN movimientos = 1..N /\ \A k \in 1..N : movimientos[k] = uno(orden[k])
  BY <1>2, <1>3
<1>8. movimientos \in [1..N -> Asientos]
  <2>1. movimientos = [k \in 1..N |-> uno(orden[k])]
    BY <1>2, <1>3
  <2>2. \A k \in 1..N : uno(orden[k]) \in Asientos
    BY <1>3, <1>6
  <2> QED BY <2>1, <2>2
<1>9. movimientos \in Seq(Asientos)
  BY <1>1, <1>8
<1>10. SalidasDeVentas
  BY <1>3, <1>6, <1>7 DEF SalidasDeVentas
<1>11. ASSUME NEW b \in LasBodegas, NEW a \in Articulos
       PROVE  existencia[<<b, a>>] = SumFunction(EfectosEn(movimientos, b, a))
  <2>1. existencia[<<b, a>>] = IF b = BodegaInicial THEN 1 ELSE 0
    BY DEF RepInit
  <2>2. PICK g : g = EfectosEn(movimientos, b, a)
    OBVIOUS
  <2>3. g = [k \in 1..N |-> IF movimientos[k].bodega = b /\ movimientos[k].articulo = a
                            THEN Efecto(movimientos[k]) ELSE 0]
    BY <1>7, <2>2 DEF EfectosEn
  <2>4. \A k \in 1..N : g[k] = IF b = BodegaInicial /\ orden[k] = a THEN 1 ELSE 0
    BY <1>3, <1>6, <1>7, <2>3
  <2>5. g \in [1..N -> Int] /\ IsFiniteSet(1..N)
    BY <1>1, <2>3, <2>4, FS_Interval
  <2>6. CASE b # BodegaInicial
    <3>1. g = [k \in 1..N |-> 0]
      BY <2>3, <2>4, <2>5, <2>6
    <3> QED BY <2>1, <2>2, <2>5, <2>6, <3>1, SumaCeros
  <2>7. CASE b = BodegaInicial
    <3>1. PICK k \in 1..N : orden[k] = a
      BY <1>5
    <3>2. g[k] = 1 /\ \A n \in (1..N) \ {k} : g[n] = 0
      BY <1>4, <2>4, <2>7, <3>1
    <3>3. SumFunction(g) = g[k]
      BY <2>5, <3>2, SumaDeUno
    <3> QED BY <2>1, <2>2, <2>7, <3>2, <3>3
  <2> QED BY <2>6, <2>7
<1>12. StockSumado
  BY <1>11 DEF StockSumado
<1> QED BY <1>9, <1>10, <1>12

\* A database without sales, purchases or payments.
LEMMA RepInicial ==
  ASSUME RepInit
  PROVE  RepInv
<1>1. movimientos \in Seq(Asientos) /\ SalidasDeVentas /\ StockSumado
  BY PrimerasUnidades
<1>2. 1 \in Dias /\ Ventas \cap Compras = {}
  BY ReportesSupuestos DEF Dias
<1>3. RepTypeOK
  <2>1. /\ hoy \in Dias
        /\ venta \in [Ventas -> [estado : {"NINGUNA", "BORRADOR", "EMITIDA", "ANULADA"}, fecha : Dias]]
        /\ recibida \in [Recibidas -> [estado : {"NINGUNA", "BORRADOR", "APLICADA", "ANULADA"}, fecha : Dias]]
        /\ compra \in [Compras -> [estado : {"NINGUNA", "REGISTRADA", "ANULADA"}, fecha : Dias]]
    BY <1>2 DEF RepInit
  <2>2. /\ cxc \in [Ventas -> Cuentas({"NINGUNA", "PENDIENTE", "PARCIAL", "PAGADA", "ANULADA"})]
        /\ cxp \in [Compras -> Cuentas({"NINGUNA", "PENDIENTE", "PARCIAL", "PAGADA"})]
    BY DEF RepInit, SinCuenta, Cuentas
  <2>3. /\ pagos \in Seq([venta : Ventas, monto : Nat, forma : Formas, fecha : Dias])
        /\ emitida \in [Compras -> {"NINGUNA", "REGISTRADA", "ENCOLADA", "EMITIDA"}]
    BY DEF RepInit
  <2>4. existencia \in [LasBodegas \X Articulos -> Nat]
    BY DEF RepInit
  <2>5. /\ documento \in [Documentos -> [estado : {"NINGUNO", "EN_COLA", "AUTORIZADO", "RECHAZADO"}, dia : Dias]]
        /\ activo \subseteq Sucursales \cup LasBodegas \cup Articulos /\ directas \subseteq Recibidas /\ pasos \in Nat
    BY <1>2 DEF RepInit
  <2> QED BY <1>1, <2>1, <2>2, <2>3, <2>4, <2>5 DEF RepTypeOK
<1>4. CobrosPorEstado
  BY DEF CobrosPorEstado, RepInit
<1>5. PagosSumados
  <2>1. ASSUME NEW v \in Ventas PROVE SumFunction(PagosDe(v)) = 0
    <3>1. PagosDe(v) = [n \in {} |-> 0]
      BY DEF PagosDe, RepInit
    <3> QED BY <3>1, SumaCeros, FS_EmptySet
  <2> QED BY <2>1 DEF PagosSumados, RepInit, SinCuenta
<1>6. RetenidoSumado
  <2>1. ASSUME NEW v \in Ventas PROVE SumFunction(AportesA(v)) = 0
    <3>1. \A r \in Recibidas : Aporte(r) = 0
      BY DEF Aporte, RepInit
    <3>2. AportesA(v) = [r \in Recibidas |-> 0]
      BY <3>1 DEF AportesA
    <3> QED BY <3>2, SumaCeros, ReportesSupuestos
  <2> QED BY <2>1 DEF RetenidoSumado, RepInit, SinCuenta
<1>7. PagosPorEstado
  BY DEF PagosPorEstado, RepInit, SinCuenta
<1>8. DocumentosPorEstado
  BY DEF DocumentosPorEstado, RepInit, Documentos
<1> QED BY <1>1, <1>3, <1>4, <1>5, <1>6, <1>7, <1>8 DEF RepInv

\* Every operation keeps the invariant.
LEMMA RepInductivo ==
  ASSUME RepInv, [RepNext]_repVars
  PROVE  RepInv'
<1>1. CASE RepNext
  <2>1. Operacion /\ pasos' \in Nat
    BY <1>1 DEF RepNext, RepInv, RepTypeOK
  <2> QED BY <2>1, RepTiposSiguen, CobrosSiguen, PagosSiguen, RetenidoSigue, PagosPorEstadoSigue,
             DocumentosSiguen, StockSigue, SalidasSiguen DEF RepInv
<1>2. CASE UNCHANGED repVars
  <2>1. UNCHANGED <<hoy, venta, cxc, pagos, recibida, compra, cxp, emitida, movimientos,
                    existencia, documento, activo, directas, pasos>>
    BY <1>2 DEF repVars
  <2>2. /\ RepTypeOK' /\ CobrosPorEstado' /\ SalidasDeVentas'
    BY <2>1 DEF RepInv, RepTypeOK, CobrosPorEstado, SalidasDeVentas
  <2>3. PagosSumados' /\ PagosPorEstado' /\ DocumentosPorEstado'
    BY <2>1 DEF RepInv, PagosSumados, PagosDe, PagosPorEstado, DocumentosPorEstado
  <2>4. RetenidoSumado'
    BY <2>1 DEF RepInv, RetenidoSumado, AportesA, Aporte
  <2>5. StockSumado'
    BY <2>1 DEF RepInv, StockSumado
  <2> QED BY <2>2, <2>3, <2>4, <2>5 DEF RepInv
<1> QED BY <1>1, <1>2

\* In every state of the tables the reports read, whatever the operations: accounts are what is
\* left of their totals, payments and withholdings are where they say, and stock is what moved.
THEOREM RepInvariante == RepSpec => []RepInv
<1>1. RepInit => RepInv
  BY RepInicial
<1>2. RepInv /\ [RepNext]_repVars => RepInv'
  BY RepInductivo
<1> QED BY <1>1, <1>2, PTL DEF RepSpec

\* The types of the tables, with no balance below zero.
THEOREM RepTiposCorrectos == RepSpec => []RepTypeOK
<1>1. RepInv => RepTypeOK
  BY DEF RepInv
<1> QED BY <1>1, RepInvariante, PTL

-----------------------------------------------------------------------------
(* Rows of a report that add up: Reportes *)

\* The rows R of a report, each under its key q, are one for each key c of the elements of V.
UnaPorClave(R, q, V, c) ==
  /\ \A v \in V : \E x \in R : q[x] = c[v]
  /\ \A x \in R : \E v \in V : c[v] = q[x]
  /\ \A x, y \in R : q[x] = q[y] => x = y

\* Rows that each tell the sum of a key tell together the sum of all.
LEMMA FilasSuman ==
  ASSUME NEW S, IsFiniteSet(S), NEW g \in [S -> Int], NEW V \in SUBSET S,
         NEW R, NEW q, NEW c, UnaPorClave(R, q, V, c),
         NEW f, f = [x \in R |-> Parcial(g, {v \in V : c[v] = q[x]})]
  PROVE  SumFunction(f) = Parcial(g, V) /\ IsFiniteSet(R)
<1> DEFINE fila(v) == CHOOSE x \in R : q[x] = c[v]
<1>1. PICK d : d = [v \in V |-> fila(v)]
  OBVIOUS
<1>2. \A v \in V : d[v] \in R /\ q[d[v]] = c[v]
  BY <1>1 DEF UnaPorClave
<1>3. \A x \in R : {v \in V : c[v] = q[x]} = {v \in V : d[v] = x}
  BY <1>2 DEF UnaPorClave
<1>4. IsFiniteSet(V)
  BY FS_Subset
<1>5. IsFiniteSet(R)
  <2>1. d \in [V -> R]
    BY <1>1, <1>2
  <2>2. \A x \in R : \E v \in V : d[v] = x
    BY <1>2 DEF UnaPorClave
  <2>3. d \in Surjection(V, R)
    BY <2>1, <2>2 DEF Surjection
  <2> QED BY <1>4, <2>3, FS_Surjection
<1>6. f = [x \in R |-> Parcial(g, {v \in V : d[v] = x})]
  BY <1>3
<1> HIDE DEF fila
<1>7. \A v \in V : d[v] \in R
  BY <1>2
<1>8. Parcial(g, V) = SumFunction([x \in R |-> Parcial(g, {v \in V : d[v] = x})])
  BY <1>5, <1>7, SumaPorClave
<1> QED BY <1>5, <1>6, <1>8

\* The number of elements as a sum.
Uno(S) == [x \in S |-> 1]

\* A number of elements is a sum of ones.
LEMMA CuentaDeUnos ==
  ASSUME NEW S, IsFiniteSet(S), NEW A \in SUBSET S
  PROVE  Uno(S) \in [S -> Int] /\ Cardinality(A) = Parcial(Uno(S), A)
<1>1. IsFiniteSet(A)
  BY FS_Subset
<1>2. [x \in A |-> Uno(S)[x]] = [x \in A |-> 1]
  BY DEF Uno
<1>3. Parcial(Uno(S), A) = Cardinality(A)
  BY <1>1, <1>2, SumaDeUnos DEF Parcial
<1> QED BY <1>3 DEF Uno

\* f says of the renamed elements what g says of them.
Renombra(b, S, T, f, g) ==
  /\ \A x \in S : b[x] \in T /\ f[b[x]] = g[x]
  /\ \A x, y \in S : b[x] = b[y] => x = y
  /\ \A t \in T : \E x \in S : b[x] = t

\* Renamed, the terms of a sum are the same.
LEMMA SumaConNombre ==
  ASSUME NEW S, IsFiniteSet(S), NEW g \in [S -> Int], NEW T, NEW f, f = [t \in T |-> f[t]],
         NEW b, Renombra(b, S, T, f, g)
  PROVE  SumFunction(f) = SumFunction(g)
<1>1. PICK k : k = f
  OBVIOUS
<1>2. /\ \A x \in S : b[x] \in T /\ k[b[x]] = g[x]
      /\ \A x, y \in S : b[x] = b[y] => x = y
      /\ \A t \in T : \E x \in S : b[x] = t
  BY <1>1 DEF Renombra
<1>3. \A t \in T : k[t] \in Int
  BY <1>2
<1>4. k \in [T -> Int]
  BY <1>1, <1>3
<1>5. SumFunction(k) = SumFunction(g)
  BY <1>2, <1>4, SumaRenombrada
<1> QED BY <1>1, <1>5

\* X pairs each of V with its row, and f says of each pair what g says of the first of the two.
DePares(f, X, V, F, g) ==
  /\ X = {<<v, F[v]>> : v \in V}
  /\ f \in [X -> Int] /\ \A v \in V : f[<<v, F[v]>>] = g[v]

\* A sum over pairs of an element and its row.
LEMMA ParesSuman ==
  ASSUME NEW S, IsFiniteSet(S), NEW g \in [S -> Int], NEW V \in SUBSET S, NEW F, NEW X, NEW f,
         DePares(f, X, V, F, g)
  PROVE  SumFunction(f) = Parcial(g, V) /\ Cardinality(X) = Cardinality(V)
<1>0. /\ X = {<<v, F[v]>> : v \in V}
      /\ f \in [X -> Int] /\ \A v \in V : f[<<v, F[v]>>] = g[v]
  BY DEF DePares
<1>1. PICK h : h = [v \in V |-> g[v]]
  OBVIOUS
<1>2. PICK b : b = [v \in V |-> <<v, F[v]>>]
  OBVIOUS
<1>3. IsFiniteSet(V) /\ h \in [V -> Int] /\ Parcial(g, V) = SumFunction(h)
  BY <1>1, FS_Subset DEF Parcial
<1>4. /\ \A v \in V : b[v] \in X /\ f[b[v]] = h[v]
      /\ \A v, u \in V : b[v] = b[u] => v = u
      /\ \A x \in X : \E v \in V : b[v] = x
  BY <1>0, <1>1, <1>2
<1>6. SumFunction(f) = SumFunction(h)
  <2>1. Renombra(b, V, X, f, h)
    BY <1>4 DEF Renombra
  <2>2. f = [x \in X |-> f[x]]
    BY <1>0
  <2> QED BY <1>3, <2>1, <2>2, SumaConNombre
<1>7. b \in Bijection(V, X)
  <2>1. b \in [V -> X]
    BY <1>0, <1>2
  <2> QED BY <1>4, <2>1 DEF Bijection, Injection, IsInjective, Surjection
<1>8. Cardinality(X) = Cardinality(V)
  BY <1>3, <1>7, FS_Bijection DEF ExistsBijection
<1> QED BY <1>3, <1>6, <1>8

\* F is what FilasPor makes of V and the key c.
SonFilas(F, V, c) ==
  \A y : y \in F <=> \E v \in V : y = [clave |-> c[v], ventas |-> {u \in V : c[u] = c[v]}]

\* R shows a row b for each of F, under its key.
Muestra(b, F, R, q) ==
  /\ \A y \in F : b[y] \in R /\ q[b[y]] = y.clave
  /\ \A x \in R : \E y \in F : x = b[y]

\* A report that shows a row b for each of FilasPor has one for each key.
LEMMA FilasPorClave ==
  ASSUME NEW V, NEW c, NEW F, SonFilas(F, V, c), NEW R, NEW q, NEW b,
         Muestra(b, F, R, q)
  PROVE  /\ UnaPorClave(R, q, V, c)
         /\ \A x \in R : \E y \in F : x = b[y] /\ y.ventas = {u \in V : c[u] = q[x]}
<1>1. \A y \in F : \E v \in V : y.clave = c[v] /\ y = [clave |-> c[v], ventas |-> {u \in V : c[u] = c[v]}]
  BY DEF SonFilas
<1>2. \A y \in F : y.ventas = {u \in V : c[u] = y.clave}
  BY <1>1
<1>3. \A y, z \in F : y.clave = z.clave => y = z
  <2> DEFINE grupo(k) == [clave |-> k, ventas |-> {u \in V : c[u] = k}]
  <2>1. \A y \in F : \E v \in V : y.clave = c[v] /\ y = grupo(c[v])
    BY <1>1
  <2> HIDE DEF grupo
  <2>2. \A y \in F : y = grupo(y.clave)
    BY <2>1
  <2> QED BY <2>2
<1>4. ASSUME NEW v \in V PROVE \E y \in F : y.clave = c[v]
  <2>1. [clave |-> c[v], ventas |-> {u \in V : c[u] = c[v]}] \in F
    BY DEF SonFilas
  <2> QED BY <2>1
<1>5. \A v \in V : \E x \in R : q[x] = c[v]
  BY <1>4 DEF Muestra
<1>6. \A x \in R : \E v \in V : c[v] = q[x]
  BY <1>1 DEF Muestra
<1>7. \A x, y \in R : q[x] = q[y] => x = y
  BY <1>3 DEF Muestra
<1>8. \A x \in R : \E y \in F : x = b[y] /\ y.ventas = {u \in V : c[u] = q[x]}
  BY <1>2 DEF Muestra
<1> QED BY <1>5, <1>6, <1>7, <1>8 DEF UnaPorClave

-----------------------------------------------------------------------------
(* The reports on sales *)

MontoDe == [v \in Ventas |-> Monto(Factura[v])]
IvaDe == [v \in Ventas |-> Factura[v].iva]
CeroDe == [v \in Ventas |-> Factura[v].cero]

\* The types that sums of sales need.
LEMMA MontosEnteros ==
  /\ IsFiniteSet(Ventas) /\ MontoDe \in [Ventas -> Int] /\ IvaDe \in [Ventas -> Int]
  /\ CeroDe \in [Ventas -> Int] /\ Uno(Ventas) \in [Ventas -> Int]
<1>1. \A v \in Ventas : Monto(Factura[v]) \in Nat
  BY MontoNatural, ReportesSupuestos
<1>2. \A v \in Ventas : Factura[v].iva \in Nat /\ Factura[v].cero \in Nat
  BY ReportesSupuestos DEF Importes
<1>3. IsFiniteSet(Ventas)
  BY ReportesSupuestos
<1> QED BY <1>1, <1>2, <1>3 DEF MontoDe, IvaDe, CeroDe, Uno

\* What was sold, as a sum of a part of the sales.
LEMMA VendidoEsParte ==
  ASSUME NEW V \in SUBSET Ventas
  PROVE  /\ TotalVendido(V) = Parcial(MontoDe, V)
         /\ SumaDe(LAMBDA v : Factura[v].iva, V) = Parcial(IvaDe, V)
         /\ SumaDe(LAMBDA v : Factura[v].cero, V) = Parcial(CeroDe, V)
         /\ Cardinality(V) = Parcial(Uno(Ventas), V)
<1>1. [v \in V |-> Monto(Factura[v])] = [v \in V |-> MontoDe[v]]
  BY DEF MontoDe
<1>2. [v \in V |-> Factura[v].iva] = [v \in V |-> IvaDe[v]]
  BY DEF IvaDe
<1>3. [v \in V |-> Factura[v].cero] = [v \in V |-> CeroDe[v]]
  BY DEF CeroDe
<1>4. Cardinality(V) = Parcial(Uno(Ventas), V)
  BY CuentaDeUnos, MontosEnteros
<1>5. TotalVendido(V) = Parcial(MontoDe, V)
  BY <1>1 DEF TotalVendido, SumaDe, Parcial
<1>6. SumaDe(LAMBDA v : Factura[v].iva, V) = Parcial(IvaDe, V)
  BY <1>2 DEF SumaDe, Parcial
<1>7. SumaDe(LAMBDA v : Factura[v].cero, V) = Parcial(CeroDe, V)
  BY <1>3 DEF SumaDe, Parcial
<1> QED BY <1>4, <1>5, <1>6, <1>7

\* The sales of a range, told as parts of the same table.
LEMMA VentasDeParte ==
  ASSUME RepTypeOK
  PROVE  /\ Vigentes \in SUBSET Ventas
         /\ \A i, j : VentasDe(i, j) \in SUBSET Ventas
         /\ \A v \in Ventas : venta[v].fecha \in Dias
         /\ VentasDe(1, Todo) = Vigentes
<1>1. \A v \in Ventas : venta[v].fecha \in Dias
  BY DEF RepTypeOK
<1>2. \A v \in Ventas : EnRango(venta[v].fecha, 1, Todo)
  BY <1>1, ReportesSupuestos DEF Dias, Todo, EnRango
<1> QED BY <1>1, <1>2 DEF Vigentes, VentasDe

\* The summary of all points and branches is of all the sales of the range.
LEMMA ResumenDeTodas ==
  ASSUME RepTypeOK, NEW i, NEW j
  PROVE  LET r == ResumenVentas(i, j, Todas, Todas)
             V == VentasDe(i, j)
         IN  /\ r.total = Parcial(MontoDe, V) /\ r.total_ventas = Parcial(Uno(Ventas), V)
             /\ r.monto_iva = Parcial(IvaDe, V) /\ r.subtotal_0 = Parcial(CeroDe, V)
<1> DEFINE V == VentasDe(i, j)
<1>1. V \in SUBSET Ventas
  BY VentasDeParte
<1>2. {v \in V : (Todas = Todas \/ Factura[v].punto = Todas) /\ DeSucursal(v, Todas)} = V
  BY DEF DeSucursal
<1>3. LET r == ResumenVentas(i, j, Todas, Todas)
      IN  /\ r.total = TotalVendido(V) /\ r.total_ventas = Cardinality(V)
          /\ r.monto_iva = SumaDe(LAMBDA v : Factura[v].iva, V)
          /\ r.subtotal_0 = SumaDe(LAMBDA v : Factura[v].cero, V)
  BY <1>2 DEF ResumenVentas
<1> QED BY <1>1, <1>3, VendidoEsParte

\* Rows by period.
LEMMA TendenciasSuman ==
  ASSUME RepTypeOK, NEW i, NEW j, NEW g
  PROVE  LET r == ResumenVentas(i, j, Todas, Todas)
             filas == Tendencias(i, j, g)
         IN  /\ SumaDe(LAMBDA x : x.total, filas) = r.total
             /\ SumaDe(LAMBDA x : x.total_ventas, filas) = r.total_ventas
<1> DEFINE V == VentasDe(i, j)
           R == Tendencias(i, j, g)
           F == FilasPor(V, LAMBDA v : Periodo(venta[v].fecha, g))
           fila(y) == [periodo |-> y.clave, total |-> TotalVendido(y.ventas), total_ventas |-> Cardinality(y.ventas)]
           c == [v \in V |-> Periodo(venta[v].fecha, g)]
           q == [x \in R |-> x.periodo]
           b == [y \in F |-> fila(y)]
<1>1. V \in SUBSET Ventas
  BY VentasDeParte
<1>2. SonFilas(F, V, c)
  <2>1. \A y : y \in F <=> \E v \in V : y = [clave |-> Periodo(venta[v].fecha, g), ventas |-> {u \in V : Periodo(venta[u].fecha, g) = Periodo(venta[v].fecha, g)}]
    BY DEF FilasPor
  <2>2. ASSUME NEW v \in V
        PROVE  c[v] = Periodo(venta[v].fecha, g) /\ {u \in V : c[u] = c[v]} = {u \in V : Periodo(venta[u].fecha, g) = Periodo(venta[v].fecha, g)}
    OBVIOUS
  <2> HIDE DEF F, c, V
  <2> QED BY <2>1, <2>2 DEF SonFilas
<1>3. \A x : x \in R <=> \E y \in F : x = fila(y)
  BY DEF Tendencias
<1> HIDE DEF F, R, c, V
<1>4. /\ \A y \in F : b[y] \in R /\ q[b[y]] = y.clave
      /\ \A x \in R : \E y \in F : x = b[y]
  BY <1>3
<1>5. \A y \in F : b[y] = fila(y)
  OBVIOUS
<1> HIDE DEF b
<1>6. /\ UnaPorClave(R, q, V, c)
      /\ \A x \in R : \E y \in F : x = b[y] /\ y.ventas = {u \in V : c[u] = q[x]}
  <2> HIDE DEF q
  <2>1. Muestra(b, F, R, q)
    BY <1>4 DEF Muestra
  <2> QED BY <1>2, <2>1, FilasPorClave
<1>7. /\ [x \in R |-> x.total] = [x \in R |-> Parcial(MontoDe, {v \in V : c[v] = q[x]})]
      /\ [x \in R |-> x.total_ventas] = [x \in R |-> Parcial(Uno(Ventas), {v \in V : c[v] = q[x]})]
  <2>1. ASSUME NEW x \in R
        PROVE  /\ x.total = Parcial(MontoDe, {v \in V : c[v] = q[x]})
               /\ x.total_ventas = Parcial(Uno(Ventas), {v \in V : c[v] = q[x]})
    <3> DEFINE A == {u \in V : c[u] = q[x]}
    <3> HIDE DEF q
    <3>0. PICK y \in F : x = b[y] /\ y.ventas = A
      BY <1>6
    <3>2. A \in SUBSET Ventas
      BY <1>1
    <3> HIDE DEF A
    <3>1. x.total = TotalVendido(A) /\ x.total_ventas = Cardinality(A)
      <4>1. x = fila(y) /\ y.ventas = A
        BY <1>5, <3>0
      <4>2. fila(y).total = TotalVendido(y.ventas) /\ fila(y).total_ventas = Cardinality(y.ventas)
        OBVIOUS
      <4> QED BY <4>1, <4>2
    <3>3. x.total = Parcial(MontoDe, A) /\ x.total_ventas = Parcial(Uno(Ventas), A)
      BY <3>1, <3>2, VendidoEsParte
    <3> QED BY <3>3 DEF A
  <2> QED BY <2>1
<1>8. /\ SumFunction([x \in R |-> x.total]) = Parcial(MontoDe, V)
      /\ SumFunction([x \in R |-> x.total_ventas]) = Parcial(Uno(Ventas), V)
  <2> HIDE DEF q
  <2> QED BY <1>1, <1>6, <1>7, MontosEnteros, FilasSuman
<1> QED BY <1>8, ResumenDeTodas DEF SumaDe, V, R

\* Rows by seller.
LEMMA VendedoresSuman ==
  ASSUME RepTypeOK, NEW i, NEW j
  PROVE  LET r == ResumenVentas(i, j, Todas, Todas)
             filas == PorVendedor(i, j)
         IN  /\ SumaDe(LAMBDA x : x.total, filas) = r.total
             /\ SumaDe(LAMBDA x : x.total_ventas, filas) = r.total_ventas
<1> DEFINE V == VentasDe(i, j)
           R == PorVendedor(i, j)
           F == FilasPor(V, LAMBDA v : Factura[v].vendedor)
           fila(y) == [vendedor |-> y.clave, total |-> TotalVendido(y.ventas), total_ventas |-> Cardinality(y.ventas)]
           c == [v \in V |-> Factura[v].vendedor]
           q == [x \in R |-> x.vendedor]
           b == [y \in F |-> fila(y)]
<1>1. V \in SUBSET Ventas
  BY VentasDeParte
<1>2. SonFilas(F, V, c)
  <2>1. \A y : y \in F <=> \E v \in V : y = [clave |-> Factura[v].vendedor, ventas |-> {u \in V : Factura[u].vendedor = Factura[v].vendedor}]
    BY DEF FilasPor
  <2>2. ASSUME NEW v \in V
        PROVE  c[v] = Factura[v].vendedor /\ {u \in V : c[u] = c[v]} = {u \in V : Factura[u].vendedor = Factura[v].vendedor}
    OBVIOUS
  <2> HIDE DEF F, c, V
  <2> QED BY <2>1, <2>2 DEF SonFilas
<1>3. \A x : x \in R <=> \E y \in F : x = fila(y)
  BY DEF PorVendedor
<1> HIDE DEF F, R, c, V
<1>4. /\ \A y \in F : b[y] \in R /\ q[b[y]] = y.clave
      /\ \A x \in R : \E y \in F : x = b[y]
  BY <1>3
<1>5. \A y \in F : b[y] = fila(y)
  OBVIOUS
<1> HIDE DEF b
<1>6. /\ UnaPorClave(R, q, V, c)
      /\ \A x \in R : \E y \in F : x = b[y] /\ y.ventas = {u \in V : c[u] = q[x]}
  <2> HIDE DEF q
  <2>1. Muestra(b, F, R, q)
    BY <1>4 DEF Muestra
  <2> QED BY <1>2, <2>1, FilasPorClave
<1>7. /\ [x \in R |-> x.total] = [x \in R |-> Parcial(MontoDe, {v \in V : c[v] = q[x]})]
      /\ [x \in R |-> x.total_ventas] = [x \in R |-> Parcial(Uno(Ventas), {v \in V : c[v] = q[x]})]
  <2>1. ASSUME NEW x \in R
        PROVE  /\ x.total = Parcial(MontoDe, {v \in V : c[v] = q[x]})
               /\ x.total_ventas = Parcial(Uno(Ventas), {v \in V : c[v] = q[x]})
    <3> DEFINE A == {u \in V : c[u] = q[x]}
    <3> HIDE DEF q
    <3>0. PICK y \in F : x = b[y] /\ y.ventas = A
      BY <1>6
    <3>2. A \in SUBSET Ventas
      BY <1>1
    <3> HIDE DEF A
    <3>1. x.total = TotalVendido(A) /\ x.total_ventas = Cardinality(A)
      <4>1. x = fila(y) /\ y.ventas = A
        BY <1>5, <3>0
      <4>2. fila(y).total = TotalVendido(y.ventas) /\ fila(y).total_ventas = Cardinality(y.ventas)
        OBVIOUS
      <4> QED BY <4>1, <4>2
    <3>3. x.total = Parcial(MontoDe, A) /\ x.total_ventas = Parcial(Uno(Ventas), A)
      BY <3>1, <3>2, VendidoEsParte
    <3> QED BY <3>3 DEF A
  <2> QED BY <2>1
<1>8. /\ SumFunction([x \in R |-> x.total]) = Parcial(MontoDe, V)
      /\ SumFunction([x \in R |-> x.total_ventas]) = Parcial(Uno(Ventas), V)
  <2> HIDE DEF q
  <2> QED BY <1>1, <1>6, <1>7, MontosEnteros, FilasSuman
<1> QED BY <1>8, ResumenDeTodas DEF SumaDe, V, R

-----------------------------------------------------------------------------
(* The reports on profit *)

CostoDe == [v \in Ventas |-> CostoHistorico(v)]
UtilidadDe == [v \in Ventas |-> Subtotal(v) - CostoHistorico(v)]

\* A sum of integers is one.
LEMMA SumaEntera ==
  ASSUME NEW S, IsFiniteSet(S), NEW g \in [S -> Int]
  PROVE  SumFunction(g) \in Int
<1>1. SumFunction(g) = Parcial(g, S) /\ Parcial(g, S) \in Int
  BY SumaDePartes
<1> QED BY <1>1

\* The types that sums of costs need.
LEMMA CostosEnteros ==
  ASSUME RepTypeOK
  PROVE  CostoDe \in [Ventas -> Int] /\ UtilidadDe \in [Ventas -> Int]
<1>1. ASSUME NEW v \in Ventas PROVE CostoHistorico(v) \in Int /\ Subtotal(v) \in Int
  <2> DEFINE A == {k \in Hay("VENTA", v) : movimientos[k].tipo = "EGRESO"}
  <2>1. PICK g : g = [k \in A |-> movimientos[k].cantidad * movimientos[k].costo]
    OBVIOUS
  <2>2. movimientos \in Seq(Asientos) /\ A \in SUBSET (1..Len(movimientos))
    BY DEF RepTypeOK, Hay
  <2>3. \A k \in A : movimientos[k].cantidad \in Nat /\ movimientos[k].costo \in Nat
    <3>1. \A k \in 1..Len(movimientos) : movimientos[k] \in Asientos
      BY <2>2
    <3> HIDE DEF A
    <3> QED BY <2>2, <3>1 DEF Asientos
  <2>4. \A n, m \in Nat : n * m \in Int
    OBVIOUS
  <2>5. IsFiniteSet(1..Len(movimientos))
    BY <2>2, FS_Interval
  <2>6. IsFiniteSet(A)
    BY <2>2, <2>5, FS_Subset
  <2> HIDE DEF A
  <2>7. g \in [A -> Int]
    BY <2>1, <2>3, <2>4
  <2>8. SumFunction(g) \in Int
    BY <2>6, <2>7, SumaEntera
  <2>9. CostoHistorico(v) \in Int
    BY <2>1, <2>8 DEF CostoHistorico, SumaDe, A
  <2>10. Monto(Factura[v]) \in Nat /\ Factura[v].iva \in Nat
    BY MontoNatural, ReportesSupuestos DEF Importes
  <2> QED BY <2>9, <2>10 DEF Subtotal
<1> QED BY <1>1 DEF CostoDe, UtilidadDe

\* Profit, as a sum of a part of the sales.
LEMMA UtilidadEsParte ==
  ASSUME NEW A \in SUBSET Ventas
  PROVE  /\ Utilidad(A) = Parcial(UtilidadDe, A)
         /\ SumaDe(CostoHistorico, A) = Parcial(CostoDe, A)
<1>1. [v \in A |-> Subtotal(v) - CostoHistorico(v)] = [v \in A |-> UtilidadDe[v]]
  BY DEF UtilidadDe
<1>2. [v \in A |-> CostoHistorico(v)] = [v \in A |-> CostoDe[v]]
  BY DEF CostoDe
<1>3. Utilidad(A) = Parcial(UtilidadDe, A)
  BY <1>1 DEF Utilidad, SumaDe, Parcial
<1>4. SumaDe(CostoHistorico, A) = Parcial(CostoDe, A)
  BY <1>2 DEF SumaDe, Parcial
<1> QED BY <1>3, <1>4

\* Rows by customer.
LEMMA ClientesSuman ==
  ASSUME RepTypeOK, NEW i, NEW j
  PROVE  LET filas == RentabilidadPorCliente(i, j)
             V == VentasDe(i, j)
         IN  /\ SumaDe(LAMBDA x : x.total_ventas, filas) = Parcial(Uno(Ventas), V)
             /\ SumaDe(LAMBDA x : x.costo, filas) = Parcial(CostoDe, V)
             /\ SumaDe(LAMBDA x : x.utilidad, filas) = Parcial(UtilidadDe, V)
<1> DEFINE V == VentasDe(i, j)
           R == RentabilidadPorCliente(i, j)
           F == FilasPor(V, LAMBDA v : Factura[v].cliente)
           fila(y) == [cliente |-> y.clave, total_vendido |-> SumaDe(Subtotal, y.ventas),
                       costo |-> SumaDe(CostoHistorico, y.ventas), utilidad |-> Utilidad(y.ventas),
                       total_ventas |-> Cardinality(y.ventas)]
           c == [v \in V |-> Factura[v].cliente]
           q == [x \in R |-> x.cliente]
           b == [y \in F |-> fila(y)]
<1>1. V \in SUBSET Ventas
  BY VentasDeParte
<1>2. SonFilas(F, V, c)
  <2>1. \A y : y \in F <=> \E v \in V : y = [clave |-> Factura[v].cliente,
                                          ventas |-> {u \in V : Factura[u].cliente = Factura[v].cliente}]
    BY DEF FilasPor
  <2>2. ASSUME NEW v \in V
        PROVE  /\ c[v] = Factura[v].cliente
               /\ {u \in V : c[u] = c[v]} = {u \in V : Factura[u].cliente = Factura[v].cliente}
    OBVIOUS
  <2> HIDE DEF F, c, V
  <2> QED BY <2>1, <2>2 DEF SonFilas
<1>3. \A x : x \in R <=> \E y \in F : x = fila(y)
  BY DEF RentabilidadPorCliente
<1> HIDE DEF F, R, c, V
<1>4. /\ \A y \in F : b[y] \in R /\ q[b[y]] = y.clave
      /\ \A x \in R : \E y \in F : x = b[y]
  BY <1>3
<1>5. \A y \in F : b[y] = fila(y)
  OBVIOUS
<1> HIDE DEF b
<1>6. /\ UnaPorClave(R, q, V, c)
      /\ \A x \in R : \E y \in F : x = b[y] /\ y.ventas = {u \in V : c[u] = q[x]}
  <2> HIDE DEF q
  <2>1. Muestra(b, F, R, q)
    BY <1>4 DEF Muestra
  <2> QED BY <1>2, <2>1, FilasPorClave
<1>7. /\ [x \in R |-> x.total_ventas] = [x \in R |-> Parcial(Uno(Ventas), {v \in V : c[v] = q[x]})]
      /\ [x \in R |-> x.costo] = [x \in R |-> Parcial(CostoDe, {v \in V : c[v] = q[x]})]
      /\ [x \in R |-> x.utilidad] = [x \in R |-> Parcial(UtilidadDe, {v \in V : c[v] = q[x]})]
  <2>1. ASSUME NEW x \in R
        PROVE  /\ x.total_ventas = Parcial(Uno(Ventas), {v \in V : c[v] = q[x]})
               /\ x.costo = Parcial(CostoDe, {v \in V : c[v] = q[x]})
               /\ x.utilidad = Parcial(UtilidadDe, {v \in V : c[v] = q[x]})
    <3> DEFINE A == {u \in V : c[u] = q[x]}
    <3> HIDE DEF q
    <3>1. PICK y \in F : x = b[y] /\ y.ventas = A
      BY <1>6
    <3>2. A \in SUBSET Ventas
      BY <1>1
    <3> HIDE DEF A
    <3>3. x = fila(y) /\ y.ventas = A
      BY <1>5, <3>1
    <3>4. /\ fila(y).total_ventas = Cardinality(y.ventas) /\ fila(y).costo = SumaDe(CostoHistorico, y.ventas)
          /\ fila(y).utilidad = Utilidad(y.ventas)
      OBVIOUS
    <3>5. /\ x.total_ventas = Cardinality(A) /\ x.utilidad = Utilidad(A)
          /\ x.costo = SumaDe(CostoHistorico, A)
      BY <3>3, <3>4
    <3>6. /\ x.total_ventas = Parcial(Uno(Ventas), A) /\ x.costo = Parcial(CostoDe, A)
          /\ x.utilidad = Parcial(UtilidadDe, A)
      BY <3>2, <3>5, VendidoEsParte, UtilidadEsParte
    <3> QED BY <3>6 DEF A
  <2> QED BY <2>1
<1>8. /\ SumFunction([x \in R |-> x.total_ventas]) = Parcial(Uno(Ventas), V)
      /\ SumFunction([x \in R |-> x.costo]) = Parcial(CostoDe, V)
      /\ SumFunction([x \in R |-> x.utilidad]) = Parcial(UtilidadDe, V)
  <2> HIDE DEF q
  <2> QED BY <1>1, <1>6, <1>7, MontosEnteros, CostosEnteros, FilasSuman
<1> QED BY <1>8 DEF SumaDe, V, R

\* Rows by sale.
LEMMA TransaccionesSuman ==
  ASSUME RepTypeOK, NEW i, NEW j
  PROVE  LET filas == RentabilidadTransaccional(i, j)
             V == VentasDe(i, j)
         IN  /\ SumaDe(LAMBDA x : x.costo, filas) = Parcial(CostoDe, V)
             /\ SumaDe(LAMBDA x : x.utilidad, filas) = Parcial(UtilidadDe, V)
<1> DEFINE V == VentasDe(i, j)
           R == RentabilidadTransaccional(i, j)
           fila(v) == [venta |-> v, fecha |-> venta[v].fecha, subtotal |-> Subtotal(v),
                       costo |-> CostoHistorico(v), utilidad |-> Utilidad({v})]
           b == [v \in V |-> fila(v)]
<1>1. V \in SUBSET Ventas /\ IsFiniteSet(V)
  BY VentasDeParte, MontosEnteros, FS_Subset
<1>2. \A x : x \in R <=> \E v \in V : x = fila(v)
  BY DEF RentabilidadTransaccional
<1> HIDE DEF V, R
<1>3. ASSUME NEW v \in V
      PROVE  b[v] = fila(v) /\ fila(v).venta = v /\ fila(v).costo = CostoDe[v] /\ fila(v).utilidad = UtilidadDe[v]
  <2>1. v \in Ventas /\ {v} \in SUBSET Ventas
    BY <1>1
  <2>2. Utilidad({v}) = Parcial(UtilidadDe, {v})
    BY <2>1, UtilidadEsParte
  <2>3. Parcial(UtilidadDe, {v}) = UtilidadDe[v]
    <3>1. /\ Parcial(UtilidadDe, {}) = 0
          /\ \A A \in SUBSET Ventas : \A x \in A : Parcial(UtilidadDe, A) = UtilidadDe[x] + Parcial(UtilidadDe, A \ {x})
      BY CostosEnteros, MontosEnteros, SumaDePartes
    <3>2. Parcial(UtilidadDe, {v}) = UtilidadDe[v] + Parcial(UtilidadDe, {v} \ {v})
      BY <2>1, <3>1
    <3>3. {v} \ {v} = {} /\ UtilidadDe[v] \in Int
      BY <2>1, CostosEnteros
    <3> QED BY <3>1, <3>2, <3>3
  <2>4. /\ b[v] = fila(v) /\ fila(v).venta = v /\ fila(v).costo = CostoHistorico(v)
        /\ fila(v).utilidad = Utilidad({v})
    OBVIOUS
  <2> HIDE DEF b, fila
  <2> QED BY <2>1, <2>2, <2>3, <2>4 DEF CostoDe
<1> HIDE DEF b, fila
<1>4. /\ \A v \in V : b[v] \in R
      /\ \A v, u \in V : b[v] = b[u] => v = u
      /\ \A x \in R : \E v \in V : b[v] = x
  BY <1>2, <1>3
<1>5. PICK f, h : f = [x \in R |-> x.costo] /\ h = [v \in V |-> CostoDe[v]]
  OBVIOUS
<1>6. PICK k, l : k = [x \in R |-> x.utilidad] /\ l = [v \in V |-> UtilidadDe[v]]
  OBVIOUS
<1>7. Renombra(b, V, R, f, h) /\ f = [x \in R |-> f[x]] /\ h \in [V -> Int]
  <2>1. h \in [V -> Int] /\ f = [x \in R |-> f[x]]
    BY <1>1, <1>5, CostosEnteros
  <2>2. \A v \in V : f[b[v]] = h[v]
    BY <1>3, <1>4, <1>5
  <2> QED BY <1>4, <2>1, <2>2 DEF Renombra
<1>8. Renombra(b, V, R, k, l) /\ k = [x \in R |-> k[x]] /\ l \in [V -> Int]
  <2>1. l \in [V -> Int] /\ k = [x \in R |-> k[x]]
    BY <1>1, <1>6, CostosEnteros
  <2>2. \A v \in V : k[b[v]] = l[v]
    BY <1>3, <1>4, <1>6
  <2> QED BY <1>4, <2>1, <2>2 DEF Renombra
<1>9. SumFunction(f) = SumFunction(h) /\ SumFunction(k) = SumFunction(l)
  BY <1>1, <1>7, <1>8, SumaConNombre
<1> QED BY <1>5, <1>6, <1>9 DEF SumaDe, Parcial, V, R

\* What left for a sale cost what its article costs, when its output is still confirmed.
LEMMA CostoDeLaSalida ==
  ASSUME RepTypeOK, SalidasDeVentas, NEW v \in Ventas, Cardinality(Hay("VENTA", v)) = 1
  PROVE  /\ CostoHistorico(v) = Costo[Factura[v].articulo] * Factura[v].cantidad
         /\ ConFila(Factura[v].articulo) # {}
<1>1. movimientos \in Seq(Asientos) /\ DOMAIN movimientos = 1..Len(movimientos)
  BY DEF RepTypeOK
<1>2. PICK k : Hay("VENTA", v) = {k}
  <2>1. Hay("VENTA", v) \in SUBSET (1..Len(movimientos)) /\ IsFiniteSet(1..Len(movimientos))
    BY <1>1, FS_Interval DEF Hay
  <2>2. IsFiniteSet(Hay("VENTA", v))
    BY <2>1, FS_Subset
  <2> QED BY <2>2, FS_Singleton
<1>3. k \in DOMAIN movimientos /\ movimientos[k].de = "VENTA" /\ movimientos[k].id = v
  BY <1>2 DEF Hay
<1> DEFINE m == movimientos[k]
<1>4. /\ m \in Asientos /\ m.costo = Costo[m.articulo] /\ m.tipo = "EGRESO"
      /\ m.articulo = Factura[v].articulo /\ m.cantidad = Factura[v].cantidad
  BY <1>1, <1>3 DEF SalidasDeVentas, SalidaBien
<1>5. {n \in Hay("VENTA", v) : movimientos[n].tipo = "EGRESO"} = {k}
  BY <1>2, <1>4
<1>6. PICK g : g = [n \in {k} |-> movimientos[n].cantidad * movimientos[n].costo]
  OBVIOUS
<1>7. m.cantidad \in Nat /\ m.costo \in Nat /\ m.bodega \in LasBodegas
  BY <1>4 DEF Asientos
<1>8. \A n, p \in Nat : n * p \in Int /\ n * p = p * n
  OBVIOUS
<1>9. g[k] = m.cantidad * m.costo
  BY <1>6
<1> HIDE DEF m
<1>10. g[k] \in Int /\ g[k] = Costo[Factura[v].articulo] * Factura[v].cantidad
  <2>1. g[k] = m.costo * m.cantidad /\ g[k] \in Int
    BY <1>7, <1>8, <1>9
  <2> QED BY <1>4, <2>1
<1>11. SumFunction(g) = g[k]
  <2>1. IsFiniteSet({k}) /\ g \in [{k} -> Int] /\ \A y \in {k} \ {k} : g[y] = 0
    BY <1>6, <1>10, FS_Singleton
  <2> QED BY <2>1, SumaDeUno
<1>12. CostoHistorico(v) = SumFunction(g)
  BY <1>5, <1>6 DEF CostoHistorico, SumaDe
<1>13. m.bodega \in ConFila(Factura[v].articulo)
  BY <1>3, <1>4, <1>7 DEF ConFila, m
<1> QED BY <1>10, <1>11, <1>12, <1>13

\* While every output is confirmed and every article is there, the report by article tells the
\* same profit.
LEMMA ProductosSuman ==
  ASSUME RepTypeOK, SalidasDeVentas, NEW i, NEW j,
         \A v \in VentasDe(i, j) : Factura[v].articulo \in activo /\ Cardinality(Hay("VENTA", v)) = 1
  PROVE  /\ SumaDe(LAMBDA x : x.ganancia, ProductosVendidos(i, j)) = Parcial(UtilidadDe, VentasDe(i, j))
         /\ IsFiniteSet(ProductosVendidos(i, j))
<1> DEFINE V == VentasDe(i, j)
           R == ProductosVendidos(i, j)
           F == FilasPor(V, LAMBDA v : Factura[v].articulo)
           gana(y) == SumaDe(LAMBDA v : Subtotal(v) - (IF ConFila(y.clave) = {} THEN 0 ELSE
                                           Costo[y.clave] * Factura[v].cantidad), y.ventas)
           fila(y) == [producto |-> y.clave, cantidad |-> SumaDe(LAMBDA v : Factura[v].cantidad, y.ventas),
                       vendido |-> SumaDe(Subtotal, y.ventas), ganancia |-> gana(y)]
           c == [v \in V |-> Factura[v].articulo]
           q == [x \in R |-> x.producto]
           b == [y \in F |-> fila(y)]
<1>1. V \in SUBSET Ventas
  BY VentasDeParte
<1>2. SonFilas(F, V, c)
  <2>1. \A y : y \in F <=> \E v \in V : y = [clave |-> Factura[v].articulo,
                                          ventas |-> {u \in V : Factura[u].articulo = Factura[v].articulo}]
    BY DEF FilasPor
  <2>2. ASSUME NEW v \in V
        PROVE  /\ c[v] = Factura[v].articulo
               /\ {u \in V : c[u] = c[v]} = {u \in V : Factura[u].articulo = Factura[v].articulo}
    OBVIOUS
  <2> HIDE DEF F, c, V
  <2> QED BY <2>1, <2>2 DEF SonFilas
<1>3. \A x : x \in R <=> \E y \in F : x = fila(y)
  <2>1. {v \in V : Factura[v].articulo \in activo} = V
    OBVIOUS
  <2> QED BY <2>1 DEF ProductosVendidos
<1>4. \A v \in V : c[v] = Factura[v].articulo
  OBVIOUS
<1>5. \A v \in V : UtilidadDe[v] = Subtotal(v) - (IF ConFila(c[v]) = {} THEN 0 ELSE Costo[c[v]] * Factura[v].cantidad)
  BY <1>1, <1>4, CostoDeLaSalida DEF UtilidadDe
<1> HIDE DEF F, R, c, V
<1>6. /\ \A y \in F : b[y] \in R /\ q[b[y]] = y.clave
      /\ \A x \in R : \E y \in F : x = b[y]
  <2> HIDE DEF gana
  <2> QED BY <1>3
<1>7. \A y \in F : b[y] = fila(y)
  <2> HIDE DEF gana
  <2> QED OBVIOUS
<1> HIDE DEF b
<1>8. /\ UnaPorClave(R, q, V, c)
      /\ \A x \in R : \E y \in F : x = b[y] /\ y.ventas = {u \in V : c[u] = q[x]}
  <2> HIDE DEF q
  <2>1. Muestra(b, F, R, q)
    BY <1>6 DEF Muestra
  <2> QED BY <1>2, <2>1, FilasPorClave
<1>9. ASSUME NEW x \in R
      PROVE  x.ganancia = Parcial(UtilidadDe, {v \in V : c[v] = q[x]})
  <2> DEFINE A == {u \in V : c[u] = q[x]}
  <2> HIDE DEF q
  <2>1. PICK y \in F : x = b[y] /\ y.ventas = A
    BY <1>8
  <2>2. q[x] = y.clave
    BY <1>6, <2>1
  <2>3. x.ganancia = gana(y)
    <3> HIDE DEF gana
    <3>1. x = fila(y) /\ fila(y).ganancia = gana(y)
      BY <1>7, <2>1
    <3> QED BY <3>1
  <2>4. ASSUME NEW v \in A
        PROVE  Subtotal(v) - (IF ConFila(y.clave) = {} THEN 0 ELSE Costo[y.clave] * Factura[v].cantidad) = UtilidadDe[v]
    BY <1>5, <2>2
  <2> HIDE DEF A
  <2>5. gana(y) = SumFunction([v \in A |-> Subtotal(v) - (IF ConFila(y.clave) = {} THEN 0 ELSE
                                                       Costo[y.clave] * Factura[v].cantidad)])
    BY <2>1 DEF SumaDe
  <2>6. [v \in A |-> Subtotal(v) - (IF ConFila(y.clave) = {} THEN 0 ELSE Costo[y.clave] * Factura[v].cantidad)]
          = [v \in A |-> UtilidadDe[v]]
    BY <2>4
  <2>7. x.ganancia = Parcial(UtilidadDe, A)
    BY <2>3, <2>5, <2>6 DEF Parcial
  <2> QED BY <2>7 DEF A
<1>10. [x \in R |-> x.ganancia] = [x \in R |-> Parcial(UtilidadDe, {v \in V : c[v] = q[x]})]
  <2> HIDE DEF q
  <2> QED BY <1>9
<1>11. SumFunction([x \in R |-> x.ganancia]) = Parcial(UtilidadDe, V) /\ IsFiniteSet(R)
  <2> HIDE DEF q
  <2>1. IsFiniteSet(Ventas) /\ UtilidadDe \in [Ventas -> Int]
    BY MontosEnteros, CostosEnteros
  <2>2. PICK f : f = [x \in R |-> x.ganancia]
    OBVIOUS
  <2>3. f = [x \in R |-> Parcial(UtilidadDe, {v \in V : c[v] = q[x]})]
    BY <1>10, <2>2
  <2>4. UnaPorClave(R, q, V, c)
    BY <1>8
  <2>5. SumFunction(f) = Parcial(UtilidadDe, V) /\ IsFiniteSet(R)
    BY <1>1, <2>1, <2>3, <2>4, FilasSuman
  <2> QED BY <2>2, <2>5
<1> QED BY <1>11 DEF SumaDe, V, R

\* The three reports on profit agree wherever the invariant holds.
LEMMA UtilidadesConcuerdan ==
  ASSUME RepInv
  PROVE  UtilidadesCuadran
<1> DEFINE cliente == RentabilidadPorCliente(1, Todo)
           venta_ == RentabilidadTransaccional(1, Todo)
           filas == ProductosVendidos(1, Todo)
<1>1. RepTypeOK /\ SalidasDeVentas
  BY DEF RepInv
<1>2. /\ SumaDe(LAMBDA x : x.utilidad, cliente) = Parcial(UtilidadDe, VentasDe(1, Todo))
      /\ SumaDe(LAMBDA x : x.utilidad, cliente) = SumaDe(LAMBDA x : x.utilidad, venta_)
      /\ SumaDe(LAMBDA x : x.costo, cliente) = SumaDe(LAMBDA x : x.costo, venta_)
  <2>1. /\ SumaDe(LAMBDA x : x.utilidad, cliente) = Parcial(UtilidadDe, VentasDe(1, Todo))
        /\ SumaDe(LAMBDA x : x.costo, cliente) = Parcial(CostoDe, VentasDe(1, Todo))
    BY <1>1, ClientesSuman
  <2>2. /\ SumaDe(LAMBDA x : x.utilidad, venta_) = Parcial(UtilidadDe, VentasDe(1, Todo))
        /\ SumaDe(LAMBDA x : x.costo, venta_) = Parcial(CostoDe, VentasDe(1, Todo))
    BY <1>1, TransaccionesSuman
  <2> QED BY <2>1, <2>2
<1>3. ASSUME \A v \in Vigentes : Factura[v].articulo \in activo /\ Cardinality(Hay("VENTA", v)) = 1,
             Cardinality(filas) <= 100, NEW T \in TopProductos(1, Todo, 100)
      PROVE  SumaDe(LAMBDA x : x.ganancia, T) = SumaDe(LAMBDA x : x.utilidad, cliente)
  <2>1. VentasDe(1, Todo) = Vigentes
    BY <1>1, VentasDeParte
  <2>2. SumaDe(LAMBDA x : x.ganancia, filas) = Parcial(UtilidadDe, VentasDe(1, Todo)) /\ IsFiniteSet(filas)
    BY <1>1, <1>3, <2>1, ProductosSuman
  <2>3. Cardinality(filas) \in Nat
    BY <2>2, FS_CardinalityType
  <2>4. T \in SUBSET filas /\ Cardinality(T) = Cardinality(filas)
    BY <1>3, <2>3 DEF TopProductos
  <2>5. T = filas
    BY <2>2, <2>4, FS_Subset
  <2> QED BY <1>2, <2>2, <2>5
<1> QED BY <1>2, <1>3 DEF UtilidadesCuadran

-----------------------------------------------------------------------------
(* Sales by point, by branch and by month *)

\* Sums of a part by the values of a key.
LEMMA PartesPorClave ==
  ASSUME NEW S, IsFiniteSet(S), NEW g \in [S -> Int], NEW A \in SUBSET S,
         NEW K, IsFiniteSet(K), NEW c, \A x \in A : c[x] \in K,
         NEW f, f = [k \in K |-> f[k]], \A k \in K : f[k] = Parcial(g, {x \in A : c[x] = k})
  PROVE  SumFunction(f) = Parcial(g, A)
<1>1. f = [k \in K |-> Parcial(g, {x \in A : c[x] = k})]
  OBVIOUS
<1> QED BY <1>1, SumaPorClave

\* The sales of a point, those of a branch, and those that have none.
LEMMA PuntosYSucursales ==
  ASSUME RepTypeOK
  PROVE  LET r == ResumenVentas(1, Todo, Todas, Todas)
             sin == TotalVendido({v \in VentasDe(1, Todo) : Factura[v].punto = Nulo})
         IN  /\ SumaDe(LAMBDA p : ResumenVentas(1, Todo, p, Todas).total, Puntos) + sin = r.total
             /\ SumaDe(LAMBDA s : ResumenVentas(1, Todo, Todas, s).total, Sucursales) + sin = r.total
<1> DEFINE V == VentasDe(1, Todo)
           A == {v \in V : Factura[v].punto # Nulo}
           B == {v \in V : Factura[v].punto = Nulo}
           c == [v \in Ventas |-> Factura[v].punto]
           d == [v \in Ventas |-> SucursalDe[Factura[v].punto]]
           f == [p \in Puntos |-> ResumenVentas(1, Todo, p, Todas).total]
           h == [s \in Sucursales |-> ResumenVentas(1, Todo, Todas, s).total]
<1>1. /\ V \in SUBSET Ventas /\ A \in SUBSET Ventas /\ B \in SUBSET Ventas
      /\ V = A \cup B /\ A \cap B = {}
  BY VentasDeParte
<1>2. /\ IsFiniteSet(Puntos) /\ IsFiniteSet(Sucursales) /\ IsFiniteSet(Ventas) /\ MontoDe \in [Ventas -> Int]
      /\ Nulo \notin Puntos /\ Todas \notin Puntos /\ Todas \notin Sucursales
      /\ \A v \in A : Factura[v].punto \in Puntos /\ SucursalDe[Factura[v].punto] \in Sucursales
  BY <1>1, MontosEnteros, ReportesSupuestos
<1>3. Parcial(MontoDe, V) = Parcial(MontoDe, A) + Parcial(MontoDe, B)
  BY <1>1, <1>2, SumaUnion
<1>4. /\ TotalVendido(B) = Parcial(MontoDe, B) /\ Parcial(MontoDe, A) \in Int /\ Parcial(MontoDe, B) \in Int
      /\ ResumenVentas(1, Todo, Todas, Todas).total = Parcial(MontoDe, V)
  BY <1>1, <1>2, VendidoEsParte, ResumenDeTodas, SumaDePartes
<1>5. SumFunction(f) = Parcial(MontoDe, A)
  <2>1. ASSUME NEW p \in Puntos
        PROVE  f[p] = Parcial(MontoDe, {v \in A : c[v] = p})
    <3>1. {v \in V : (p = Todas \/ Factura[v].punto = p) /\ DeSucursal(v, Todas)} = {v \in A : c[v] = p}
      BY <1>1, <1>2 DEF DeSucursal
    <3>2. f[p] = TotalVendido({v \in A : c[v] = p})
      BY <3>1 DEF ResumenVentas
    <3> HIDE DEF f
    <3> QED BY <1>1, <3>2, VendidoEsParte
  <2>2. f = [p \in Puntos |-> f[p]] /\ \A v \in A : c[v] \in Puntos
    BY <1>1, <1>2
  <2> HIDE DEF f, c, A
  <2> QED BY <1>1, <1>2, <2>1, <2>2, PartesPorClave
<1>6. SumFunction(h) = Parcial(MontoDe, A)
  <2>1. ASSUME NEW s \in Sucursales
        PROVE  h[s] = Parcial(MontoDe, {v \in A : d[v] = s})
    <3>1. {v \in V : (Todas = Todas \/ Factura[v].punto = Todas) /\ DeSucursal(v, s)} = {v \in A : d[v] = s}
      BY <1>1, <1>2 DEF DeSucursal
    <3>2. h[s] = TotalVendido({v \in A : d[v] = s})
      BY <3>1 DEF ResumenVentas
    <3> HIDE DEF h
    <3> QED BY <1>1, <3>2, VendidoEsParte
  <2>2. h = [s \in Sucursales |-> h[s]] /\ \A v \in A : d[v] \in Sucursales
    BY <1>1, <1>2
  <2> HIDE DEF h, d, A
  <2> QED BY <1>1, <1>2, <2>1, <2>2, PartesPorClave
<1>7. /\ SumaDe(LAMBDA p : ResumenVentas(1, Todo, p, Todas).total, Puntos) = SumFunction(f)
      /\ SumaDe(LAMBDA s : ResumenVentas(1, Todo, Todas, s).total, Sucursales) = SumFunction(h)
  BY DEF SumaDe
<1> HIDE DEF f, h, A, B, V
<1>8. TotalVendido({v \in VentasDe(1, Todo) : Factura[v].punto = Nulo}) = Parcial(MontoDe, B)
  BY <1>4 DEF B, V
<1> QED BY <1>3, <1>4, <1>5, <1>6, <1>7, <1>8

\* What each document of S says, and the pairs X of the documents of V.
DeBloque(X, V, F, S, g, k, m) ==
  /\ X = {<<v, F[v]>> : v \in V} /\ \A v \in S : Importes(F[v])
  /\ g = [v \in S |-> Monto(F[v])] /\ k = [v \in S |-> F[v].iva] /\ m = [v \in S |-> F[v].cero]

\* A block of the tax report adds up what its documents say.
LEMMA BloqueSuma ==
  ASSUME NEW S, IsFiniteSet(S), NEW F, NEW V \in SUBSET S, NEW X, NEW g, NEW k, NEW m,
         DeBloque(X, V, F, S, g, k, m)
  PROVE  /\ Bloque(X).total = Parcial(g, V) /\ Bloque(X).monto_iva = Parcial(k, V)
         /\ Bloque(X).base_0 = Parcial(m, V) /\ Bloque(X).total_documentos = Cardinality(V)
<1>0. /\ X = {<<v, F[v]>> : v \in V} /\ \A v \in S : Importes(F[v])
      /\ g = [v \in S |-> Monto(F[v])] /\ k = [v \in S |-> F[v].iva] /\ m = [v \in S |-> F[v].cero]
  BY DEF DeBloque
<1>1. \A v \in S : Monto(F[v]) \in Int /\ F[v].iva \in Int /\ F[v].cero \in Int
  BY <1>0, MontoNatural DEF Importes
<1>2. \A x \in X : x[1] \in V /\ x[2] = F[x[1]]
  BY <1>0
<1>3. PICK f, h, l : f = [x \in X |-> Monto(x[2])] /\ h = [x \in X |-> x[2].iva] /\ l = [x \in X |-> x[2].cero]
  OBVIOUS
<1>4. g \in [S -> Int] /\ k \in [S -> Int] /\ m \in [S -> Int]
  BY <1>0, <1>1
<1>5. f \in [X -> Int] /\ h \in [X -> Int] /\ l \in [X -> Int]
  BY <1>1, <1>2, <1>3
<1>6. \A v \in V : f[<<v, F[v]>>] = g[v] /\ h[<<v, F[v]>>] = k[v] /\ l[<<v, F[v]>>] = m[v]
  BY <1>0, <1>3
<1>7. DePares(f, X, V, F, g) /\ DePares(h, X, V, F, k) /\ DePares(l, X, V, F, m)
  BY <1>0, <1>5, <1>6 DEF DePares
<1>8. SumFunction(f) = Parcial(g, V) /\ Cardinality(X) = Cardinality(V)
  BY <1>4, <1>7, ParesSuman
<1>9. SumFunction(h) = Parcial(k, V)
  BY <1>4, <1>7, ParesSuman
<1>10. SumFunction(l) = Parcial(m, V)
  BY <1>4, <1>7, ParesSuman
<1>11. /\ Bloque(X).total = SumFunction(f) /\ Bloque(X).monto_iva = SumFunction(h)
       /\ Bloque(X).base_0 = SumFunction(l) /\ Bloque(X).total_documentos = Cardinality(X)
  BY <1>3 DEF Bloque, SumaDe
<1> QED BY <1>8, <1>9, <1>10, <1>11

\* The months of the calendar are finitely many.
LEMMA MesesFinitos ==
  /\ IsFiniteSet(Dias) /\ IsFiniteSet(Meses)
  /\ \A f \in Dias : <<Mes[f], Anio[f]>> \in Meses
  /\ \A f : \A x \in Meses : EnMes(f, x[1], x[2]) <=> <<Mes[f], Anio[f]>> = x
<1>1. IsFiniteSet(Dias)
  BY FS_Interval, ReportesSupuestos DEF Dias
<1>2. PICK g : g = [f \in Dias |-> <<Mes[f], Anio[f]>>]
  OBVIOUS
<1>3. g \in Surjection(Dias, Meses)
  BY <1>2 DEF Surjection, Meses
<1>4. IsFiniteSet(Meses)
  BY <1>1, <1>3, FS_Surjection
<1>5. \A x \in Meses : x = <<x[1], x[2]>>
  BY DEF Meses
<1> QED BY <1>1, <1>4, <1>5 DEF Meses, EnMes

\* The sales of a month.
VentasDelMes(x) == {v \in Vigentes : <<Mes[venta[v].fecha], Anio[venta[v].fecha]>> = x}

\* The block of sales of the tax report of a month.
LEMMA VentasDelBloque ==
  ASSUME RepTypeOK, NEW x \in Meses
  PROVE  LET b == ImpuestosMensual(x[1], x[2], Todas, TRUE).ventas
         IN  /\ b.total = Parcial(MontoDe, VentasDelMes(x)) /\ b.total = TotalVendido(VentasDelMes(x))
             /\ b.monto_iva = Parcial(IvaDe, VentasDelMes(x))
             /\ b.base_0 = Parcial(CeroDe, VentasDelMes(x))
             /\ b.total_documentos = Cardinality(VentasDelMes(x))
<1>1. {v \in Vigentes : EnMes(venta[v].fecha, x[1], x[2]) /\ DeSucursal(v, Todas)} = VentasDelMes(x)
  BY MesesFinitos DEF DeSucursal, VentasDelMes
<1>2. ImpuestosMensual(x[1], x[2], Todas, TRUE).ventas = Bloque({<<v, Factura[v]>> : v \in VentasDelMes(x)})
  BY <1>1 DEF ImpuestosMensual
<1>3. VentasDelMes(x) \in SUBSET Ventas
  BY VentasDeParte DEF VentasDelMes
<1>4. IsFiniteSet(Ventas) /\ \A v \in Ventas : Importes(Factura[v])
  BY ReportesSupuestos
<1>5. TotalVendido(VentasDelMes(x)) = Parcial(MontoDe, VentasDelMes(x))
  BY <1>3, VendidoEsParte
<1>6. PICK X : X = {<<v, Factura[v]>> : v \in VentasDelMes(x)}
  OBVIOUS
<1>7. /\ MontoDe = [v \in Ventas |-> Monto(Factura[v])] /\ IvaDe = [v \in Ventas |-> Factura[v].iva]
      /\ CeroDe = [v \in Ventas |-> Factura[v].cero]
  BY DEF MontoDe, IvaDe, CeroDe
<1>8. /\ Bloque(X).total = Parcial(MontoDe, VentasDelMes(x)) /\ Bloque(X).monto_iva = Parcial(IvaDe, VentasDelMes(x))
      /\ Bloque(X).base_0 = Parcial(CeroDe, VentasDelMes(x))
      /\ Bloque(X).total_documentos = Cardinality(VentasDelMes(x))
  <2>1. DeBloque(X, VentasDelMes(x), Factura, Ventas, MontoDe, IvaDe, CeroDe)
    BY <1>4, <1>6, <1>7 DEF DeBloque
  <2> QED BY <1>3, <1>4, <2>1, BloqueSuma
<1> QED BY <1>2, <1>5, <1>6, <1>8

\* The months of the tax report add up to the sales there are.
LEMMA MesesSuman ==
  ASSUME RepTypeOK
  PROVE  LET b(x) == ImpuestosMensual(x[1], x[2], Todas, TRUE).ventas
         IN  /\ SumaDe(LAMBDA x : b(x).total, Meses) = Parcial(MontoDe, Vigentes)
             /\ SumaDe(LAMBDA x : b(x).monto_iva, Meses) = Parcial(IvaDe, Vigentes)
             /\ SumaDe(LAMBDA x : b(x).base_0, Meses) = Parcial(CeroDe, Vigentes)
<1> DEFINE b(x) == ImpuestosMensual(x[1], x[2], Todas, TRUE).ventas
           c == [v \in Vigentes |-> <<Mes[venta[v].fecha], Anio[venta[v].fecha]>>]
<1>1. /\ Vigentes \in SUBSET Ventas /\ IsFiniteSet(Ventas) /\ IsFiniteSet(Meses)
      /\ MontoDe \in [Ventas -> Int] /\ IvaDe \in [Ventas -> Int] /\ CeroDe \in [Ventas -> Int]
  BY VentasDeParte, MontosEnteros, MesesFinitos
<1>2. \A v \in Vigentes : c[v] \in Meses
  BY VentasDeParte, MesesFinitos
<1>3. \A x : {v \in Vigentes : c[v] = x} = VentasDelMes(x)
  BY DEF VentasDelMes
<1> HIDE DEF c
<1>4. PICK f, g, h : /\ f = [x \in Meses |-> b(x).total] /\ g = [x \in Meses |-> b(x).monto_iva]
                     /\ h = [x \in Meses |-> b(x).base_0]
  OBVIOUS
<1>5. ASSUME NEW x \in Meses
      PROVE  /\ f[x] = Parcial(MontoDe, {v \in Vigentes : c[v] = x})
             /\ g[x] = Parcial(IvaDe, {v \in Vigentes : c[v] = x})
             /\ h[x] = Parcial(CeroDe, {v \in Vigentes : c[v] = x})
  <2>1. /\ b(x).total = Parcial(MontoDe, VentasDelMes(x)) /\ b(x).monto_iva = Parcial(IvaDe, VentasDelMes(x))
        /\ b(x).base_0 = Parcial(CeroDe, VentasDelMes(x))
    BY VentasDelBloque
  <2> HIDE DEF b
  <2> QED BY <1>3, <1>4, <2>1
<1>6. f = [x \in Meses |-> f[x]] /\ g = [x \in Meses |-> g[x]] /\ h = [x \in Meses |-> h[x]]
  BY <1>4
<1>7. SumFunction(f) = Parcial(MontoDe, Vigentes)
  <2>1. \A x \in Meses : f[x] = Parcial(MontoDe, {v \in Vigentes : c[v] = x})
    BY <1>5
  <2> QED BY <1>1, <1>2, <1>6, <2>1, PartesPorClave
<1>8. SumFunction(g) = Parcial(IvaDe, Vigentes)
  <2>1. \A x \in Meses : g[x] = Parcial(IvaDe, {v \in Vigentes : c[v] = x})
    BY <1>5
  <2> QED BY <1>1, <1>2, <1>6, <2>1, PartesPorClave
<1>9. SumFunction(h) = Parcial(CeroDe, Vigentes)
  <2>1. \A x \in Meses : h[x] = Parcial(CeroDe, {v \in Vigentes : c[v] = x})
    BY <1>5
  <2> QED BY <1>1, <1>2, <1>6, <2>1, PartesPorClave
<1> QED BY <1>4, <1>7, <1>8, <1>9 DEF SumaDe

\* The trend by month shows what the tax report says of each month with sales.
LEMMA TendenciaMensual ==
  ASSUME RepTypeOK
  PROVE  LET b(x) == ImpuestosMensual(x[1], x[2], Todas, TRUE).ventas
         IN  Tendencias(1, Todo, "MENSUAL") =
               {[periodo |-> <<x[2], x[1]>>, total |-> b(x).total, total_ventas |-> b(x).total_documentos] :
                  x \in {y \in Meses : b(y).total_documentos > 0}}
<1> DEFINE b(x) == ImpuestosMensual(x[1], x[2], Todas, TRUE).ventas
           V == VentasDe(1, Todo)
           F == FilasPor(V, LAMBDA v : Periodo(venta[v].fecha, "MENSUAL"))
           L == Tendencias(1, Todo, "MENSUAL")
           fila(x) == [periodo |-> <<x[2], x[1]>>, total |-> TotalVendido(VentasDelMes(x)),
                       total_ventas |-> Cardinality(VentasDelMes(x))]
           mes(v) == <<Mes[venta[v].fecha], Anio[venta[v].fecha]>>
<1>1. V = Vigentes /\ V \in SUBSET Ventas /\ \A v \in V : venta[v].fecha \in Dias
  BY VentasDeParte
<1>2. \A v : Periodo(venta[v].fecha, "MENSUAL") = <<Anio[venta[v].fecha], Mes[venta[v].fecha]>>
  BY DEF Periodo
<1>3. \A y : y \in F <=> \E v \in V : y = [clave |-> <<mes(v)[2], mes(v)[1]>>, ventas |-> VentasDelMes(mes(v))]
  <2>1. \A y : y \in F <=> \E v \in V : y = [clave |-> Periodo(venta[v].fecha, "MENSUAL"),
          ventas |-> {u \in V : Periodo(venta[u].fecha, "MENSUAL") = Periodo(venta[v].fecha, "MENSUAL")}]
    BY DEF FilasPor
  <2>2. ASSUME NEW v \in V
        PROVE  /\ Periodo(venta[v].fecha, "MENSUAL") = <<mes(v)[2], mes(v)[1]>>
               /\ {u \in V : Periodo(venta[u].fecha, "MENSUAL") = Periodo(venta[v].fecha, "MENSUAL")} = VentasDelMes(mes(v))
    <3>1. \A u \in V : (Periodo(venta[u].fecha, "MENSUAL") = Periodo(venta[v].fecha, "MENSUAL")) <=> mes(u) = mes(v)
      BY <1>2
    <3> QED BY <1>1, <1>2, <3>1 DEF VentasDelMes
  <2> DEFINE k(v) == Periodo(venta[v].fecha, "MENSUAL")
             B(v) == {u \in V : Periodo(venta[u].fecha, "MENSUAL") = Periodo(venta[v].fecha, "MENSUAL")}
  <2>3. \A v \in V : k(v) = <<mes(v)[2], mes(v)[1]>> /\ B(v) = VentasDelMes(mes(v))
    BY <2>2
  <2>4. \A y : y \in F <=> \E v \in V : y = [clave |-> k(v), ventas |-> B(v)]
    BY <2>1
  <2> HIDE DEF F, V, mes, k, B
  <2> QED BY <2>3, <2>4
<1>4. \A z : z \in L <=> \E y \in F : z = [periodo |-> y.clave, total |-> TotalVendido(y.ventas),
                                          total_ventas |-> Cardinality(y.ventas)]
  BY DEF Tendencias
<1>5. \A z : z \in L <=> \E v \in V : z = fila(mes(v))
  <2> DEFINE dos(v) == [clave |-> <<mes(v)[2], mes(v)[1]>>, ventas |-> VentasDelMes(mes(v))]
             muestra(y) == [periodo |-> y.clave, total |-> TotalVendido(y.ventas), total_ventas |-> Cardinality(y.ventas)]
  <2>1. \A v \in V : muestra(dos(v)) = fila(mes(v))
    OBVIOUS
  <2>2. \A y : y \in F <=> \E v \in V : y = dos(v)
    BY <1>3
  <2>3. \A z : z \in L <=> \E y \in F : z = muestra(y)
    BY <1>4
  <2> HIDE DEF dos, muestra, fila, mes, F, V, L
  <2> QED BY <2>1, <2>2, <2>3
<1>6. \A x \in Meses : /\ fila(x) = [periodo |-> <<x[2], x[1]>>, total |-> b(x).total, total_ventas |-> b(x).total_documentos]
                       /\ b(x).total_documentos = Cardinality(VentasDelMes(x))
  <2>1. \A x \in Meses : /\ b(x).total = TotalVendido(VentasDelMes(x))
                         /\ b(x).total_documentos = Cardinality(VentasDelMes(x))
    BY VentasDelBloque
  <2> HIDE DEF b
  <2> QED BY <2>1
<1>7. ASSUME NEW x \in Meses
      PROVE  b(x).total_documentos > 0 <=> \E v \in V : mes(v) = x
  <2>1. VentasDelMes(x) \in SUBSET Ventas /\ IsFiniteSet(Ventas)
    BY <1>1, MontosEnteros DEF VentasDelMes
  <2>2. IsFiniteSet(VentasDelMes(x)) /\ Cardinality(VentasDelMes(x)) \in Nat
    BY <2>1, FS_Subset, FS_CardinalityType
  <2>3. Cardinality(VentasDelMes(x)) > 0 <=> VentasDelMes(x) # {}
    BY <2>2, FS_EmptySet
  <2>4. VentasDelMes(x) # {} <=> \E v \in V : mes(v) = x
    BY <1>1 DEF VentasDelMes
  <2> HIDE DEF b, mes, V
  <2> QED BY <1>6, <2>3, <2>4
<1>8. \A v \in V : mes(v) \in Meses
  BY <1>1, MesesFinitos
<1> DEFINE M == {y \in Meses : b(y).total_documentos > 0}
<1>9. \A x : x \in M <=> \E v \in V : x = mes(v)
  <2> HIDE DEF b, mes, V
  <2> QED BY <1>7, <1>8
<1>10. L = {fila(x) : x \in M}
  <2> HIDE DEF L, M, fila, mes, V
  <2> QED BY <1>5, <1>9
<1>11. {fila(x) : x \in M} = {[periodo |-> <<x[2], x[1]>>, total |-> b(x).total, total_ventas |-> b(x).total_documentos] : x \in M}
  <2>1. \A x \in M : x \in Meses
    OBVIOUS
  <2> HIDE DEF fila, b, M
  <2> QED BY <1>6, <2>1
<1> QED BY <1>10, <1>11

\* The reports on sales agree wherever the invariant holds.
LEMMA VentasConcuerdan ==
  ASSUME RepInv
  PROVE  VentasCuadran
<1>1. RepTypeOK
  BY DEF RepInv
<1>2. /\ VentasDe(1, Todo) = Vigentes
      /\ LET r == ResumenVentas(1, Todo, Todas, Todas)
         IN  /\ r.total = Parcial(MontoDe, Vigentes) /\ r.total_ventas = Parcial(Uno(Ventas), Vigentes)
             /\ r.monto_iva = Parcial(IvaDe, Vigentes) /\ r.subtotal_0 = Parcial(CeroDe, Vigentes)
  BY <1>1, VentasDeParte, ResumenDeTodas
<1>3. SumaDe(LAMBDA x : x.total_ventas, RentabilidadPorCliente(1, Todo)) = ResumenVentas(1, Todo, Todas, Todas).total_ventas
  <2>1. SumaDe(LAMBDA x : x.total_ventas, RentabilidadPorCliente(1, Todo)) = Parcial(Uno(Ventas), VentasDe(1, Todo))
    BY <1>1, ClientesSuman
  <2> QED BY <1>2, <2>1
<1>4. ASSUME NEW i \in Dias, NEW j \in i..Todo
      PROVE  LET r == ResumenVentas(i, j, Todas, Todas)
                 mide(filas) == /\ SumaDe(LAMBDA x : x.total, filas) = r.total
                                /\ SumaDe(LAMBDA x : x.total_ventas, filas) = r.total_ventas
             IN  /\ \A g \in Agrupaciones : mide(Tendencias(i, j, g))
                 /\ mide(PorVendedor(i, j))
  BY <1>1, TendenciasSuman, VendedoresSuman
<1>5. LET b(x) == ImpuestosMensual(x[1], x[2], Todas, TRUE).ventas
          r == ResumenVentas(1, Todo, Todas, Todas)
      IN  /\ SumaDe(LAMBDA x : b(x).total, Meses) = r.total
          /\ SumaDe(LAMBDA x : b(x).monto_iva, Meses) = r.monto_iva
          /\ SumaDe(LAMBDA x : b(x).base_0, Meses) = r.subtotal_0
  BY <1>1, <1>2, MesesSuman
<1> QED BY <1>1, <1>3, <1>4, <1>5, PuntosYSucursales, TendenciaMensual DEF VentasCuadran

-----------------------------------------------------------------------------
(* What was collected *)

\* A sum of the terms that meet a condition.
LEMMA SumaSi ==
  ASSUME NEW S, IsFiniteSet(S), NEW g \in [S -> Int], NEW A \in SUBSET S,
         NEW f, f = [x \in S |-> IF x \in A THEN g[x] ELSE 0]
  PROVE  SumFunction(f) = Parcial(g, A)
<1>1. f \in [S -> Int] /\ \A x \in A : f[x] = g[x]
  OBVIOUS
<1>2. SumFunction(f) = Parcial(f, S) /\ Parcial(f, A) \in Int
  BY <1>1, SumaDePartes
<1>3. Parcial(f, A \cup (S \ A)) = Parcial(f, A) + Parcial(f, S \ A)
  <2>1. (S \ A) \in SUBSET S /\ A \cap (S \ A) = {}
    OBVIOUS
  <2> QED BY <1>1, <2>1, SumaUnion
<1>4. Parcial(f, S \ A) = 0
  <2>1. (S \ A) \in SUBSET S /\ \A x \in S \ A : f[x] = 0
    OBVIOUS
  <2> QED BY <1>1, <2>1, SumaDeCeros
<1>5. Parcial(f, A) = Parcial(g, A)
  <2>1. [x \in A |-> f[x]] = [x \in A |-> g[x]]
    BY <1>1
  <2> QED BY <2>1 DEF Parcial
<1>6. Parcial(f, S) = Parcial(f, A) + Parcial(f, S \ A)
  <2>1. A \cup (S \ A) = S
    OBVIOUS
  <2> QED BY <1>3, <2>1
<1>7. Parcial(f, S) = Parcial(f, A)
  BY <1>2, <1>4, <1>6
<1> QED BY <1>2, <1>5, <1>7

\* What each payment, each withholding and each account says.
MontoDePago == [k \in DOMAIN pagos |-> pagos[k].monto]
ValorDe == [r \in Recibidas |-> Retenida[r].valor]
SaldoCobrar == [v \in Ventas |-> cxc[v].saldo]
PagosCobrar == [v \in Ventas |-> cxc[v].pagos]
RetenidoCobrar == [v \in Ventas |-> cxc[v].retenido]
Aplicadas == {r \in Recibidas : recibida[r].estado = "APLICADA"}

\* The types that sums of money need.
LEMMA CobrosEnteros ==
  ASSUME RepTypeOK
  PROVE  /\ IsFiniteSet(DOMAIN pagos) /\ MontoDePago \in [DOMAIN pagos -> Int]
         /\ \A k \in DOMAIN pagos : pagos[k].venta \in Ventas /\ pagos[k].fecha \in Dias
         /\ IsFiniteSet(Recibidas) /\ ValorDe \in [Recibidas -> Int]
         /\ \A r \in Recibidas : Retenida[r].venta \in Ventas /\ recibida[r].fecha \in Dias
         /\ Aplicadas \in SUBSET Recibidas /\ directas \in SUBSET Recibidas
         /\ SaldoCobrar \in [Ventas -> Int] /\ PagosCobrar \in [Ventas -> Int]
         /\ RetenidoCobrar \in [Ventas -> Int]
<1>1. pagos \in Seq([venta : Ventas, monto : Nat, forma : Formas, fecha : Dias])
  BY DEF RepTypeOK
<1>2. DOMAIN pagos = 1..Len(pagos) /\ Len(pagos) \in Nat
  BY <1>1
<1>3. \A k \in DOMAIN pagos : pagos[k] \in [venta : Ventas, monto : Nat, forma : Formas, fecha : Dias]
  <2> DEFINE T == [venta : Ventas, monto : Nat, forma : Formas, fecha : Dias]
  <2>1. pagos \in Seq(T)
    BY <1>1
  <2> HIDE DEF T
  <2>2. \A k \in DOMAIN pagos : pagos[k] \in T
    BY <2>1
  <2> QED BY <2>2 DEF T
<1>4. IsFiniteSet(DOMAIN pagos)
  BY <1>2, FS_Interval
<1>5. MontoDePago \in [DOMAIN pagos -> Int]
  BY <1>3 DEF MontoDePago
<1>6. \A r \in Recibidas : Retenida[r].venta \in Ventas /\ Retenida[r].valor \in Nat /\ recibida[r].fecha \in Dias
  BY ReportesSupuestos DEF RepTypeOK
<1>7. \A v \in Ventas : cxc[v].saldo \in Int /\ cxc[v].pagos \in Int /\ cxc[v].retenido \in Int
  BY DEF RepTypeOK, Cuentas
<1>8. IsFiniteSet(Recibidas) /\ Aplicadas \in SUBSET Recibidas /\ directas \in SUBSET Recibidas
  BY ReportesSupuestos DEF RepTypeOK, Aplicadas
<1> QED BY <1>3, <1>4, <1>5, <1>6, <1>7, <1>8 DEF ValorDe, SaldoCobrar, PagosCobrar, RetenidoCobrar

\* The cash of a day, whatever the form of payment.
LEMMA DineroDelDia ==
  ASSUME RepTypeOK, NEW f
  PROVE  CierreDiario(f, Todas).dinero = Parcial(MontoDePago, {k \in DOMAIN pagos : pagos[k].fecha = f})
<1> DEFINE P == {k \in DOMAIN pagos : pagos[k].fecha = f}
           K == {pagos[k].forma : k \in P}
           c == [k \in P |-> pagos[k].forma]
           h == [x \in K |-> SumaDe(LAMBDA k : pagos[k].monto, {k \in P : pagos[k].forma = x})]
<1>1. {k \in DOMAIN pagos : pagos[k].fecha = f /\ DeSucursal(pagos[k].venta, Todas)} = P
  BY DEF DeSucursal
<1>2. CierreDiario(f, Todas).dinero = SumFunction(h)
  BY <1>1 DEF CierreDiario, SumaDe
<1>3. P \in SUBSET DOMAIN pagos
  OBVIOUS
<1>4. IsFiniteSet(K)
  <2>1. c \in Surjection(P, K)
    BY DEF Surjection
  <2>2. IsFiniteSet(P)
    BY <1>3, CobrosEnteros, FS_Subset
  <2> QED BY <2>1, <2>2, FS_Surjection
<1>5. ASSUME NEW x \in K
      PROVE  h[x] = Parcial(MontoDePago, {k \in P : c[k] = x})
  <2>1. {k \in P : pagos[k].forma = x} = {k \in P : c[k] = x}
    OBVIOUS
  <2> DEFINE A == {k \in P : c[k] = x}
  <2>2. A \subseteq DOMAIN pagos
    OBVIOUS
  <2>3. h[x] = SumFunction([k \in A |-> pagos[k].monto])
    BY <2>1 DEF SumaDe
  <2> HIDE DEF A
  <2>4. [k \in A |-> pagos[k].monto] = [k \in A |-> MontoDePago[k]]
    BY <2>2 DEF MontoDePago
  <2>5. h[x] = Parcial(MontoDePago, A)
    BY <2>3, <2>4 DEF Parcial
  <2> QED BY <2>5 DEF A
<1>6. h = [x \in K |-> h[x]] /\ \A k \in P : c[k] \in K
  OBVIOUS
<1>7. SumFunction(h) = Parcial(MontoDePago, P)
  <2>1. IsFiniteSet(DOMAIN pagos) /\ MontoDePago \in [DOMAIN pagos -> Int]
    BY CobrosEnteros
  <2> HIDE DEF h, K, c, P
  <2> QED BY <1>3, <1>4, <1>5, <1>6, <2>1, PartesPorClave
<1> QED BY <1>2, <1>7

\* The cash of all days is what was paid.
LEMMA DineroDeLosDias ==
  ASSUME RepTypeOK
  PROVE  SumaDe(LAMBDA f : CierreDiario(f, Todas).dinero, Dias) = Parcial(MontoDePago, DOMAIN pagos)
<1> DEFINE h == [f \in Dias |-> CierreDiario(f, Todas).dinero]
           c == [k \in DOMAIN pagos |-> pagos[k].fecha]
<1>1. ASSUME NEW f \in Dias
      PROVE  h[f] = Parcial(MontoDePago, {k \in DOMAIN pagos : c[k] = f})
  <2>1. {k \in DOMAIN pagos : pagos[k].fecha = f} = {k \in DOMAIN pagos : c[k] = f}
    OBVIOUS
  <2>2. h[f] = CierreDiario(f, Todas).dinero
    OBVIOUS
  <2> HIDE DEF h, c
  <2> QED BY <2>1, <2>2, DineroDelDia
<1>2. h = [f \in Dias |-> h[f]] /\ \A k \in DOMAIN pagos : c[k] \in Dias
  BY CobrosEnteros
<1>3. SumaDe(LAMBDA f : CierreDiario(f, Todas).dinero, Dias) = SumFunction(h)
  BY DEF SumaDe
<1> HIDE DEF h, c
<1>4. SumFunction(h) = Parcial(MontoDePago, DOMAIN pagos)
  <2>1. DOMAIN pagos \in SUBSET DOMAIN pagos
    OBVIOUS
  <2> QED BY <1>1, <1>2, <2>1, MesesFinitos, CobrosEnteros, PartesPorClave
<1> QED BY <1>3, <1>4

\* The tax credit of all days is of the withholdings applied.
LEMMA CreditoDeLosDias ==
  ASSUME RepTypeOK
  PROVE  SumaDe(LAMBDA f : CierreDiario(f, Todas).credito, Dias) = Parcial(ValorDe, Aplicadas)
<1> DEFINE h == [f \in Dias |-> CierreDiario(f, Todas).credito]
           c == [r \in Aplicadas |-> recibida[r].fecha]
<1>1. ASSUME NEW f \in Dias
      PROVE  h[f] = Parcial(ValorDe, {r \in Aplicadas : c[r] = f})
  <2> DEFINE A == {r \in Aplicadas : c[r] = f}
  <2>1. {r \in Recibidas : /\ recibida[r].estado = "APLICADA" /\ recibida[r].fecha = f
                           /\ DeSucursal(Retenida[r].venta, Todas)} = A
    BY DEF Aplicadas, DeSucursal
  <2>2. h[f] = SumFunction([r \in A |-> Retenida[r].valor])
    BY <2>1 DEF CierreDiario, SumaDe
  <2>3. A \subseteq Recibidas
    BY DEF Aplicadas
  <2> HIDE DEF A, h
  <2>4. [r \in A |-> Retenida[r].valor] = [r \in A |-> ValorDe[r]]
    BY <2>3 DEF ValorDe
  <2>5. h[f] = Parcial(ValorDe, A)
    BY <2>2, <2>4 DEF Parcial
  <2> QED BY <2>5 DEF A
<1>2. h = [f \in Dias |-> h[f]] /\ \A r \in Aplicadas : c[r] \in Dias
  BY CobrosEnteros
<1>3. SumaDe(LAMBDA f : CierreDiario(f, Todas).credito, Dias) = SumFunction(h)
  BY DEF SumaDe
<1> HIDE DEF h, c
<1>4. SumFunction(h) = Parcial(ValorDe, Aplicadas)
  BY <1>1, <1>2, MesesFinitos, CobrosEnteros, PartesPorClave
<1> QED BY <1>3, <1>4

\* The tax credit of all months is of the same withholdings, under one code or the other.
LEMMA CreditoDeLosMeses ==
  ASSUME RepTypeOK
  PROVE  SumaDe(LAMBDA x : LET m == ImpuestosMensual(x[1], x[2], Todas, TRUE).recibidas
                           IN  m["1"] + m["2"], Meses) = Parcial(ValorDe, Aplicadas)
<1> DEFINE m(x) == ImpuestosMensual(x[1], x[2], Todas, TRUE).recibidas
           h == [x \in Meses |-> m(x)["1"] + m(x)["2"]]
           c == [r \in Aplicadas |-> <<Mes[recibida[r].fecha], Anio[recibida[r].fecha]>>]
<1>1. ASSUME NEW x \in Meses
      PROVE  h[x] = Parcial(ValorDe, {r \in Aplicadas : c[r] = x})
  <2> DEFINE R == {r \in Aplicadas : c[r] = x}
             con(k) == {r \in R : Retenida[r].codigo = k}
  <2>1. {r \in Recibidas : /\ recibida[r].estado = "APLICADA" /\ EnMes(recibida[r].fecha, x[1], x[2])
                           /\ DeSucursal(Retenida[r].venta, Todas)} = R
    BY MesesFinitos DEF Aplicadas, DeSucursal
  <2>2. R \in SUBSET Recibidas
    BY DEF Aplicadas
  <2>3. m(x) = [k \in {"1", "2"} |-> SumaDe(LAMBDA r : Retenida[r].valor, con(k))]
    <3>1. m(x) = [k \in {"1", "2"} |-> SumaDe(LAMBDA r : Retenida[r].valor,
                   {r \in {r \in Recibidas : /\ recibida[r].estado = "APLICADA" /\ EnMes(recibida[r].fecha, x[1], x[2])
                                             /\ DeSucursal(Retenida[r].venta, Todas)} : Retenida[r].codigo = k})]
      BY DEF ImpuestosMensual
    <3> QED BY <2>1, <3>1
  <2>4. h[x] = m(x)["1"] + m(x)["2"]
    OBVIOUS
  <2> HIDE DEF R, h, m
  <2>5. ASSUME NEW k \in {"1", "2"}
        PROVE  m(x)[k] = Parcial(ValorDe, con(k))
    <3>1. con(k) \subseteq Recibidas
      BY <2>2
    <3>2. m(x)[k] = SumFunction([r \in con(k) |-> Retenida[r].valor])
      BY <2>3 DEF SumaDe
    <3> HIDE DEF con
    <3>3. [r \in con(k) |-> Retenida[r].valor] = [r \in con(k) |-> ValorDe[r]]
      BY <3>1 DEF ValorDe
    <3> QED BY <3>2, <3>3 DEF Parcial
  <2>6. con("1") \cup con("2") = R /\ con("1") \cap con("2") = {}
        /\ con("1") \in SUBSET Recibidas /\ con("2") \in SUBSET Recibidas
    BY <2>2, ReportesSupuestos
  <2> HIDE DEF con
  <2>7. Parcial(ValorDe, R) = Parcial(ValorDe, con("1")) + Parcial(ValorDe, con("2"))
    <3>1. Parcial(ValorDe, con("1") \cup con("2")) = Parcial(ValorDe, con("1")) + Parcial(ValorDe, con("2"))
      BY <2>6, CobrosEnteros, SumaUnion
    <3> QED BY <2>6, <3>1
  <2>8. h[x] = Parcial(ValorDe, R)
    BY <2>4, <2>5, <2>7
  <2> QED BY <2>8 DEF R
<1>2. h = [x \in Meses |-> h[x]] /\ \A r \in Aplicadas : c[r] \in Meses
  <2>1. \A r \in Aplicadas : recibida[r].fecha \in Dias
    BY CobrosEnteros
  <2> HIDE DEF m
  <2> QED BY <2>1, MesesFinitos
<1>3. SumaDe(LAMBDA x : LET m_ == ImpuestosMensual(x[1], x[2], Todas, TRUE).recibidas
                        IN  m_["1"] + m_["2"], Meses) = SumFunction(h)
  BY DEF SumaDe
<1> HIDE DEF h, c
<1>4. SumFunction(h) = Parcial(ValorDe, Aplicadas)
  BY <1>1, <1>2, MesesFinitos, CobrosEnteros, PartesPorClave
<1> QED BY <1>3, <1>4

\* What the sales say was paid is what the payments add up to.
LEMMA PagosDeLasVentas ==
  ASSUME RepInv
  PROVE  Parcial(PagosCobrar, Ventas) = Parcial(MontoDePago, DOMAIN pagos)
<1> DEFINE c == [k \in DOMAIN pagos |-> pagos[k].venta]
           D == DOMAIN pagos
<1>0. RepTypeOK /\ PagosSumados
  BY DEF RepInv
<1>1. ASSUME NEW v \in Ventas
      PROVE  PagosCobrar[v] = Parcial(MontoDePago, {k \in D : c[k] = v})
  <2>1. PICK A : A = {k \in D : c[k] = v}
    OBVIOUS
  <2>2. A \in SUBSET D
    BY <2>1
  <2>3. PICK f : f = PagosDe(v)
    OBVIOUS
  <2>4. f = [k \in D |-> IF k \in A THEN MontoDePago[k] ELSE 0]
    BY <2>1, <2>3 DEF PagosDe, MontoDePago
  <2>5. SumFunction(f) = Parcial(MontoDePago, A)
    <3>1. IsFiniteSet(D) /\ MontoDePago \in [D -> Int]
      BY <1>0, CobrosEnteros
    <3> HIDE DEF D
    <3> QED BY <2>2, <2>4, <3>1, SumaSi
  <2> QED BY <1>0, <2>1, <2>3, <2>5 DEF PagosSumados, PagosCobrar
<1>2. PagosCobrar = [v \in Ventas |-> PagosCobrar[v]] /\ \A k \in D : c[k] \in Ventas
  BY <1>0, CobrosEnteros DEF PagosCobrar
<1>3. /\ IsFiniteSet(D) /\ MontoDePago \in [D -> Int] /\ D \in SUBSET D /\ IsFiniteSet(Ventas)
      /\ PagosCobrar \in [Ventas -> Int]
  BY <1>0, CobrosEnteros, MontosEnteros
<1> HIDE DEF c, D
<1>4. SumFunction(PagosCobrar) = Parcial(MontoDePago, D)
  BY <1>1, <1>2, <1>3, PartesPorClave
<1>5. SumFunction(PagosCobrar) = Parcial(PagosCobrar, Ventas)
  BY <1>3, SumaDePartes
<1> QED BY <1>4, <1>5 DEF D

\* What the sales say was withheld: what is applied, but for what was created APLICADA.
LEMMA RetenidoDeLasVentas ==
  ASSUME RepInv
  PROVE  Parcial(RetenidoCobrar, Ventas) = Parcial(ValorDe, Aplicadas) - Parcial(ValorDe, directas)
<1> DEFINE c == [r \in Recibidas |-> Retenida[r].venta]
           g == [r \in Recibidas |-> Aporte(r)]
<1>0. RepTypeOK /\ RetenidoSumado
  BY DEF RepInv
<1>1. /\ IsFiniteSet(Recibidas) /\ ValorDe \in [Recibidas -> Int] /\ IsFiniteSet(Ventas)
      /\ RetenidoCobrar \in [Ventas -> Int] /\ Aplicadas \in SUBSET Recibidas /\ directas \in SUBSET Recibidas
      /\ Recibidas \in SUBSET Recibidas
  BY <1>0, CobrosEnteros, MontosEnteros
<1>2. \A r \in Recibidas : Aporte(r) \in Int
  BY ReportesSupuestos DEF Aporte
<1>3. g \in [Recibidas -> Int]
  BY <1>2
<1>4. ASSUME NEW v \in Ventas
      PROVE  RetenidoCobrar[v] = Parcial(g, {r \in Recibidas : c[r] = v})
  <2>1. PICK A : A = {r \in Recibidas : c[r] = v}
    OBVIOUS
  <2>2. A \in SUBSET Recibidas
    BY <2>1
  <2>3. PICK f : f = AportesA(v)
    OBVIOUS
  <2>4. f = [r \in Recibidas |-> IF r \in A THEN g[r] ELSE 0]
    BY <2>1, <2>3 DEF AportesA
  <2>5. SumFunction(f) = Parcial(g, A)
    <3> HIDE DEF g
    <3> QED BY <1>1, <1>3, <2>2, <2>4, SumaSi
  <2> QED BY <1>0, <2>1, <2>3, <2>5 DEF RetenidoSumado, RetenidoCobrar
<1>5. RetenidoCobrar = [v \in Ventas |-> RetenidoCobrar[v]] /\ \A r \in Recibidas : c[r] \in Ventas
  BY <1>0, CobrosEnteros DEF RetenidoCobrar
<1>6. PICK a, d : /\ a = [r \in Recibidas |-> IF r \in Aplicadas THEN ValorDe[r] ELSE 0]
                  /\ d = [r \in Recibidas |-> IF r \in directas THEN 0 - ValorDe[r] ELSE 0]
  OBVIOUS
<1>7. PICK w : w = [r \in Recibidas |-> 0 - ValorDe[r]]
  OBVIOUS
<1>8. a \in [Recibidas -> Int] /\ d \in [Recibidas -> Int] /\ w \in [Recibidas -> Int]
  BY <1>1, <1>6, <1>7
<1>9. g = [r \in Recibidas |-> a[r] + d[r]]
  <2>1. ASSUME NEW r \in Recibidas PROVE Aporte(r) = a[r] + d[r]
    <3>1. /\ a[r] = IF r \in Aplicadas THEN ValorDe[r] ELSE 0
          /\ d[r] = IF r \in directas THEN 0 - ValorDe[r] ELSE 0
      BY <1>6
    <3>2. ValorDe[r] = Retenida[r].valor /\ ValorDe[r] \in Int /\ (r \in Aplicadas <=> recibida[r].estado = "APLICADA")
      BY <1>1 DEF ValorDe, Aplicadas
    <3> QED BY <3>1, <3>2 DEF Aporte
  <2> QED BY <2>1
<1> HIDE DEF g, c
<1>10. SumFunction(RetenidoCobrar) = Parcial(g, Recibidas)
  BY <1>1, <1>3, <1>4, <1>5, PartesPorClave
<1>11. SumFunction(RetenidoCobrar) = Parcial(RetenidoCobrar, Ventas) /\ SumFunction(g) = Parcial(g, Recibidas)
  BY <1>1, <1>3, SumaDePartes
<1>12. SumFunction(g) = Parcial(a, Recibidas) + Parcial(d, Recibidas)
  BY <1>1, <1>8, <1>9, SumaDeSumas
<1>13. Parcial(a, Recibidas) = Parcial(ValorDe, Aplicadas)
  <2>1. SumFunction(a) = Parcial(ValorDe, Aplicadas)
    BY <1>1, <1>6, SumaSi
  <2> QED BY <1>1, <1>8, <2>1, SumaDePartes
<1>14. Parcial(d, Recibidas) = Parcial(w, directas)
  <2>1. d = [r \in Recibidas |-> IF r \in directas THEN w[r] ELSE 0]
    BY <1>6, <1>7
  <2>2. SumFunction(d) = Parcial(w, directas)
    BY <1>1, <1>8, <2>1, SumaSi
  <2> QED BY <1>1, <1>8, <2>2, SumaDePartes
<1>15. Parcial(w, directas) = 0 - Parcial(ValorDe, directas)
  <2>1. SumFunction([r \in directas |-> ValorDe[r] + w[r]]) = Parcial(ValorDe, directas) + Parcial(w, directas)
    BY <1>1, <1>8, SumaDeSumas
  <2>2. [r \in directas |-> ValorDe[r] + w[r]] = [r \in directas |-> 0]
    BY <1>1, <1>7
  <2>3. SumFunction([r \in directas |-> 0]) = 0
    BY <1>1, FS_Subset, SumaCeros
  <2>4. Parcial(ValorDe, directas) \in Int /\ Parcial(w, directas) \in Int
    BY <1>1, <1>8, SumaDePartes
  <2> QED BY <2>1, <2>2, <2>3, <2>4
<1>16. Parcial(ValorDe, directas) \in Int /\ Parcial(ValorDe, Aplicadas) \in Int
  BY <1>1, SumaDePartes
<1> QED BY <1>10, <1>11, <1>12, <1>13, <1>14, <1>15, <1>16

Emitidas == {v \in Ventas : venta[v].estado = "EMITIDA"}

\* What was invoiced is still owed, was paid or was withheld.
LEMMA VentasCobradas ==
  ASSUME RepInv
  PROVE  Parcial(MontoDe, Emitidas) =
           Parcial(SaldoCobrar, Ventas) + Parcial(PagosCobrar, Ventas) + Parcial(RetenidoCobrar, Ventas)
<1>0. RepTypeOK /\ CobrosPorEstado
  BY DEF RepInv
<1>1. /\ IsFiniteSet(Ventas) /\ MontoDe \in [Ventas -> Int] /\ SaldoCobrar \in [Ventas -> Int]
      /\ PagosCobrar \in [Ventas -> Int] /\ RetenidoCobrar \in [Ventas -> Int]
      /\ Emitidas \in SUBSET Ventas /\ Ventas \in SUBSET Ventas
  BY <1>0, CobrosEnteros, MontosEnteros DEF Emitidas
<1>2. PICK g, h : /\ g = [v \in Ventas |-> IF v \in Emitidas THEN MontoDe[v] ELSE 0]
                  /\ h = [v \in Ventas |-> SaldoCobrar[v] + PagosCobrar[v]]
  OBVIOUS
<1>3. h \in [Ventas -> Int]
  BY <1>1, <1>2
<1>4. g = [v \in Ventas |-> h[v] + RetenidoCobrar[v]]
  <2>1. ASSUME NEW v \in Ventas
        PROVE  (IF v \in Emitidas THEN MontoDe[v] ELSE 0) = h[v] + RetenidoCobrar[v]
    <3>1. /\ h[v] + RetenidoCobrar[v] = cxc[v].saldo + cxc[v].pagos + cxc[v].retenido
          /\ MontoDe[v] = Monto(Factura[v]) /\ MontoDe[v] \in Int
          /\ cxc[v].saldo \in Int /\ cxc[v].pagos \in Int /\ cxc[v].retenido \in Int
      <4>1. SaldoCobrar[v] \in Int /\ PagosCobrar[v] \in Int /\ RetenidoCobrar[v] \in Int /\ MontoDe[v] \in Int
        BY <1>1
      <4>2. SaldoCobrar[v] = cxc[v].saldo /\ PagosCobrar[v] = cxc[v].pagos /\ RetenidoCobrar[v] = cxc[v].retenido
            /\ MontoDe[v] = Monto(Factura[v])
        BY DEF SaldoCobrar, PagosCobrar, RetenidoCobrar, MontoDe
      <4> QED BY <1>2, <4>1, <4>2
    <3>2. venta[v].estado \in {"NINGUNA", "BORRADOR", "EMITIDA", "ANULADA"}
      BY <1>0 DEF RepTypeOK
    <3>3. CASE venta[v].estado = "EMITIDA"
      <4>1. cxc[v].saldo = Monto(Factura[v]) - cxc[v].retenido - cxc[v].pagos
        BY <1>0, <3>3 DEF CobrosPorEstado, CuentaAbierta
      <4> QED BY <3>1, <3>3, <4>1 DEF Emitidas
    <3>4. CASE venta[v].estado # "EMITIDA"
      <4>1. cxc[v].saldo = 0 /\ cxc[v].pagos = 0 /\ cxc[v].retenido = 0
        BY <1>0, <3>2, <3>4 DEF CobrosPorEstado, SinCuenta
      <4> QED BY <3>1, <3>4, <4>1 DEF Emitidas
    <3> QED BY <3>3, <3>4
  <2> QED BY <1>2, <2>1
<1>5. SumFunction(g) = Parcial(MontoDe, Emitidas)
  BY <1>1, <1>2, SumaSi
<1>6. SumFunction(g) = Parcial(h, Ventas) + Parcial(RetenidoCobrar, Ventas)
  BY <1>1, <1>3, <1>4, SumaDeSumas
<1>7. SumFunction(h) = Parcial(SaldoCobrar, Ventas) + Parcial(PagosCobrar, Ventas)
  BY <1>1, <1>2, SumaDeSumas
<1>8. SumFunction(h) = Parcial(h, Ventas)
  BY <1>1, <1>3, SumaDePartes
<1>9. Parcial(SaldoCobrar, Ventas) \in Int /\ Parcial(PagosCobrar, Ventas) \in Int /\ Parcial(RetenidoCobrar, Ventas) \in Int
  BY <1>1, SumaDePartes
<1> QED BY <1>5, <1>6, <1>7, <1>8, <1>9

\* The portfolio of the customers is what is owed on sales that have one.
LEMMA CarteraDeClientes ==
  ASSUME RepTypeOK
  PROVE  SumaDe(LAMBDA x : x.saldo, CarteraCobrar) =
           Parcial(SaldoCobrar, {v \in Ventas : PorCobrar(cxc[v]) /\ Factura[v].cliente # Nulo})
<1> DEFINE V == {v \in Ventas : PorCobrar(cxc[v]) /\ Factura[v].cliente # Nulo}
           R == CarteraCobrar
           F == FilasPor(V, LAMBDA v : Factura[v].cliente)
           fila(y) == [cliente |-> y.clave, saldo |-> SumaDe(LAMBDA v : cxc[v].saldo, y.ventas)]
           c == [v \in V |-> Factura[v].cliente]
           q == [x \in R |-> x.cliente]
           b == [y \in F |-> fila(y)]
<1>1. V \in SUBSET Ventas
  OBVIOUS
<1>2. SonFilas(F, V, c)
  <2>1. \A y : y \in F <=> \E v \in V : y = [clave |-> Factura[v].cliente,
                                          ventas |-> {u \in V : Factura[u].cliente = Factura[v].cliente}]
    BY DEF FilasPor
  <2>2. ASSUME NEW v \in V
        PROVE  /\ c[v] = Factura[v].cliente
               /\ {u \in V : c[u] = c[v]} = {u \in V : Factura[u].cliente = Factura[v].cliente}
    OBVIOUS
  <2> HIDE DEF F, c, V
  <2> QED BY <2>1, <2>2 DEF SonFilas
<1>3. \A x : x \in R <=> \E y \in F : x = fila(y)
  BY DEF CarteraCobrar
<1> HIDE DEF F, R, c, V
<1>4. /\ \A y \in F : b[y] \in R /\ q[b[y]] = y.clave
      /\ \A x \in R : \E y \in F : x = b[y]
  BY <1>3
<1>5. \A y \in F : b[y] = fila(y)
  OBVIOUS
<1> HIDE DEF b
<1>6. /\ UnaPorClave(R, q, V, c)
      /\ \A x \in R : \E y \in F : x = b[y] /\ y.ventas = {u \in V : c[u] = q[x]}
  <2> HIDE DEF q
  <2>1. Muestra(b, F, R, q)
    BY <1>4 DEF Muestra
  <2> QED BY <1>2, <2>1, FilasPorClave
<1>7. ASSUME NEW x \in R
      PROVE  x.saldo = Parcial(SaldoCobrar, {v \in V : c[v] = q[x]})
  <2> DEFINE A == {u \in V : c[u] = q[x]}
  <2> HIDE DEF q
  <2>1. PICK y \in F : x = b[y] /\ y.ventas = A
    BY <1>6
  <2>2. A \subseteq Ventas
    BY <1>1
  <2> HIDE DEF A
  <2>3. x.saldo = SumFunction([v \in A |-> cxc[v].saldo])
    <3>1. x = fila(y) /\ fila(y).saldo = SumaDe(LAMBDA v : cxc[v].saldo, y.ventas)
      BY <1>5, <2>1
    <3>2. SumaDe(LAMBDA v : cxc[v].saldo, y.ventas) = SumFunction([v \in A |-> cxc[v].saldo])
      BY <2>1 DEF SumaDe
    <3> HIDE DEF fila
    <3> QED BY <3>1, <3>2
  <2>4. [v \in A |-> cxc[v].saldo] = [v \in A |-> SaldoCobrar[v]]
    BY <2>2 DEF SaldoCobrar
  <2>5. x.saldo = Parcial(SaldoCobrar, A)
    BY <2>3, <2>4 DEF Parcial
  <2> QED BY <2>5 DEF A
<1>8. [x \in R |-> x.saldo] = [x \in R |-> Parcial(SaldoCobrar, {v \in V : c[v] = q[x]})]
  <2> HIDE DEF q
  <2> QED BY <1>7
<1>9. SumFunction([x \in R |-> x.saldo]) = Parcial(SaldoCobrar, V)
  <2> HIDE DEF q
  <2>1. IsFiniteSet(Ventas) /\ SaldoCobrar \in [Ventas -> Int] /\ UnaPorClave(R, q, V, c)
    BY <1>6, CobrosEnteros, MontosEnteros
  <2>2. PICK f : f = [x \in R |-> x.saldo]
    OBVIOUS
  <2>3. f = [x \in R |-> Parcial(SaldoCobrar, {v \in V : c[v] = q[x]})]
    BY <1>8, <2>2
  <2>4. SumFunction(f) = Parcial(SaldoCobrar, V)
    BY <1>1, <2>1, <2>3, FilasSuman
  <2> QED BY <2>2, <2>4
<1> QED BY <1>9 DEF SumaDe, V, R

\* What is owed: by the customers, and on issued sales without one.
LEMMA SaldosRepartidos ==
  ASSUME RepInv
  PROVE  Parcial(SaldoCobrar, Ventas) =
           SumaDe(LAMBDA x : x.saldo, CarteraCobrar)
             + SumaDe(LAMBDA v : cxc[v].saldo, {v \in Emitidas : Factura[v].cliente = Nulo})
<1> DEFINE A == {v \in Ventas : PorCobrar(cxc[v]) /\ Factura[v].cliente # Nulo}
           B == {v \in Emitidas : Factura[v].cliente = Nulo}
           D == Ventas \ (A \cup B)
<1>0. RepTypeOK /\ CobrosPorEstado
  BY DEF RepInv
<1>1. IsFiniteSet(Ventas) /\ SaldoCobrar \in [Ventas -> Int]
  BY <1>0, CobrosEnteros, MontosEnteros
<1>2. /\ A \in SUBSET Ventas /\ B \in SUBSET Ventas /\ D \in SUBSET Ventas /\ (A \cup B) \in SUBSET Ventas
      /\ A \cap B = {} /\ (A \cup B) \cap D = {} /\ (A \cup B) \cup D = Ventas
  BY DEF Emitidas
<1>3. ASSUME NEW v \in D PROVE SaldoCobrar[v] = 0
  <2>1. /\ v \in Ventas /\ SaldoCobrar[v] = cxc[v].saldo /\ cxc[v].saldo \in Int
        /\ venta[v].estado \in {"NINGUNA", "BORRADOR", "EMITIDA", "ANULADA"}
    BY <1>0, <1>1 DEF SaldoCobrar, RepTypeOK
  <2>2. CASE venta[v].estado = "EMITIDA"
    <3>1. /\ cxc[v].saldo >= 0 /\ cxc[v].estado \in {"PENDIENTE", "PARCIAL", "PAGADA"}
          /\ cxc[v].saldo > 0 => cxc[v].estado # "PAGADA"
      BY <1>0, <2>1, <2>2 DEF CobrosPorEstado, CuentaAbierta
    <3>2. cxc[v].saldo > 0 => v \in A \cup B
      BY <2>1, <2>2, <3>1 DEF PorCobrar, Emitidas
    <3> QED BY <2>1, <3>1, <3>2
  <2>3. CASE venta[v].estado # "EMITIDA"
    BY <1>0, <2>1, <2>3 DEF CobrosPorEstado, SinCuenta
  <2> QED BY <2>2, <2>3
<1>4. SumaDe(LAMBDA x : x.saldo, CarteraCobrar) = Parcial(SaldoCobrar, A)
  BY <1>0, CarteraDeClientes
<1>5. SumaDe(LAMBDA v : cxc[v].saldo, B) = Parcial(SaldoCobrar, B)
  <2>1. B \subseteq Ventas
    BY <1>2
  <2> HIDE DEF B
  <2>2. [v \in B |-> cxc[v].saldo] = [v \in B |-> SaldoCobrar[v]]
    BY <2>1 DEF SaldoCobrar
  <2> QED BY <2>2 DEF SumaDe, Parcial
<1> HIDE DEF A, B, D
<1>6. Parcial(SaldoCobrar, D) = 0
  BY <1>1, <1>2, <1>3, SumaDeCeros
<1>7. Parcial(SaldoCobrar, A \cup B) = Parcial(SaldoCobrar, A) + Parcial(SaldoCobrar, B)
  BY <1>1, <1>2, SumaUnion
<1>8. Parcial(SaldoCobrar, (A \cup B) \cup D) = Parcial(SaldoCobrar, A \cup B) + Parcial(SaldoCobrar, D)
  BY <1>1, <1>2, SumaUnion
<1>9. Parcial(SaldoCobrar, A) \in Int /\ Parcial(SaldoCobrar, B) \in Int
  BY <1>1, <1>2, SumaDePartes
<1>10. Parcial(SaldoCobrar, Ventas) = Parcial(SaldoCobrar, A) + Parcial(SaldoCobrar, B)
  <2>1. Ventas = (A \cup B) \cup D
    BY <1>2
  <2>2. Parcial(SaldoCobrar, Ventas) = Parcial(SaldoCobrar, A \cup B) + Parcial(SaldoCobrar, D)
    BY <1>8, <2>1
  <2> QED BY <1>6, <1>7, <1>9, <2>2
<1> QED BY <1>4, <1>5, <1>10 DEF B

\* What was invoiced is accounted for once, wherever the invariant holds.
LEMMA CobrosConcuerdan ==
  ASSUME RepInv
  PROVE  CobrosCuadran
<1> DEFINE dinero == SumaDe(LAMBDA f : CierreDiario(f, Todas).dinero, Dias)
           credito == SumaDe(LAMBDA f : CierreDiario(f, Todas).credito, Dias)
           cartera == SumaDe(LAMBDA x : x.saldo, CarteraCobrar)
           sueltas == SumaDe(LAMBDA v : cxc[v].saldo, {v \in Emitidas : Factura[v].cliente = Nulo})
<1>0. RepTypeOK
  BY DEF RepInv
<1>1. dinero = Parcial(MontoDePago, DOMAIN pagos) /\ credito = Parcial(ValorDe, Aplicadas)
  BY <1>0, DineroDeLosDias, CreditoDeLosDias
<1>2. SumaDe(LAMBDA r : Retenida[r].valor, directas) = Parcial(ValorDe, directas)
  <2>1. [r \in directas |-> Retenida[r].valor] = [r \in directas |-> ValorDe[r]]
    BY <1>0, CobrosEnteros DEF ValorDe
  <2> QED BY <2>1 DEF SumaDe, Parcial
<1>3. TotalVendido(Emitidas) = Parcial(MontoDe, Emitidas)
  BY VendidoEsParte DEF Emitidas
<1>4. Parcial(MontoDe, Emitidas) = Parcial(SaldoCobrar, Ventas) + dinero + (credito - Parcial(ValorDe, directas))
  BY <1>1, VentasCobradas, PagosDeLasVentas, RetenidoDeLasVentas
<1>5. Parcial(SaldoCobrar, Ventas) = cartera + sueltas
  BY SaldosRepartidos
<1>6. /\ dinero \in Int /\ credito \in Int /\ Parcial(ValorDe, directas) \in Int
      /\ Parcial(SaldoCobrar, Ventas) \in Int /\ cartera \in Int /\ sueltas \in Int
  <2>1. /\ IsFiniteSet(DOMAIN pagos) /\ MontoDePago \in [DOMAIN pagos -> Int] /\ DOMAIN pagos \in SUBSET DOMAIN pagos
        /\ IsFiniteSet(Recibidas) /\ ValorDe \in [Recibidas -> Int]
        /\ Aplicadas \in SUBSET Recibidas /\ directas \in SUBSET Recibidas
        /\ IsFiniteSet(Ventas) /\ SaldoCobrar \in [Ventas -> Int] /\ Ventas \in SUBSET Ventas
    BY <1>0, CobrosEnteros, MontosEnteros
  <2>2. Parcial(MontoDePago, DOMAIN pagos) \in Int
    BY <2>1, SumaDePartes
  <2>3. /\ Parcial(ValorDe, Aplicadas) \in Int /\ Parcial(ValorDe, directas) \in Int
    BY <2>1, SumaDePartes
  <2>4. \A A \in SUBSET Ventas : Parcial(SaldoCobrar, A) \in Int
    BY <2>1, SumaDePartes
  <2>5. cartera \in Int
    BY <1>0, <2>4, CarteraDeClientes
  <2>6. sueltas \in Int
    <3> DEFINE B == {v \in Emitidas : Factura[v].cliente = Nulo}
    <3>1. B \in SUBSET Ventas
      BY DEF Emitidas
    <3> HIDE DEF B
    <3>2. [v \in B |-> cxc[v].saldo] = [v \in B |-> SaldoCobrar[v]]
      BY <3>1 DEF SaldoCobrar
    <3>3. SumaDe(LAMBDA v : cxc[v].saldo, B) = Parcial(SaldoCobrar, B)
      BY <3>2 DEF SumaDe, Parcial
    <3> QED BY <2>4, <3>1, <3>3 DEF B
  <2> HIDE DEF dinero, credito, cartera, sueltas
  <2> QED BY <1>1, <2>1, <2>2, <2>3, <2>4, <2>5, <2>6
<1>7. Parcial(MontoDe, Emitidas) = dinero + credito - Parcial(ValorDe, directas) + cartera + sueltas
  <2> HIDE DEF dinero, credito, cartera, sueltas
  <2> QED BY <1>4, <1>5, <1>6
<1>8. TotalVendido(Emitidas) =
        dinero + credito - SumaDe(LAMBDA r : Retenida[r].valor, directas) + cartera + sueltas
  <2> HIDE DEF dinero, credito, cartera, sueltas
  <2> QED BY <1>2, <1>3, <1>7
<1>9. credito = SumaDe(LAMBDA x : LET m == ImpuestosMensual(x[1], x[2], Todas, TRUE).recibidas
                                  IN  m["1"] + m["2"], Meses)
  BY <1>0, <1>1, CreditoDeLosMeses
<1> QED BY <1>8, <1>9 DEF CobrosCuadran, Emitidas

-----------------------------------------------------------------------------
(* What was bought *)

MontoCompra == [c \in Compras |-> Monto(Adquisicion[c])]
SaldoPagar == [c \in Compras |-> cxp[c].saldo]
PorProveedor(i, j, s, empresa) ==
  {c \in ComprasDe(i, j) : DeSucursalCompra(c, s) /\ CompraVisible(c, empresa)}

\* The types that sums of purchases need.
LEMMA ComprasEnteras ==
  ASSUME RepTypeOK
  PROVE  /\ IsFiniteSet(Compras) /\ MontoCompra \in [Compras -> Int] /\ SaldoPagar \in [Compras -> Int]
         /\ \A c \in Compras : /\ Importes(Adquisicion[c]) /\ SucursalCompra(c) \in Sucursales
                               /\ Adquisicion[c].retencion \in Int /\ cxp[c].pagos \in Int
                               /\ compra[c].fecha \in Dias
         /\ \A i, j, s, e : PorProveedor(i, j, s, e) \in SUBSET Compras
         /\ ComprasDe(1, Todo) = {c \in Compras : compra[c].estado = "REGISTRADA"}
<1>1. \A c \in Compras : /\ Importes(Adquisicion[c]) /\ SucursalCompra(c) \in Sucursales
                         /\ Adquisicion[c].retencion \in Int
  BY ReportesSupuestos DEF SucursalCompra
<1>2. \A c \in Compras : cxp[c].pagos \in Int /\ compra[c].fecha \in Dias /\ cxp[c].saldo \in Int
  BY DEF RepTypeOK, Cuentas
<1>3. \A c \in Compras : Monto(Adquisicion[c]) \in Int
  BY <1>1, MontoNatural
<1>4. IsFiniteSet(Compras)
  BY ReportesSupuestos
<1>5. \A c \in Compras : EnRango(compra[c].fecha, 1, Todo)
  BY <1>2, ReportesSupuestos DEF Dias, Todo, EnRango
<1>6. ComprasDe(1, Todo) = {c \in Compras : compra[c].estado = "REGISTRADA"}
  BY <1>5 DEF ComprasDe
<1> QED BY <1>1, <1>2, <1>3, <1>4, <1>6 DEF MontoCompra, SaldoPagar, PorProveedor, ComprasDe

\* What was bought, as a sum of a part of the purchases.
LEMMA CompradoEsParte ==
  ASSUME NEW C \in SUBSET Compras
  PROVE  TotalComprado(C) = Parcial(MontoCompra, C)
<1>1. [c \in C |-> Monto(Adquisicion[c])] = [c \in C |-> MontoCompra[c]]
  BY DEF MontoCompra
<1> QED BY <1>1 DEF TotalComprado, SumaDe, Parcial

\* Rows by supplier.
Comprado(i, j, s, e) == SumFunction([x \in ComprasPorProveedor(i, j, s, e) |-> x.total])

\* The suppliers of a report add up to its purchases.
LEMMA ProveedoresSuman ==
  ASSUME RepTypeOK, NEW i, NEW j, NEW s, NEW e
  PROVE  Comprado(i, j, s, e) = Parcial(MontoCompra, PorProveedor(i, j, s, e))
<1> DEFINE V == PorProveedor(i, j, s, e)
           R == ComprasPorProveedor(i, j, s, e)
           parte(p) == {c \in V : Adquisicion[c].proveedor = p}
           fila(p) == [proveedor |-> p, facturas |-> Cardinality(parte(p)), total |-> TotalComprado(parte(p))]
           c == [x \in V |-> Adquisicion[x].proveedor]
           q == [x \in R |-> x.proveedor]
<1>1. V \in SUBSET Compras
  BY ComprasEnteras
<1>2. \A x : x \in R <=> \E y \in V : x = fila(Adquisicion[y].proveedor)
  BY DEF ComprasPorProveedor, PorProveedor
<1>3. /\ \A y \in V : c[y] = Adquisicion[y].proveedor
      /\ \A p : parte(p) = {y \in V : c[y] = p} /\ parte(p) \in SUBSET Compras
  BY <1>1
<1>4. \A p : fila(p).proveedor = p /\ fila(p).total = TotalComprado(parte(p))
  OBVIOUS
<1>5. \A x \in R : q[x] = x.proveedor
  OBVIOUS
<1> HIDE DEF V, R, fila, c, q
<1>6. \A x \in R : x = fila(q[x]) /\ \E y \in V : q[x] = c[y]
  <2> HIDE DEF parte
  <2> QED BY <1>2, <1>3, <1>4, <1>5
<1>7. UnaPorClave(R, q, V, c)
  <2>1. \A y \in V : fila(c[y]) \in R /\ q[fila(c[y])] = c[y]
    <3> HIDE DEF parte
    <3> QED BY <1>2, <1>3, <1>4, <1>5
  <2> QED BY <1>6, <2>1 DEF UnaPorClave
<1>8. ASSUME NEW x \in R
      PROVE  x.total = Parcial(MontoCompra, {y \in V : c[y] = q[x]})
  <2>1. x.total = TotalComprado(parte(q[x]))
    <3> HIDE DEF parte
    <3> QED BY <1>4, <1>6
  <2>2. TotalComprado(parte(q[x])) = Parcial(MontoCompra, parte(q[x]))
    <3>1. parte(q[x]) \in SUBSET Compras
      BY <1>3
    <3> HIDE DEF parte
    <3> QED BY <3>1, CompradoEsParte
  <2>3. parte(q[x]) = {y \in V : c[y] = q[x]}
    BY <1>3
  <2> HIDE DEF parte
  <2> QED BY <2>1, <2>2, <2>3
<1>9. PICK f : f = [x \in R |-> x.total]
  OBVIOUS
<1>10. f = [x \in R |-> Parcial(MontoCompra, {y \in V : c[y] = q[x]})]
  BY <1>8, <1>9
<1>11. SumFunction(f) = Parcial(MontoCompra, V)
  BY <1>1, <1>7, <1>10, ComprasEnteras, FilasSuman
<1> QED BY <1>9, <1>11 DEF Comprado, V, R

\* The portfolio of the suppliers is what is owed on all purchases.
LEMMA CarteraDeProveedores ==
  ASSUME RepInv
  PROVE  SumaDe(LAMBDA x : x.saldo, CarteraPagar(FALSE)) = Parcial(SaldoPagar, Compras)
<1> DEFINE V == {c \in Compras : PorCobrar(cxp[c]) /\ CompraVisible(c, FALSE)}
           R == CarteraPagar(FALSE)
           parte(p) == {c \in V : Adquisicion[c].proveedor = p}
           fila(p) == [proveedor |-> p, saldo |-> SumaDe(LAMBDA c : cxp[c].saldo, parte(p))]
           c == [x \in V |-> Adquisicion[x].proveedor]
           q == [x \in R |-> x.proveedor]
<1>0. RepTypeOK /\ PagosPorEstado
  BY DEF RepInv
<1>1. V \in SUBSET Compras
  OBVIOUS
<1>2. \A x : x \in R <=> \E y \in V : x = fila(Adquisicion[y].proveedor)
  BY DEF CarteraPagar
<1>3. /\ \A y \in V : c[y] = Adquisicion[y].proveedor
      /\ \A p : parte(p) = {y \in V : c[y] = p} /\ parte(p) \in SUBSET Compras
  BY <1>1
<1>4. \A p : fila(p).proveedor = p /\ fila(p).saldo = SumaDe(LAMBDA y : cxp[y].saldo, parte(p))
  OBVIOUS
<1>5. \A x \in R : q[x] = x.proveedor
  OBVIOUS
<1>6. ASSUME NEW y \in Compras, y \notin V
      PROVE  SaldoPagar[y] = 0
  <2>1. CompraVisible(y, FALSE) /\ SaldoPagar[y] = cxp[y].saldo /\ cxp[y].saldo \in Nat
    BY <1>0 DEF CompraVisible, SaldoPagar, RepTypeOK, Cuentas
  <2>2. ~PorCobrar(cxp[y])
    BY <1>6, <2>1
  <2>3. CASE compra[y].estado = "NINGUNA"
    BY <1>0, <2>1, <2>3 DEF PagosPorEstado, SinCuenta
  <2>4. CASE compra[y].estado # "NINGUNA"
    BY <1>0, <2>1, <2>2, <2>4 DEF PagosPorEstado, CuentaAbierta, PorCobrar
  <2> QED BY <2>3, <2>4
<1> HIDE DEF V, R, fila, c, q
<1>7. \A x \in R : x = fila(q[x]) /\ \E y \in V : q[x] = c[y]
  <2> HIDE DEF parte
  <2> QED BY <1>2, <1>3, <1>4, <1>5
<1>8. UnaPorClave(R, q, V, c)
  <2>1. \A y \in V : fila(c[y]) \in R /\ q[fila(c[y])] = c[y]
    <3> HIDE DEF parte
    <3> QED BY <1>2, <1>3, <1>4, <1>5
  <2> QED BY <1>7, <2>1 DEF UnaPorClave
<1>9. ASSUME NEW x \in R
      PROVE  x.saldo = Parcial(SaldoPagar, {y \in V : c[y] = q[x]})
  <2> DEFINE A == parte(q[x])
  <2>1. A \in SUBSET Compras /\ A = {y \in V : c[y] = q[x]}
    BY <1>3
  <2>2. x.saldo = SumaDe(LAMBDA y : cxp[y].saldo, A)
    <3> HIDE DEF parte
    <3> QED BY <1>4, <1>7
  <2> HIDE DEF A
  <2>3. [y \in A |-> cxp[y].saldo] = [y \in A |-> SaldoPagar[y]]
    BY <2>1 DEF SaldoPagar
  <2>4. x.saldo = Parcial(SaldoPagar, A)
    BY <2>2, <2>3 DEF SumaDe, Parcial
  <2> QED BY <2>1, <2>4
<1>10. PICK f : f = [x \in R |-> x.saldo]
  OBVIOUS
<1>11. f = [x \in R |-> Parcial(SaldoPagar, {y \in V : c[y] = q[x]})]
  BY <1>9, <1>10
<1>12. /\ IsFiniteSet(Compras) /\ SaldoPagar \in [Compras -> Int]
  BY <1>0, ComprasEnteras
<1>13. SumFunction(f) = Parcial(SaldoPagar, V)
  BY <1>1, <1>8, <1>11, <1>12, FilasSuman
<1>14. Parcial(SaldoPagar, V \cup (Compras \ V)) = Parcial(SaldoPagar, V) + Parcial(SaldoPagar, Compras \ V)
  <2>1. (Compras \ V) \in SUBSET Compras /\ V \cap (Compras \ V) = {}
    OBVIOUS
  <2> QED BY <1>1, <1>12, <2>1, SumaUnion
<1>15. Parcial(SaldoPagar, Compras \ V) = 0
  <2>1. (Compras \ V) \in SUBSET Compras /\ \A y \in Compras \ V : SaldoPagar[y] = 0
    BY <1>6
  <2> QED BY <1>12, <2>1, SumaDeCeros
<1>16. Parcial(SaldoPagar, Compras) = Parcial(SaldoPagar, V)
  <2>1. Compras = V \cup (Compras \ V)
    BY <1>1
  <2>2. Parcial(SaldoPagar, Compras) = Parcial(SaldoPagar, V) + Parcial(SaldoPagar, Compras \ V)
    BY <1>14, <2>1
  <2>3. Parcial(SaldoPagar, V) \in Int
    BY <1>1, <1>12, SumaDePartes
  <2> QED BY <1>15, <2>2, <2>3
<1> QED BY <1>10, <1>13, <1>16 DEF SumaDe, R

\* What is owed: what was bought, but for what was paid and withheld.
LEMMA SaldosDeCompras ==
  ASSUME RepInv
  PROVE  Parcial(SaldoPagar, Compras) =
           SumaDe(LAMBDA c : Monto(Adquisicion[c]) - cxp[c].pagos, {c \in Compras : compra[c].estado # "NINGUNA"})
             - SumaDe(LAMBDA c : Adquisicion[c].retencion, {c \in Compras : emitida[c] \in {"ENCOLADA", "EMITIDA"}})
<1> DEFINE A == {c \in Compras : compra[c].estado # "NINGUNA"}
           B == {c \in Compras : emitida[c] \in {"ENCOLADA", "EMITIDA"}}
<1>0. RepTypeOK /\ PagosPorEstado
  BY DEF RepInv
<1>1. A \in SUBSET Compras /\ B \in SUBSET Compras
  OBVIOUS
<1>2. \A c \in Compras : (c \in A <=> compra[c].estado # "NINGUNA") /\ (c \in B <=> emitida[c] \in {"ENCOLADA", "EMITIDA"})
  OBVIOUS
<1>3. PICK g, k, w : /\ g = [c \in Compras |-> Monto(Adquisicion[c]) - cxp[c].pagos]
                     /\ k = [c \in Compras |-> Adquisicion[c].retencion]
                     /\ w = [c \in Compras |-> 0 - Adquisicion[c].retencion]
  OBVIOUS
<1>4. \A c \in Compras : Monto(Adquisicion[c]) \in Int /\ Adquisicion[c].retencion \in Int /\ cxp[c].pagos \in Int
  BY <1>0, ComprasEnteras, MontoNatural
<1>5. /\ IsFiniteSet(Compras) /\ SaldoPagar \in [Compras -> Int]
      /\ g \in [Compras -> Int] /\ k \in [Compras -> Int] /\ w \in [Compras -> Int]
  BY <1>0, <1>3, <1>4, ComprasEnteras
<1> HIDE DEF A, B
<1>6. PICK a, b : /\ a = [c \in Compras |-> IF c \in A THEN g[c] ELSE 0]
                  /\ b = [c \in Compras |-> IF c \in B THEN w[c] ELSE 0]
  OBVIOUS
<1>7. a \in [Compras -> Int] /\ b \in [Compras -> Int]
  BY <1>5, <1>6
<1>8. SaldoPagar = [c \in Compras |-> a[c] + b[c]]
  <2>1. ASSUME NEW c \in Compras PROVE cxp[c].saldo = a[c] + b[c]
    <3>1. /\ cxp[c].saldo \in Int /\ cxp[c].retenido \in Int
          /\ cxp[c].retenido = IF c \in B THEN Adquisicion[c].retencion ELSE 0
      BY <1>0, <1>2 DEF PagosPorEstado, RepTypeOK, Cuentas
    <3>2. /\ a[c] = IF c \in A THEN Monto(Adquisicion[c]) - cxp[c].pagos ELSE 0
          /\ b[c] = IF c \in B THEN 0 - Adquisicion[c].retencion ELSE 0
      BY <1>3, <1>6
    <3>3. CASE c \in A
      <4>1. cxp[c].saldo = Monto(Adquisicion[c]) - cxp[c].retenido - cxp[c].pagos
        BY <1>0, <1>2, <3>3 DEF PagosPorEstado, CuentaAbierta
      <4> QED BY <1>4, <3>1, <3>2, <3>3, <4>1
    <3>4. CASE c \notin A
      <4>1. cxp[c].saldo = 0 /\ c \notin B
        BY <1>0, <1>2, <3>4 DEF PagosPorEstado, SinCuenta
      <4> QED BY <3>2, <3>4, <4>1
    <3> QED BY <3>3, <3>4
  <2> QED BY <2>1 DEF SaldoPagar
<1>9. /\ Compras \in SUBSET Compras
      /\ SumFunction(SaldoPagar) = Parcial(a, Compras) + Parcial(b, Compras)
  BY <1>5, <1>7, <1>8, SumaDeSumas
<1>10. Parcial(a, Compras) = Parcial(g, A)
  <2>1. SumFunction(a) = Parcial(g, A)
    BY <1>1, <1>5, <1>6, SumaSi
  <2> QED BY <1>5, <1>7, <2>1, SumaDePartes
<1>11. Parcial(b, Compras) = Parcial(w, B)
  <2>1. SumFunction(b) = Parcial(w, B)
    BY <1>1, <1>5, <1>6, SumaSi
  <2> QED BY <1>5, <1>7, <2>1, SumaDePartes
<1>12. Parcial(w, B) = 0 - Parcial(k, B)
  <2>1. SumFunction([c \in B |-> k[c] + w[c]]) = Parcial(k, B) + Parcial(w, B)
    BY <1>1, <1>5, SumaDeSumas
  <2>2. \A c \in B : k[c] + w[c] = 0
    BY <1>1, <1>3, <1>4
  <2>3. [c \in B |-> k[c] + w[c]] = [c \in B |-> 0]
    BY <2>2
  <2>4. SumFunction([c \in B |-> 0]) = 0
    BY <1>1, <1>5, FS_Subset, SumaCeros
  <2>5. Parcial(k, B) \in Int /\ Parcial(w, B) \in Int
    BY <1>1, <1>5, SumaDePartes
  <2> QED BY <2>1, <2>3, <2>4, <2>5
<1>13. /\ SumFunction(SaldoPagar) = Parcial(SaldoPagar, Compras)
       /\ Parcial(g, A) \in Int /\ Parcial(k, B) \in Int
  BY <1>1, <1>5, SumaDePartes
<1>14. /\ SumaDe(LAMBDA c : Monto(Adquisicion[c]) - cxp[c].pagos, A) = Parcial(g, A)
       /\ SumaDe(LAMBDA c : Adquisicion[c].retencion, B) = Parcial(k, B)
  <2>1. [c \in A |-> Monto(Adquisicion[c]) - cxp[c].pagos] = [c \in A |-> g[c]]
    BY <1>1, <1>3
  <2>2. [c \in B |-> Adquisicion[c].retencion] = [c \in B |-> k[c]]
    BY <1>1, <1>3
  <2> QED BY <2>1, <2>2 DEF SumaDe, Parcial
<1>15. Parcial(SaldoPagar, Compras) = Parcial(g, A) - Parcial(k, B)
  BY <1>9, <1>10, <1>11, <1>12, <1>13
<1> QED BY <1>14, <1>15 DEF A, B

\* The reports on purchases agree wherever the invariant holds.
LEMMA ComprasConcuerdan ==
  ASSUME RepInv
  PROVE  ComprasCuadran
<1> DEFINE todo == SumaDe(LAMBDA x : x.total, ComprasPorProveedor(1, Todo, Todas, TRUE))
           V == {c \in Compras : compra[c].estado = "REGISTRADA" /\ SucursalCompra(c) \in activo}
           N == {c \in ComprasDe(1, Todo) : SucursalCompra(c) \notin activo}
<1>0. RepTypeOK
  BY DEF RepInv
<1>1. /\ IsFiniteSet(Compras) /\ MontoCompra \in [Compras -> Int] /\ V \in SUBSET Compras /\ N \in SUBSET Compras
      /\ ComprasDe(1, Todo) = {c \in Compras : compra[c].estado = "REGISTRADA"}
  BY <1>0, ComprasEnteras
<1>2. /\ PorProveedor(1, Todo, Todas, TRUE) = V
      /\ PorProveedor(1, Todo, Todas, FALSE) = V \cup N /\ V \cap N = {}
  BY <1>1 DEF PorProveedor, DeSucursalCompra, CompraVisible
<1>3. todo = Parcial(MontoCompra, V)
  <2>1. todo = Comprado(1, Todo, Todas, TRUE)
    BY DEF SumaDe, Comprado
  <2>2. Comprado(1, Todo, Todas, TRUE) = Parcial(MontoCompra, PorProveedor(1, Todo, Todas, TRUE))
    BY <1>0, ProveedoresSuman
  <2> QED BY <1>2, <2>1, <2>2
<1>4. SumaDe(LAMBDA x : ImpuestosMensual(x[1], x[2], Todas, TRUE).compras.total, Meses) = todo
  <2> DEFINE h == [x \in Meses |-> ImpuestosMensual(x[1], x[2], Todas, TRUE).compras.total]
             c == [y \in V |-> <<Mes[compra[y].fecha], Anio[compra[y].fecha]>>]
  <2>1. ASSUME NEW x \in Meses
        PROVE  h[x] = Parcial(MontoCompra, {y \in V : c[y] = x})
    <3> DEFINE A == {y \in V : c[y] = x}
    <3>1. {y \in Compras : /\ compra[y].estado = "REGISTRADA" /\ EnMes(compra[y].fecha, x[1], x[2])
                           /\ DeSucursalCompra(y, Todas) /\ CompraVisible(y, TRUE)} = A
      BY MesesFinitos DEF DeSucursalCompra, CompraVisible
    <3>2. h[x] = Bloque({<<y, Adquisicion[y]>> : y \in A}).total
      BY <3>1 DEF ImpuestosMensual
    <3>3. A \in SUBSET Compras
      BY <1>1
    <3> HIDE DEF A, h
    <3>4. PICK X, k, m : /\ X = {<<y, Adquisicion[y]>> : y \in A}
                         /\ k = [y \in Compras |-> Adquisicion[y].iva] /\ m = [y \in Compras |-> Adquisicion[y].cero]
      OBVIOUS
    <3>5. DeBloque(X, A, Adquisicion, Compras, MontoCompra, k, m)
      BY <1>0, <3>4, ComprasEnteras DEF DeBloque, MontoCompra
    <3>6. Bloque(X).total = Parcial(MontoCompra, A)
      BY <1>1, <3>3, <3>5, BloqueSuma
    <3>7. h[x] = Parcial(MontoCompra, A)
      BY <3>2, <3>4, <3>6
    <3> QED BY <3>7 DEF A
  <2>2. h = [x \in Meses |-> h[x]] /\ \A y \in V : c[y] \in Meses
    <3>1. \A y \in V : compra[y].fecha \in Dias
      BY <1>0, <1>1, ComprasEnteras
    <3> QED BY <3>1, MesesFinitos
  <2>3. SumaDe(LAMBDA x : ImpuestosMensual(x[1], x[2], Todas, TRUE).compras.total, Meses) = SumFunction(h)
    BY DEF SumaDe
  <2> HIDE DEF h, c, V, todo
  <2>4. SumFunction(h) = Parcial(MontoCompra, V)
    BY <1>1, <2>1, <2>2, MesesFinitos, PartesPorClave
  <2> QED BY <1>3, <2>3, <2>4
<1>5. SumaDe(LAMBDA s : SumaDe(LAMBDA x : x.total, ComprasPorProveedor(1, Todo, s, TRUE)), Sucursales) = todo
  <2> DEFINE h == [s \in Sucursales |-> SumaDe(LAMBDA x : x.total, ComprasPorProveedor(1, Todo, s, TRUE))]
             c == [y \in V |-> SucursalCompra(y)]
  <2>1. ASSUME NEW s \in Sucursales
        PROVE  h[s] = Parcial(MontoCompra, {y \in V : c[y] = s})
    <3>1. s # Todas
      BY ReportesSupuestos
    <3>2. PorProveedor(1, Todo, s, TRUE) = {y \in V : c[y] = s}
      BY <1>1, <3>1 DEF PorProveedor, DeSucursalCompra, CompraVisible
    <3>3. h[s] = Comprado(1, Todo, s, TRUE)
      BY DEF SumaDe, Comprado
    <3> HIDE DEF h, c, V
    <3>4. Comprado(1, Todo, s, TRUE) = Parcial(MontoCompra, PorProveedor(1, Todo, s, TRUE))
      BY <1>0, ProveedoresSuman
    <3> QED BY <3>2, <3>3, <3>4
  <2>2. h = [s \in Sucursales |-> h[s]] /\ \A y \in V : c[y] \in Sucursales
    BY <1>0, <1>1, ComprasEnteras
  <2>3. SumaDe(LAMBDA s : SumaDe(LAMBDA x : x.total, ComprasPorProveedor(1, Todo, s, TRUE)), Sucursales) = SumFunction(h)
    BY DEF SumaDe
  <2>4. IsFiniteSet(Sucursales)
    BY ReportesSupuestos
  <2> HIDE DEF h, c, V, todo
  <2>5. SumFunction(h) = Parcial(MontoCompra, V)
    BY <1>1, <2>1, <2>2, <2>4, PartesPorClave
  <2> QED BY <1>3, <2>3, <2>5
<1>6. SumaDe(LAMBDA x : x.total, ComprasPorProveedor(1, Todo, Todas, FALSE)) - todo = TotalComprado(N)
  <2> HIDE DEF V, N, todo
  <2> DEFINE otro == SumaDe(LAMBDA x : x.total, ComprasPorProveedor(1, Todo, Todas, FALSE))
  <2>1. otro = Parcial(MontoCompra, V \cup N)
    <3>1. otro = Comprado(1, Todo, Todas, FALSE)
      BY DEF SumaDe, Comprado
    <3>2. Comprado(1, Todo, Todas, FALSE) = Parcial(MontoCompra, PorProveedor(1, Todo, Todas, FALSE))
      BY <1>0, ProveedoresSuman
    <3> QED BY <1>2, <3>1, <3>2
  <2>2. Parcial(MontoCompra, V \cup N) = Parcial(MontoCompra, V) + Parcial(MontoCompra, N)
    BY <1>1, <1>2, SumaUnion
  <2>3. Parcial(MontoCompra, V) \in Int /\ Parcial(MontoCompra, N) \in Int
    BY <1>1, SumaDePartes
  <2>4. TotalComprado(N) = Parcial(MontoCompra, N)
    BY <1>1, CompradoEsParte
  <2> HIDE DEF otro
  <2>5. otro - todo = TotalComprado(N)
    BY <1>3, <2>1, <2>2, <2>3, <2>4
  <2> QED BY <2>5 DEF otro
<1>7. SumaDe(LAMBDA x : x.saldo, CarteraPagar(FALSE)) =
        SumaDe(LAMBDA c : Monto(Adquisicion[c]) - cxp[c].pagos, {c \in Compras : compra[c].estado # "NINGUNA"})
          - SumaDe(LAMBDA c : Adquisicion[c].retencion, {c \in Compras : emitida[c] \in {"ENCOLADA", "EMITIDA"}})
  BY CarteraDeProveedores, SaldosDeCompras
<1> QED BY <1>4, <1>5, <1>6, <1>7 DEF ComprasCuadran

-----------------------------------------------------------------------------
(* What the monitor shows *)

MonitorDe(i, j) == MonitorEstados(i, j, Todas, FALSE)
EnMonitor(i, j) == {d \in Documentos : documento[d].estado # "NINGUNO" /\ EnDias(documento[d].dia, i, j)}
TipoDe(d) == IF d \in Ventas THEN Ventas ELSE Compras
FilasDe(i, j, K) == {x \in MonitorDe(i, j) : x.tipo \in K}

\* The types that counting documents needs.
LEMMA DocumentosFinitos ==
  /\ IsFiniteSet(Documentos) /\ Uno(Documentos) \in [Documentos -> Int]
  /\ \A A \in SUBSET Documentos : Cardinality(A) = Parcial(Uno(Documentos), A)
<1>1. IsFiniteSet(Documentos)
  BY ReportesSupuestos, FS_Union DEF Documentos
<1> QED BY <1>1, CuentaDeUnos DEF Uno

\* The rows, one for each state and kind of what is in the monitor.
GrupoDe(i, j, e, t) == {d \in EnMonitor(i, j) \cap t : documento[d].estado = e}
FilaDelMonitor(i, j, e, t) == [estado |-> e, tipo |-> t, cantidad |-> Cardinality(GrupoDe(i, j, e, t))]
EsFila(i, j, x) ==
  \E e \in {"EN_COLA", "AUTORIZADO", "RECHAZADO"}, t \in {Ventas, Compras} :
    Cardinality(GrupoDe(i, j, e, t)) > 0 /\ x = FilaDelMonitor(i, j, e, t)

\* The monitor shows these rows and no others.
LEMMA FilasDelMonitor ==
  ASSUME NEW i, NEW j
  PROVE  \A x : x \in MonitorDe(i, j) <=> EsFila(i, j, x)
<1> DEFINE D == {d \in Documentos :
                   /\ documento[d].estado # "NINGUNO" /\ EnDias(documento[d].dia, i, j)
                   /\ IF d \in Ventas THEN DeSucursal(d, Todas)
                      ELSE DeSucursalCompra(d, Todas) /\ CompraVisible(d, FALSE)}
           P == {"EN_COLA", "AUTORIZADO", "RECHAZADO"} \X {Ventas, Compras}
<1>1. D = EnMonitor(i, j)
  BY DEF EnMonitor, DeSucursal, DeSucursalCompra, CompraVisible
<1>2. MonitorDe(i, j) =
        {FilaDelMonitor(i, j, x[1], x[2]) : x \in {y \in P : Cardinality(GrupoDe(i, j, y[1], y[2])) > 0}}
  BY <1>1 DEF MonitorDe, MonitorEstados, FilaDelMonitor, GrupoDe
<1>3. \A x : x \in MonitorDe(i, j) <=>
               \E y \in P : Cardinality(GrupoDe(i, j, y[1], y[2])) > 0 /\ x = FilaDelMonitor(i, j, y[1], y[2])
  <2> DEFINE F(y) == FilaDelMonitor(i, j, y[1], y[2])
             Hay_(y) == Cardinality(GrupoDe(i, j, y[1], y[2])) > 0
  <2>1. MonitorDe(i, j) = {F(x) : x \in {y \in P : Hay_(y)}}
    BY <1>2
  <2> HIDE DEF F, Hay_, P
  <2>2. \A x : x \in MonitorDe(i, j) <=> \E y \in P : Hay_(y) /\ x = F(y)
    BY <2>1
  <2> QED BY <2>2 DEF F, Hay_
<1>4. /\ \A y \in P : y[1] \in {"EN_COLA", "AUTORIZADO", "RECHAZADO"} /\ y[2] \in {Ventas, Compras}
      /\ \A e \in {"EN_COLA", "AUTORIZADO", "RECHAZADO"}, t \in {Ventas, Compras} :
           <<e, t>> \in P /\ <<e, t>>[1] = e /\ <<e, t>>[2] = t
  OBVIOUS
<1> HIDE DEF P
<1>5. ASSUME NEW x, x \in MonitorDe(i, j)
      PROVE  \E e \in {"EN_COLA", "AUTORIZADO", "RECHAZADO"}, t \in {Ventas, Compras} :
               Cardinality(GrupoDe(i, j, e, t)) > 0 /\ x = FilaDelMonitor(i, j, e, t)
  <2>1. PICK y \in P : Cardinality(GrupoDe(i, j, y[1], y[2])) > 0 /\ x = FilaDelMonitor(i, j, y[1], y[2])
    BY <1>3, <1>5
  <2> QED BY <1>4, <2>1
<1>6. ASSUME NEW e \in {"EN_COLA", "AUTORIZADO", "RECHAZADO"}, NEW t \in {Ventas, Compras},
             Cardinality(GrupoDe(i, j, e, t)) > 0
      PROVE  FilaDelMonitor(i, j, e, t) \in MonitorDe(i, j)
  <2>1. <<e, t>> \in P /\ <<e, t>>[1] = e /\ <<e, t>>[2] = t
    BY <1>4
  <2>2. PICK y : y = <<e, t>>
    OBVIOUS
  <2>3. y \in P /\ y[1] = e /\ y[2] = t
    BY <2>1, <2>2
  <2> QED BY <1>3, <1>6, <2>3
<1> QED BY <1>5, <1>6 DEF EsFila

\* The rows of the kinds K add up to the documents of those kinds.
LEMMA MonitorSuma ==
  ASSUME RepTypeOK, NEW i, NEW j, NEW K \in SUBSET {Ventas, Compras}
  PROVE  SumFunction([x \in FilasDe(i, j, K) |-> x.cantidad]) =
           Parcial(Uno(Documentos), {d \in EnMonitor(i, j) : TipoDe(d) \in K})
<1> DEFINE D == EnMonitor(i, j)
           E == {"EN_COLA", "AUTORIZADO", "RECHAZADO"}
           grupo(e, t) == GrupoDe(i, j, e, t)
           fila(e, t) == FilaDelMonitor(i, j, e, t)
           V == {d \in D : TipoDe(d) \in K}
           R == FilasDe(i, j, K)
           c == [d \in V |-> <<documento[d].estado, TipoDe(d)>>]
           q == [x \in R |-> <<x.estado, x.tipo>>]
<1>1. V \in SUBSET Documentos /\ \A e, t : grupo(e, t) \in SUBSET Documentos
  BY DEF EnMonitor, GrupoDe
<1>2. \A x : x \in R <=> \E e \in E, t \in {Ventas, Compras} :
                           t \in K /\ Cardinality(grupo(e, t)) > 0 /\ x = fila(e, t)
  <2>1. \A x : x \in MonitorDe(i, j) <=>
          \E e \in E, t \in {Ventas, Compras} : Cardinality(grupo(e, t)) > 0 /\ x = fila(e, t)
    <3>1. \A x : x \in MonitorDe(i, j) <=> EsFila(i, j, x)
      BY FilasDelMonitor
    <3> QED BY <3>1 DEF EsFila
  <2>2. \A e, t : fila(e, t).tipo = t
    BY DEF FilaDelMonitor
  <2> HIDE DEF fila, grupo, E, D
  <2> QED BY <2>1, <2>2 DEF FilasDe
<1>3. \A e, t : fila(e, t).estado = e /\ fila(e, t).tipo = t /\ fila(e, t).cantidad = Cardinality(grupo(e, t))
  BY DEF FilaDelMonitor
<1>4. \A d \in Documentos, t \in {Ventas, Compras} : d \in t <=> TipoDe(d) = t
  BY ReportesSupuestos DEF TipoDe, Documentos
<1>5. \A d \in D : documento[d].estado \in E
  BY DEF RepTypeOK, EnMonitor
<1>6. \A e, t : Cardinality(grupo(e, t)) > 0 <=> grupo(e, t) # {}
  <2> HIDE DEF grupo
  <2>1. \A e, t : IsFiniteSet(grupo(e, t))
    BY <1>1, DocumentosFinitos, FS_Subset
  <2> QED BY <2>1, FS_EmptySet, FS_CardinalityType
<1>7. \A d \in V : c[d] = <<documento[d].estado, TipoDe(d)>> /\ TipoDe(d) \in K /\ TipoDe(d) \in {Ventas, Compras}
  OBVIOUS
<1>8. \A x \in R : q[x] = <<x.estado, x.tipo>>
  OBVIOUS
<1>9. \A t \in K : \A e : grupo(e, t) = {d \in V : c[d] = <<e, t>>}
  BY <1>1, <1>4 DEF GrupoDe
<1>10. \A d \in V : d \in grupo(documento[d].estado, TipoDe(d))
  BY <1>1, <1>4 DEF GrupoDe
<1>11. V \subseteq D
  OBVIOUS
<1> HIDE DEF D, E, grupo, fila, V, R, c, q
<1>12. \A x \in R : /\ x = fila(x.estado, x.tipo) /\ x.tipo \in K
                    /\ x.cantidad = Cardinality(grupo(x.estado, x.tipo)) /\ grupo(x.estado, x.tipo) # {}
  BY <1>2, <1>3, <1>6
<1>13. UnaPorClave(R, q, V, c)
  <2>1. ASSUME NEW d \in V PROVE \E x \in R : q[x] = c[d]
    <3>1. fila(documento[d].estado, TipoDe(d)) \in R
      BY <1>2, <1>5, <1>6, <1>7, <1>10, <1>11
    <3> QED BY <1>3, <1>7, <1>8, <3>1
  <2>2. ASSUME NEW x \in R PROVE \E d \in V : c[d] = q[x]
    BY <1>8, <1>9, <1>12
  <2>3. \A x, y \in R : q[x] = q[y] => x = y
    BY <1>8, <1>12
  <2> QED BY <2>1, <2>2, <2>3 DEF UnaPorClave
<1>14. ASSUME NEW x \in R
       PROVE  x.cantidad = Parcial(Uno(Documentos), {d \in V : c[d] = q[x]})
  <2>1. grupo(x.estado, x.tipo) = {d \in V : c[d] = q[x]}
    BY <1>8, <1>9, <1>12
  <2>2. x.cantidad = Parcial(Uno(Documentos), grupo(x.estado, x.tipo))
    BY <1>1, <1>12, DocumentosFinitos
  <2> QED BY <2>1, <2>2
<1>15. PICK f : f = [x \in R |-> x.cantidad]
  OBVIOUS
<1>16. f = [x \in R |-> Parcial(Uno(Documentos), {d \in V : c[d] = q[x]})]
  BY <1>14, <1>15
<1>17. SumFunction(f) = Parcial(Uno(Documentos), V)
  BY <1>1, <1>13, <1>16, DocumentosFinitos, FilasSuman
<1> QED BY <1>15, <1>17 DEF V, R, D

\* The monitor shows every document once, wherever the invariant holds.
LEMMA MonitorConcuerda ==
  ASSUME RepInv
  PROVE  MonitorCuadra
<1> DEFINE D == EnMonitor(1, Todo)
           de(tipo) == SumaDe(LAMBDA x : x.cantidad, {x \in MonitorDe(1, Todo) : x.tipo = tipo})
           g == Uno(Documentos)
           diario(f) == SumaDe(LAMBDA x : x.cantidad, MonitorDe(f, f))
<1>0. RepTypeOK /\ DocumentosPorEstado
  BY DEF RepInv
<1>1. \A d \in Documentos : documento[d].dia \in Dias /\ documento[d].dia \in Int
  BY <1>0 DEF RepTypeOK, Dias
<1>2. D = {d \in Documentos : documento[d].estado # "NINGUNO"}
  BY <1>1, ReportesSupuestos DEF EnMonitor, EnDias, Dias, Todo
<1>3. ASSUME NEW t \in {Ventas, Compras}
      PROVE  de(t) = Parcial(g, D \cap t)
  <2>1. {d \in D : TipoDe(d) \in {t}} = D \cap t
    BY <1>2, ReportesSupuestos DEF TipoDe, Documentos
  <2>2. FilasDe(1, Todo, {t}) = {x \in MonitorDe(1, Todo) : x.tipo = t}
    BY DEF FilasDe
  <2>3. de(t) = SumFunction([x \in FilasDe(1, Todo, {t}) |-> x.cantidad])
    BY <2>2 DEF SumaDe
  <2>4. SumFunction([x \in FilasDe(1, Todo, {t}) |-> x.cantidad]) = Parcial(g, {d \in D : TipoDe(d) \in {t}})
    <3>1. {t} \in SUBSET {Ventas, Compras}
      OBVIOUS
    <3> QED BY <1>0, <3>1, MonitorSuma
  <2> HIDE DEF de
  <2> QED BY <2>1, <2>3, <2>4
<1>4. ASSUME NEW f \in Dias
      PROVE  diario(f) = Parcial(g, {d \in D : documento[d].dia = f})
  <2>1. {d \in EnMonitor(f, f) : TipoDe(d) \in {Ventas, Compras}} = {d \in D : documento[d].dia = f}
    <3>1. \A d \in Documentos : EnDias(documento[d].dia, f, f) <=> documento[d].dia = f
      BY <1>1 DEF EnDias, Dias
    <3> QED BY <1>2, <3>1 DEF EnMonitor, TipoDe
  <2>2. FilasDe(f, f, {Ventas, Compras}) = MonitorDe(f, f)
    <3>1. \A x \in MonitorDe(f, f) : x.tipo \in {Ventas, Compras}
      <4>1. \A e, t : FilaDelMonitor(f, f, e, t).tipo = t
        BY DEF FilaDelMonitor
      <4>2. \A x \in MonitorDe(f, f) : \E e, t : t \in {Ventas, Compras} /\ x = FilaDelMonitor(f, f, e, t)
        <5>1. \A x : x \in MonitorDe(f, f) <=> EsFila(f, f, x)
          BY FilasDelMonitor
        <5> QED BY <5>1 DEF EsFila
      <4> QED BY <4>1, <4>2
    <3> QED BY <3>1 DEF FilasDe
  <2>3. diario(f) = SumFunction([x \in FilasDe(f, f, {Ventas, Compras}) |-> x.cantidad])
    BY <2>2 DEF SumaDe
  <2>4. SumFunction([x \in FilasDe(f, f, {Ventas, Compras}) |-> x.cantidad])
          = Parcial(g, {d \in EnMonitor(f, f) : TipoDe(d) \in {Ventas, Compras}})
    BY <1>0, MonitorSuma
  <2> HIDE DEF diario
  <2> QED BY <2>1, <2>3, <2>4
<1>5. /\ D \in SUBSET Documentos /\ D \cap Ventas \in SUBSET Documentos /\ D \cap Compras \in SUBSET Documentos
      /\ (D \cap Ventas) \cap (D \cap Compras) = {} /\ D = (D \cap Ventas) \cup (D \cap Compras)
  BY <1>2, ReportesSupuestos DEF Documentos
<1>6. SumaDe(diario, Dias) = de(Ventas) + de(Compras)
  <2> HIDE DEF diario, de, D
  <2>1. PICK h, c : h = [f \in Dias |-> diario(f)] /\ c = [d \in D |-> documento[d].dia]
    OBVIOUS
  <2>2. \A f \in Dias : h[f] = Parcial(g, {d \in D : c[d] = f})
    <3>1. \A f \in Dias : {d \in D : c[d] = f} = {d \in D : documento[d].dia = f}
      BY <2>1
    <3> QED BY <1>4, <2>1, <3>1
  <2>3. \A d \in D : c[d] \in Dias
    BY <1>1, <1>5, <2>1
  <2>4. IsFiniteSet(Dias)
    BY ReportesSupuestos, FS_Interval DEF Dias
  <2>5. SumFunction(h) = Parcial(g, D)
    <3>1. h = [f \in Dias |-> h[f]]
      BY <2>1
    <3> QED BY <1>5, <2>2, <2>3, <2>4, <3>1, DocumentosFinitos, PartesPorClave
  <2>6. Parcial(g, D) = Parcial(g, D \cap Ventas) + Parcial(g, D \cap Compras)
    BY <1>5, DocumentosFinitos, SumaUnion
  <2>7. SumaDe(diario, Dias) = SumFunction(h)
    BY <2>1 DEF SumaDe
  <2> QED BY <1>3, <2>5, <2>6, <2>7
<1>7. de(Ventas) = Cardinality({v \in Ventas : /\ Factura[v].electronica
                                               /\ venta[v].estado \in {"EMITIDA", "ANULADA"}})
  <2>1. D \cap Ventas = {v \in Ventas : Factura[v].electronica /\ venta[v].estado \in {"EMITIDA", "ANULADA"}}
    BY <1>0, <1>2 DEF DocumentosPorEstado, Documentos
  <2>2. Parcial(g, D \cap Ventas) = Cardinality(D \cap Ventas)
    BY <1>5, DocumentosFinitos
  <2> HIDE DEF de, D
  <2> QED BY <1>3, <2>1, <2>2
<1>8. \A c \in Compras : emitida[c] = "ENCOLADA" => documento[c].estado \in {"EN_COLA", "RECHAZADO"}
  BY <1>0 DEF DocumentosPorEstado
<1>9. SumaDe(LAMBDA f : SumaDe(LAMBDA x : x.cantidad, MonitorEstados(f, f, Todas, FALSE)), Dias) = SumaDe(diario, Dias)
  BY DEF MonitorDe
<1> HIDE DEF D, g
<1> QED BY <1>6, <1>7, <1>8 DEF MonitorCuadra, MonitorDe

-----------------------------------------------------------------------------
(* What the kardex shows *)

EfectosHechos == [k \in DOMAIN movimientos |-> Efecto(movimientos[k])]

\* Where each of the movements S is in a kardex, and the movements in that order.
LugarEn(S, k) == Cardinality({n \in S : n = k \/ Antes(n, k)})
EnOrden(S) == [x \in 1..Cardinality(S) |-> movimientos[CHOOSE k \in S : LugarEn(S, k) = x]]

\* The types that sums of movements need.
LEMMA EfectosEnteros ==
  ASSUME RepTypeOK
  PROVE  /\ IsFiniteSet(DOMAIN movimientos) /\ EfectosHechos \in [DOMAIN movimientos -> Int]
         /\ DOMAIN movimientos \subseteq Nat
         /\ \A k \in DOMAIN movimientos : movimientos[k] \in Asientos
<1>1. DOMAIN movimientos = 1..Len(movimientos) /\ Len(movimientos) \in Nat
  BY DEF RepTypeOK
<1>2. IsFiniteSet(1..Len(movimientos))
  BY <1>1, FS_Interval
<1>3. \A k \in DOMAIN movimientos : movimientos[k] \in Asientos
  BY DEF RepTypeOK
<1>4. \A k \in DOMAIN movimientos : Efecto(movimientos[k]) \in Int
  BY <1>3, EfectoEntero
<1>5. EfectosHechos \in [DOMAIN movimientos -> Int]
  BY <1>4 DEF EfectosHechos
<1>6. DOMAIN movimientos \subseteq Nat
  BY <1>1
<1> QED BY <1>1, <1>2, <1>3, <1>5, <1>6

\* Movements by date, then as they were written, are in one line.
LEMMA LugarCrece ==
  ASSUME RepTypeOK, NEW S \in SUBSET DOMAIN movimientos, NEW k \in S, NEW n \in S, Antes(k, n)
  PROVE  LugarEn(S, k) < LugarEn(S, n)
<1> DEFINE A(m) == {x \in S : x = m \/ Antes(x, m)}
<1>1. \A x \in S : x \in Nat /\ movimientos[x].fecha \in Nat
  <2>1. \A x \in S : movimientos[x] \in Asientos /\ x \in Nat
    BY EfectosEnteros
  <2> QED BY <2>1 DEF Asientos, Dias
<1>2. A(k) \subseteq A(n) \ {n}
  BY <1>1 DEF Antes
<1>3. IsFiniteSet(A(k)) /\ IsFiniteSet(A(n)) /\ n \in A(n)
  <2>1. A(k) \in SUBSET DOMAIN movimientos /\ A(n) \in SUBSET DOMAIN movimientos /\ n \in A(n)
    OBVIOUS
  <2> HIDE DEF A
  <2> QED BY <2>1, EfectosEnteros, FS_Subset
<1>4. LugarEn(S, k) = Cardinality(A(k)) /\ LugarEn(S, n) = Cardinality(A(n))
  BY DEF LugarEn
<1> HIDE DEF A
<1>5. Cardinality(A(n) \ {n}) = Cardinality(A(n)) - 1 /\ IsFiniteSet(A(n) \ {n})
  BY <1>3, FS_RemoveElement
<1>6. Cardinality(A(k)) <= Cardinality(A(n) \ {n})
  <2>1. A(k) \in SUBSET (A(n) \ {n})
    BY <1>2
  <2> QED BY <1>5, <2>1, FS_Subset
<1>7. Cardinality(A(k)) \in Nat /\ Cardinality(A(n)) \in Nat
  BY <1>3, FS_CardinalityType
<1> QED BY <1>4, <1>5, <1>6, <1>7

\* Each movement has a place of its own, and no place is empty.
LEMMA CadaLugar ==
  ASSUME RepTypeOK, NEW S \in SUBSET DOMAIN movimientos
  PROVE  /\ \A k \in S : LugarEn(S, k) \in 1..Cardinality(S)
         /\ \A k, n \in S : LugarEn(S, k) = LugarEn(S, n) => k = n
         /\ \A x \in 1..Cardinality(S) : \E k \in S : LugarEn(S, k) = x
<1>0. IsFiniteSet(S) /\ Cardinality(S) \in Nat
  BY EfectosEnteros, FS_Subset, FS_CardinalityType
<1>1. ASSUME NEW k \in S
      PROVE  LugarEn(S, k) \in 1..Cardinality(S)
  <2> DEFINE A == {n \in S : n = k \/ Antes(n, k)}
  <2>1. A \in SUBSET S /\ k \in A /\ LugarEn(S, k) = Cardinality(A)
    BY DEF LugarEn
  <2> HIDE DEF A
  <2>2. IsFiniteSet(A) /\ Cardinality(A) <= Cardinality(S) /\ Cardinality(A) \in Nat
    BY <1>0, <2>1, FS_Subset, FS_CardinalityType
  <2>3. Cardinality(A) # 0
    BY <2>1, <2>2, FS_EmptySet
  <2> QED BY <1>0, <2>1, <2>2, <2>3
<1>2. ASSUME NEW k \in S, NEW n \in S, LugarEn(S, k) = LugarEn(S, n), k # n
      PROVE  FALSE
  <2>1. /\ k \in Nat /\ n \in Nat /\ movimientos[k].fecha \in Nat /\ movimientos[n].fecha \in Nat
    <3>1. \A x \in S : movimientos[x] \in Asientos /\ x \in Nat
      BY EfectosEnteros
    <3> QED BY <3>1 DEF Asientos, Dias
  <2>2. Antes(k, n) \/ Antes(n, k)
    BY <1>2, <2>1 DEF Antes
  <2>3. LugarEn(S, k) < LugarEn(S, n) \/ LugarEn(S, n) < LugarEn(S, k)
    BY <2>2, LugarCrece
  <2>4. LugarEn(S, k) \in Int /\ LugarEn(S, n) \in Int
    BY <1>1
  <2> QED BY <1>2, <2>3, <2>4
<1>3. PICK f : f = [k \in S |-> LugarEn(S, k)]
  OBVIOUS
<1>4. f \in Injection(S, 1..Cardinality(S))
  <2>1. f \in [S -> 1..Cardinality(S)] /\ \A k, n \in S : f[k] = f[n] => k = n
    BY <1>1, <1>2, <1>3
  <2> QED BY <2>1 DEF Injection, IsInjective
<1>5. IsFiniteSet(1..Cardinality(S)) /\ Cardinality(1..Cardinality(S)) = Cardinality(S)
  BY <1>0, FS_Interval
<1>6. f \in Surjection(S, 1..Cardinality(S))
  BY <1>4, <1>5, FS_Injection
<1>7. \A x \in 1..Cardinality(S) : \E k \in S : LugarEn(S, k) = x
  BY <1>3, <1>6 DEF Surjection
<1> QED BY <1>1, <1>2, <1>7

\* In order, movements do together what they do.
LEMMA OrdenSuma ==
  ASSUME RepTypeOK, NEW S \in SUBSET DOMAIN movimientos
  PROVE  /\ SumFunction([x \in 1..Cardinality(S) |-> Efecto(EnOrden(S)[x])]) = Parcial(EfectosHechos, S)
         /\ \A x \in 1..Cardinality(S) : EnOrden(S)[x] \in Asientos
         /\ DOMAIN EnOrden(S) = 1..Cardinality(S) /\ Cardinality(S) \in Nat
<1> DEFINE T == 1..Cardinality(S)
<1>0. /\ \A k \in S : LugarEn(S, k) \in T
      /\ \A k, n \in S : LugarEn(S, k) = LugarEn(S, n) => k = n
      /\ \A x \in T : \E k \in S : LugarEn(S, k) = x
  BY CadaLugar
<1>1. PICK b, f, g : /\ b = [k \in S |-> LugarEn(S, k)] /\ f = [x \in T |-> Efecto(EnOrden(S)[x])]
                     /\ g = [k \in S |-> EfectosHechos[k]]
  OBVIOUS
<1>2. IsFiniteSet(S) /\ Cardinality(S) \in Nat
  BY EfectosEnteros, FS_Subset, FS_CardinalityType
<1>3. g \in [S -> Int]
  BY <1>1, EfectosEnteros
<1>4. \A k \in S : (CHOOSE n \in S : LugarEn(S, n) = LugarEn(S, k)) = k
  BY <1>0
<1>5. \A x \in T : EnOrden(S)[x] = movimientos[CHOOSE k \in S : LugarEn(S, k) = x]
  BY DEF EnOrden
<1>6. \A k \in S : EnOrden(S)[LugarEn(S, k)] = movimientos[k]
  BY <1>0, <1>4, <1>5
<1>7. Renombra(b, S, T, f, g)
  <2>1. \A k \in S : b[k] \in T /\ b[k] = LugarEn(S, k)
    BY <1>0, <1>1
  <2>2. \A k \in S : f[b[k]] = g[k]
    <3>1. \A k \in S : g[k] = Efecto(movimientos[k])
      BY <1>1 DEF EfectosHechos
    <3>2. \A k \in S : f[b[k]] = Efecto(EnOrden(S)[LugarEn(S, k)])
      BY <1>1, <2>1
    <3> QED BY <1>6, <3>1, <3>2
  <2>3. \A k, n \in S : b[k] = b[n] => k = n
    BY <1>0, <2>1
  <2>4. \A x \in T : \E k \in S : b[k] = x
    BY <1>0, <2>1
  <2> QED BY <2>1, <2>2, <2>3, <2>4 DEF Renombra
<1>8. \A x \in T : EnOrden(S)[x] \in Asientos
  <2>1. \A x \in T : \E k \in S : EnOrden(S)[x] = movimientos[k]
    BY <1>0, <1>6
  <2> QED BY <2>1, EfectosEnteros
<1>9. DOMAIN EnOrden(S) = T
  BY DEF EnOrden
<1>10. SumFunction(f) = SumFunction(g)
  <2>1. f = [x \in T |-> f[x]]
    BY <1>1
  <2> HIDE DEF T
  <2> QED BY <1>2, <1>3, <1>7, <2>1, SumaConNombre
<1> QED BY <1>1, <1>2, <1>8, <1>9, <1>10 DEF Parcial

\* Where a kardex ends.
LEMMA SaldoUltimo ==
  ASSUME NEW n \in Nat, NEW e, NEW K, K = [k \in 1..n |-> e[k]]
  PROVE  SaldoFinal(K) = IF n = 0 THEN 0 ELSE e[n].saldo
<1>1. Len(K) = n
  OBVIOUS
<1>2. DOMAIN K = 1..n /\ (n # 0 => n \in 1..n) /\ (n = 0 <=> 1..n = {})
  OBVIOUS
<1>3. n # 0 => K[n] = e[n]
  BY <1>2
<1> QED BY <1>1, <1>2, <1>3 DEF SaldoFinal

\* What a kardex of the reports selects, and its rows.
Visibles(a, i, j, s, empresa) ==
  {k \in DOMAIN movimientos :
     /\ movimientos[k].estado = "CONFIRMADO" /\ movimientos[k].articulo = a
     /\ EnRango(movimientos[k].fecha, i, j)
     /\ BodegaVisible(movimientos[k].bodega, empresa \/ s # Todas)
     /\ (s = Todas \/ SucursalDe[movimientos[k].bodega] = s)}
FilaKardex(S, k) ==
  [fecha |-> EnOrden(S)[k].fecha, cantidad |-> EnOrden(S)[k].cantidad,
   saldo |-> SumFunction([x \in 1..k |-> Efecto(EnOrden(S)[x])]),
   tipo |-> IF ~EsSalida(EnOrden(S)[k]) THEN "INGRESO"
            ELSE IF EnOrden(S)[k].de = "VENTA" THEN "VENTA" ELSE "EGRESO"]

\* The kardex of the reports ends at what it selects has moved.
LEMMA KardexSuma ==
  ASSUME RepTypeOK, NEW a, NEW i, NEW j, NEW s, NEW empresa
  PROVE  SaldoFinal(Kardex(a, i, j, s, empresa)) = Parcial(EfectosHechos, Visibles(a, i, j, s, empresa))
<1> DEFINE S == Visibles(a, i, j, s, empresa)
           K == Kardex(a, i, j, s, empresa)
<1>1. K = [k \in DOMAIN EnOrden(S) |-> FilaKardex(S, k)]
  BY DEF Kardex, PorFecha, SumaDe, EnOrden, LugarEn, FilaKardex, Visibles
<1>2. S \in SUBSET DOMAIN movimientos
  BY DEF Visibles
<1> HIDE DEF S, K
<1>3. /\ SumFunction([x \in 1..Cardinality(S) |-> Efecto(EnOrden(S)[x])]) = Parcial(EfectosHechos, S)
      /\ DOMAIN EnOrden(S) = 1..Cardinality(S) /\ Cardinality(S) \in Nat
  BY <1>2, OrdenSuma
<1>4. PICK e : e = [k \in 1..Cardinality(S) |-> FilaKardex(S, k)]
  OBVIOUS
<1>5. SaldoFinal(K) = IF Cardinality(S) = 0 THEN 0 ELSE e[Cardinality(S)].saldo
  <2>1. K = [k \in 1..Cardinality(S) |-> e[k]]
    BY <1>1, <1>3, <1>4
  <2> QED BY <1>3, <2>1, SaldoUltimo
<1>6. CASE Cardinality(S) = 0
  <2>1. S = {}
    BY <1>2, <1>6, EfectosEnteros, FS_Subset, FS_EmptySet
  <2>2. Parcial(EfectosHechos, {}) = 0
    BY EfectosEnteros, SumaDePartes
  <2> QED BY <1>5, <1>6, <2>1, <2>2 DEF S, K
<1>7. CASE Cardinality(S) # 0
  <2>1. Cardinality(S) \in 1..Cardinality(S)
    BY <1>3, <1>7
  <2>2. e[Cardinality(S)].saldo = SumFunction([x \in 1..Cardinality(S) |-> Efecto(EnOrden(S)[x])])
    BY <1>4, <2>1 DEF FilaKardex
  <2> QED BY <1>3, <1>5, <1>7, <2>2 DEF S, K
<1> QED BY <1>6, <1>7

\* What a kardex of one bodega selects, and its rows.
DeBodega(a, b, i, j) ==
  {k \in DOMAIN movimientos : EnRango(movimientos[k].fecha, i, j) /\ EnKardex(movimientos[k], a, b)}
Anteriores(a, b, i) ==
  {k \in DOMAIN movimientos : EnKardex(movimientos[k], a, b) /\ movimientos[k].fecha < i}
FilaDeBodega(S, abre, k) ==
  [fecha |-> EnOrden(S)[k].fecha, tipo |-> EnOrden(S)[k].tipo,
   saldo |-> abre + SumFunction([x \in 1..k |-> Efecto(EnOrden(S)[x])]),
   entrada |-> IF EsSalida(EnOrden(S)[k]) THEN 0 ELSE EnOrden(S)[k].cantidad,
   salida  |-> IF EsSalida(EnOrden(S)[k]) THEN EnOrden(S)[k].cantidad ELSE 0]

\* What a kardex opens with, as a sum of a part of the movements.
LEMMA SaldoInicialSuma ==
  ASSUME RepTypeOK, NEW a, NEW b, NEW i
  PROVE  SaldoInicial(a, b, i) = Parcial(EfectosHechos, Anteriores(a, b, i)) /\ SaldoInicial(a, b, i) \in Int
<1> DEFINE S == Anteriores(a, b, i)
<1>1. SaldoInicial(a, b, i) = SumFunction([k \in S |-> Efecto(movimientos[k])])
  BY DEF SaldoInicial, SumaDe, Anteriores
<1>2. S \in SUBSET DOMAIN movimientos
  BY DEF Anteriores
<1> HIDE DEF S
<1>3. [k \in S |-> Efecto(movimientos[k])] = [k \in S |-> EfectosHechos[k]]
  BY <1>2 DEF EfectosHechos
<1>4. SaldoInicial(a, b, i) = Parcial(EfectosHechos, S)
  BY <1>1, <1>3 DEF Parcial
<1>5. Parcial(EfectosHechos, S) \in Int
  BY <1>2, EfectosEnteros, SumaDePartes
<1> QED BY <1>4, <1>5 DEF S

\* The kardex of a bodega ends at what there was and what it selects has moved.
LEMMA SaldoDeBodegaSuma ==
  ASSUME RepTypeOK, NEW a, NEW b, NEW i, NEW j
  PROVE  SaldoDeBodega(a, b, i, j) = SaldoInicial(a, b, i) + Parcial(EfectosHechos, DeBodega(a, b, i, j))
<1> DEFINE S == DeBodega(a, b, i, j)
           K == KardexDeBodega(a, b, i, j)
           abre == SaldoInicial(a, b, i)
<1>1. K = [k \in DOMAIN EnOrden(S) |-> FilaDeBodega(S, abre, k)]
  BY DEF KardexDeBodega, PorFecha, SumaDe, EnOrden, LugarEn, FilaDeBodega, DeBodega
<1>2. S \in SUBSET DOMAIN movimientos
  BY DEF DeBodega
<1>3. SaldoDeBodega(a, b, i, j) = IF DOMAIN K = {} THEN abre ELSE SaldoFinal(K)
  BY DEF SaldoDeBodega
<1>4. abre \in Int
  BY SaldoInicialSuma
<1> HIDE DEF S, K, abre
<1>5. /\ SumFunction([x \in 1..Cardinality(S) |-> Efecto(EnOrden(S)[x])]) = Parcial(EfectosHechos, S)
      /\ DOMAIN EnOrden(S) = 1..Cardinality(S) /\ Cardinality(S) \in Nat
  BY <1>2, OrdenSuma
<1>6. PICK e : e = [k \in 1..Cardinality(S) |-> FilaDeBodega(S, abre, k)]
  OBVIOUS
<1>7. K = [k \in 1..Cardinality(S) |-> e[k]]
  BY <1>1, <1>5, <1>6
<1>8. SaldoFinal(K) = IF Cardinality(S) = 0 THEN 0 ELSE e[Cardinality(S)].saldo
  BY <1>5, <1>7, SaldoUltimo
<1>9. DOMAIN K = {} <=> Cardinality(S) = 0
  BY <1>5, <1>7
<1>10. SaldoDeBodega(a, b, i, j) = abre + Parcial(EfectosHechos, S)
  <2>1. CASE Cardinality(S) = 0
    <3>1. S = {}
      BY <1>2, <2>1, EfectosEnteros, FS_Subset, FS_EmptySet
    <3>2. Parcial(EfectosHechos, {}) = 0
      BY EfectosEnteros, SumaDePartes
    <3> QED BY <1>3, <1>4, <1>9, <2>1, <3>1, <3>2
  <2>2. CASE Cardinality(S) # 0
    <3>1. Cardinality(S) \in 1..Cardinality(S)
      BY <1>5, <2>2
    <3>2. e[Cardinality(S)].saldo = abre + SumFunction([x \in 1..Cardinality(S) |-> Efecto(EnOrden(S)[x])])
      BY <1>6, <3>1 DEF FilaDeBodega
    <3> QED BY <1>3, <1>5, <1>8, <1>9, <2>2, <3>2
  <2> QED BY <2>1, <2>2
<1> QED BY <1>10 DEF S, abre

\* The kardex of a bodega opens a range as the one before it closed, and without a range it
\* tells everything that is still confirmed.
LEMMA KardexAbre ==
  ASSUME RepTypeOK, NEW a, NEW b, NEW i \in Dias
  PROVE  /\ i > 1 => SaldoInicial(a, b, i) = SaldoDeBodega(a, b, 1, i - 1)
         /\ SaldoDeBodega(a, b, 1, Todo) =
              Parcial(EfectosHechos, {k \in DOMAIN movimientos : EnKardex(movimientos[k], a, b)})
<1>1. \A k \in DOMAIN movimientos : movimientos[k].fecha \in Dias
  <2>1. \A k \in DOMAIN movimientos : movimientos[k] \in Asientos
    BY EfectosEnteros
  <2> QED BY <2>1 DEF Asientos
<1>2. SaldoInicial(a, b, 1) = 0
  <2>1. Anteriores(a, b, 1) = {}
    BY <1>1 DEF Anteriores, Dias
  <2>2. Parcial(EfectosHechos, {}) = 0
    BY EfectosEnteros, SumaDePartes
  <2> QED BY <2>1, <2>2, SaldoInicialSuma
<1>3. ASSUME NEW j PROVE SaldoDeBodega(a, b, 1, j) = Parcial(EfectosHechos, DeBodega(a, b, 1, j))
  <2>1. DeBodega(a, b, 1, j) \in SUBSET DOMAIN movimientos
    BY DEF DeBodega
  <2>2. Parcial(EfectosHechos, DeBodega(a, b, 1, j)) \in Int
    BY <2>1, EfectosEnteros, SumaDePartes
  <2>3. SaldoDeBodega(a, b, 1, j) = SaldoInicial(a, b, 1) + Parcial(EfectosHechos, DeBodega(a, b, 1, j))
    BY SaldoDeBodegaSuma
  <2> QED BY <1>2, <2>2, <2>3
<1>4. DeBodega(a, b, 1, i - 1) = Anteriores(a, b, i)
  BY <1>1 DEF DeBodega, Anteriores, EnRango, Dias
<1>5. SaldoInicial(a, b, i) = SaldoDeBodega(a, b, 1, i - 1)
  BY <1>3, <1>4, SaldoInicialSuma
<1>6. DeBodega(a, b, 1, Todo) = {k \in DOMAIN movimientos : EnKardex(movimientos[k], a, b)}
  BY <1>1, ReportesSupuestos DEF DeBodega, EnRango, Dias, Todo
<1>7. SaldoDeBodega(a, b, 1, Todo) = Parcial(EfectosHechos, DeBodega(a, b, 1, Todo))
  BY <1>3
<1> QED BY <1>5, <1>6, <1>7

\* What the active bodegas of a branch moved in a range.
Movido(a, i, j, s) ==
  SumaDe(LAMBDA b : SaldoDeBodega(a, b, i, j) - SaldoInicial(a, b, i),
         {b \in LasBodegas \cap activo : SucursalDe[b] = s})

\* A branch ends at what its active bodegas moved,
LEMMA KardexPorBodega ==
  ASSUME RepTypeOK, NEW a, NEW i, NEW j, NEW s \in Sucursales
  PROVE  SaldoFinal(Kardex(a, i, j, s, TRUE)) = Movido(a, i, j, s)
<1> DEFINE V == Visibles(a, i, j, s, TRUE)
           B == {b \in LasBodegas \cap activo : SucursalDe[b] = s}
<1>1. PICK f, c : /\ f = [b \in B |-> SaldoDeBodega(a, b, i, j) - SaldoInicial(a, b, i)]
                  /\ c = [k \in V |-> movimientos[k].bodega]
  OBVIOUS
<1>2. s # Todas /\ IsFiniteSet(LasBodegas)
  BY ReportesSupuestos
<1>3. V \in SUBSET DOMAIN movimientos /\ \A k \in V : movimientos[k].bodega \in LasBodegas
  <2>1. \A k \in DOMAIN movimientos : movimientos[k] \in Asientos
    BY EfectosEnteros
  <2> QED BY <2>1 DEF Visibles, Asientos
<1>4. \A k \in V : c[k] \in B
  BY <1>1, <1>2, <1>3 DEF Visibles, BodegaVisible
<1>5. IsFiniteSet(B)
  <2>1. B \in SUBSET LasBodegas
    OBVIOUS
  <2> QED BY <1>2, <2>1, FS_Subset
<1>6. ASSUME NEW b \in B
      PROVE  f[b] = Parcial(EfectosHechos, {k \in V : c[k] = b})
  <2>1. {k \in V : c[k] = b} = DeBodega(a, b, i, j)
    BY <1>1, <1>2 DEF Visibles, BodegaVisible, DeBodega, EnKardex
  <2>2. SaldoDeBodega(a, b, i, j) = SaldoInicial(a, b, i) + Parcial(EfectosHechos, DeBodega(a, b, i, j))
    BY SaldoDeBodegaSuma
  <2>3. SaldoInicial(a, b, i) \in Int
    BY SaldoInicialSuma
  <2>4. Parcial(EfectosHechos, DeBodega(a, b, i, j)) \in Int
    <3>1. DeBodega(a, b, i, j) \in SUBSET DOMAIN movimientos
      BY DEF DeBodega
    <3> QED BY <3>1, EfectosEnteros, SumaDePartes
  <2>5. f[b] = SaldoDeBodega(a, b, i, j) - SaldoInicial(a, b, i)
    BY <1>1
  <2> HIDE DEF V, B
  <2>6. f[b] = Parcial(EfectosHechos, DeBodega(a, b, i, j))
    BY <2>2, <2>3, <2>4, <2>5
  <2> QED BY <2>1, <2>6
<1>7. SumFunction(f) = Parcial(EfectosHechos, V)
  <2>1. f = [b \in B |-> f[b]]
    BY <1>1
  <2> HIDE DEF V, B
  <2> QED BY <1>3, <1>4, <1>5, <1>6, <2>1, EfectosEnteros, PartesPorClave
<1>8. SaldoFinal(Kardex(a, i, j, s, TRUE)) = Parcial(EfectosHechos, V)
  BY KardexSuma
<1>9. SumaDe(LAMBDA b : SaldoDeBodega(a, b, i, j) - SaldoInicial(a, b, i), B) = SumFunction(f)
  BY <1>1 DEF SumaDe
<1> QED BY <1>7, <1>8, <1>9 DEF Movido

\* and the branches add up.
LEMMA KardexPorSucursal ==
  ASSUME RepTypeOK, NEW a, NEW i, NEW j
  PROVE  SumaDe(LAMBDA s : SaldoFinal(Kardex(a, i, j, s, TRUE)), Sucursales) =
           SaldoFinal(Kardex(a, i, j, Todas, TRUE))
<1> DEFINE V == Visibles(a, i, j, Todas, TRUE)
<1>1. PICK f, c : /\ f = [s \in Sucursales |-> SaldoFinal(Kardex(a, i, j, s, TRUE))]
                  /\ c = [k \in V |-> SucursalDe[movimientos[k].bodega]]
  OBVIOUS
<1>2. Todas \notin Sucursales /\ IsFiniteSet(Sucursales) /\ SucursalDe \in [Puntos \cup LasBodegas -> Sucursales]
  BY ReportesSupuestos
<1>3. V \in SUBSET DOMAIN movimientos /\ \A k \in V : movimientos[k].bodega \in LasBodegas
  <2>1. \A k \in DOMAIN movimientos : movimientos[k] \in Asientos
    BY EfectosEnteros
  <2> QED BY <2>1 DEF Visibles, Asientos
<1>4. \A k \in V : c[k] \in Sucursales
  BY <1>1, <1>2, <1>3
<1>5. ASSUME NEW s \in Sucursales
      PROVE  f[s] = Parcial(EfectosHechos, {k \in V : c[k] = s})
  <2>1. {k \in V : c[k] = s} = Visibles(a, i, j, s, TRUE)
    BY <1>1, <1>2 DEF Visibles, BodegaVisible
  <2>2. SaldoFinal(Kardex(a, i, j, s, TRUE)) = Parcial(EfectosHechos, Visibles(a, i, j, s, TRUE))
    BY KardexSuma
  <2> HIDE DEF V
  <2> QED BY <1>1, <2>1, <2>2
<1>6. SumFunction(f) = Parcial(EfectosHechos, V)
  <2>1. f = [s \in Sucursales |-> f[s]]
    BY <1>1
  <2> HIDE DEF V
  <2> QED BY <1>2, <1>3, <1>4, <1>5, <2>1, EfectosEnteros, PartesPorClave
<1>7. SaldoFinal(Kardex(a, i, j, Todas, TRUE)) = Parcial(EfectosHechos, V)
  BY KardexSuma
<1>8. SumaDe(LAMBDA s : SaldoFinal(Kardex(a, i, j, s, TRUE)), Sucursales) = SumFunction(f)
  BY <1>1 DEF SumaDe
<1> QED BY <1>6, <1>7, <1>8

\* What is confirmed and what was annulled by hand are the stock.
LEMMA KardexEsStock ==
  ASSUME RepTypeOK, StockSumado, NEW b \in LasBodegas, NEW a \in Articulos
  PROVE  SaldoDeBodega(a, b, 1, Todo)
           + SumaDe(LAMBDA k : Efecto(movimientos[k]),
                    {k \in DOMAIN movimientos : /\ movimientos[k].estado = "ANULADO"
                                               /\ <<movimientos[k].bodega, movimientos[k].articulo>> = <<b, a>>})
           = existencia[<<b, a>>]
<1> DEFINE C == {k \in DOMAIN movimientos : EnKardex(movimientos[k], a, b)}
           N == {k \in DOMAIN movimientos : /\ movimientos[k].estado = "ANULADO"
                                            /\ <<movimientos[k].bodega, movimientos[k].articulo>> = <<b, a>>}
           T == {k \in DOMAIN movimientos : movimientos[k].bodega = b /\ movimientos[k].articulo = a}
<1>1. \A k \in DOMAIN movimientos : movimientos[k].estado \in {"CONFIRMADO", "ANULADO"}
  <2>1. \A k \in DOMAIN movimientos : movimientos[k] \in Asientos
    BY EfectosEnteros
  <2> QED BY <2>1 DEF Asientos
<1>2. T = C \cup N /\ C \cap N = {}
  BY <1>1 DEF EnKardex
<1>3. C \in SUBSET DOMAIN movimientos /\ N \in SUBSET DOMAIN movimientos /\ T \in SUBSET DOMAIN movimientos
  OBVIOUS
<1>4. SaldoDeBodega(a, b, 1, Todo) = Parcial(EfectosHechos, C)
  <2>1. 1 \in Dias
    BY ReportesSupuestos DEF Dias
  <2> QED BY <2>1, KardexAbre
<1>5. PICK f : f = EfectosEn(movimientos, b, a)
  OBVIOUS
<1>6. existencia[<<b, a>>] = SumFunction(f)
  BY <1>5 DEF StockSumado
<1>7. f = [k \in DOMAIN movimientos |-> IF k \in T THEN EfectosHechos[k] ELSE 0]
  BY <1>5 DEF EfectosEn, EfectosHechos
<1>8. [k \in N |-> Efecto(movimientos[k])] = [k \in N |-> EfectosHechos[k]]
  BY <1>3 DEF EfectosHechos
<1>9. SumaDe(LAMBDA k : Efecto(movimientos[k]), N) = Parcial(EfectosHechos, N)
  BY <1>8 DEF SumaDe, Parcial
<1> HIDE DEF C, N, T
<1>10. SumFunction(f) = Parcial(EfectosHechos, T)
  BY <1>3, <1>7, EfectosEnteros, SumaSi
<1>11. Parcial(EfectosHechos, C \cup N) = Parcial(EfectosHechos, C) + Parcial(EfectosHechos, N)
  BY <1>2, <1>3, EfectosEnteros, SumaUnion
<1>12. existencia[<<b, a>>] = Parcial(EfectosHechos, C) + Parcial(EfectosHechos, N)
  BY <1>2, <1>6, <1>10, <1>11
<1> QED BY <1>4, <1>9, <1>12 DEF N

-----------------------------------------------------------------------------
(* What the stock is worth *)

\* The rows of the stock, what each is worth, and those of articles that are there.
Lugares == LasBodegas \X Articulos
ValorDelStock == [p \in Lugares |-> existencia[p] * Costo[p[2]]]
ConStock == {p \in Lugares : p[2] \in activo /\ p[1] \in ConFila(p[2])}

\* The types that sums of values need.
LEMMA ValoresEnteros ==
  ASSUME RepTypeOK
  PROVE  IsFiniteSet(Lugares) /\ ValorDelStock \in [Lugares -> Int] /\ ConStock \in SUBSET Lugares
<1>1. IsFiniteSet(LasBodegas) /\ IsFiniteSet(Articulos) /\ Costo \in [Articulos -> Nat]
  BY ReportesSupuestos
<1>2. IsFiniteSet(Lugares)
  BY <1>1, FS_Product DEF Lugares
<1>3. \A n, m \in Nat : n * m \in Int
  OBVIOUS
<1>4. \A p \in Lugares : existencia[p] \in Nat /\ Costo[p[2]] \in Nat
  BY <1>1 DEF RepTypeOK, Lugares
<1>5. \A p \in Lugares : existencia[p] * Costo[p[2]] \in Int
  BY <1>3, <1>4
<1> QED BY <1>2, <1>5 DEF ValorDelStock, ConStock

\* The valuation of one article,
LEMMA ValorDeArticulo ==
  ASSUME RepTypeOK, NEW a \in Articulos \cap activo
  PROVE  SumFunction([b \in ConFila(a) |-> existencia[<<b, a>>] * Costo[a]]) =
           Parcial(ValorDelStock, {p \in ConStock : p[2] = a})
<1> DEFINE A == {p \in ConStock : p[2] = a}
<1>1. PICK f, g, n : /\ f = [b \in ConFila(a) |-> existencia[<<b, a>>] * Costo[a]]
                     /\ g = [p \in A |-> ValorDelStock[p]] /\ n = [p \in A |-> p[1]]
  OBVIOUS
<1>2. A \in SUBSET Lugares /\ \A p \in A : p \in Lugares /\ p[1] \in ConFila(a) /\ p[2] = a /\ p = <<p[1], a>>
  BY DEF ConStock, Lugares
<1>3. \A b \in ConFila(a) : <<b, a>> \in A
  BY DEF ConStock, Lugares, ConFila
<1> HIDE DEF A
<1>4. IsFiniteSet(A) /\ g \in [A -> Int]
  BY <1>1, <1>2, ValoresEnteros, FS_Subset
<1>5. \A p \in A : n[p] \in ConFila(a) /\ f[n[p]] = g[p]
  <2>1. \A p \in A : n[p] = p[1] /\ g[p] = existencia[p] * Costo[a]
    BY <1>1, <1>2 DEF ValorDelStock
  <2>2. \A p \in A : f[p[1]] = existencia[<<p[1], a>>] * Costo[a]
    BY <1>1, <1>2
  <2> QED BY <1>2, <2>1, <2>2
<1>6. \A p, r \in A : n[p] = n[r] => p = r
  BY <1>1, <1>2
<1>7. \A b \in ConFila(a) : \E p \in A : n[p] = b
  BY <1>1, <1>3
<1>8. Renombra(n, A, ConFila(a), f, g)
  BY <1>5, <1>6, <1>7 DEF Renombra
<1>9. SumFunction(f) = SumFunction(g)
  <2>1. f = [b \in ConFila(a) |-> f[b]]
    BY <1>1
  <2> QED BY <1>4, <1>8, <2>1, SumaConNombre
<1> QED BY <1>1, <1>9 DEF Parcial, A

\* and that of one bodega.
LEMMA ValorDeBodega ==
  ASSUME RepTypeOK, NEW b \in LasBodegas
  PROVE  SumFunction([x \in {x \in ValoracionDeBodega(b) : x.producto \in activo} |-> x.valor]) =
           Parcial(ValorDelStock, {p \in ConStock : p[1] = b})
<1> DEFINE A == {p \in ConStock : p[1] = b}
           R == {x \in ValoracionDeBodega(b) : x.producto \in activo}
           fila(a) == [producto |-> a, cantidad |-> existencia[<<b, a>>], valor |-> existencia[<<b, a>>] * Costo[a]]
<1>1. PICK f, g, n : /\ f = [x \in R |-> x.valor] /\ g = [p \in A |-> ValorDelStock[p]]
                     /\ n = [p \in A |-> fila(p[2])]
  OBVIOUS
<1>2. /\ A \in SUBSET Lugares
      /\ \A p \in A : p \in Lugares /\ p[2] \in Articulos \cap activo /\ b \in ConFila(p[2]) /\ p = <<b, p[2]>>
  BY DEF ConStock, Lugares
<1>3. \A a \in Articulos \cap activo : b \in ConFila(a) => <<b, a>> \in A
  BY DEF ConStock, Lugares
<1>4. \A x : x \in R <=> \E a \in Articulos : b \in ConFila(a) /\ x = fila(a) /\ x.producto \in activo
  BY DEF ValoracionDeBodega
<1>5. \A a : fila(a).producto = a /\ fila(a).valor = existencia[<<b, a>>] * Costo[a]
  OBVIOUS
<1> HIDE DEF A, R, fila
<1>6. IsFiniteSet(A) /\ g \in [A -> Int]
  BY <1>1, <1>2, ValoresEnteros, FS_Subset
<1>7. \A p \in A : n[p] = fila(p[2]) /\ n[p] \in R
  BY <1>1, <1>2, <1>4, <1>5
<1>8. \A p \in A : f[n[p]] = g[p]
  <2>1. \A p \in A : f[n[p]] = existencia[<<b, p[2]>>] * Costo[p[2]]
    BY <1>1, <1>5, <1>7
  <2>2. \A p \in A : g[p] = existencia[p] * Costo[p[2]]
    BY <1>1, <1>2 DEF ValorDelStock
  <2> QED BY <1>2, <2>1, <2>2
<1>9. \A p, r \in A : n[p] = n[r] => p = r
  <2>1. \A p \in A : p[2] = n[p].producto
    BY <1>5, <1>7
  <2> QED BY <1>2, <2>1
<1>10. \A x \in R : \E p \in A : n[p] = x
  <2>1. ASSUME NEW x \in R PROVE \E p \in A : n[p] = x
    <3>1. PICK a \in Articulos : b \in ConFila(a) /\ x = fila(a) /\ x.producto \in activo
      BY <1>4
    <3>2. a \in activo
      BY <1>5, <3>1
    <3>3. PICK p : p = <<b, a>>
      OBVIOUS
    <3>4. p \in A /\ p[2] = a
      BY <1>3, <3>1, <3>2, <3>3
    <3> QED BY <1>7, <3>1, <3>4
  <2> QED BY <2>1
<1>11. Renombra(n, A, R, f, g)
  BY <1>7, <1>8, <1>9, <1>10 DEF Renombra
<1>12. SumFunction(f) = SumFunction(g)
  <2>1. f = [x \in R |-> f[x]]
    BY <1>1
  <2> QED BY <1>6, <1>11, <2>1, SumaConNombre
<1> QED BY <1>1, <1>12 DEF Parcial, A, R

\* Both valuations tell what the same rows are worth.
LEMMA ValoracionesIguales ==
  ASSUME RepTypeOK
  PROVE  SumaDe(LAMBDA x : x.valor, Valoracion(FALSE)) =
           SumaDe(LAMBDA b : SumaDe(LAMBDA x : x.valor, {x \in ValoracionDeBodega(b) : x.producto \in activo}), LasBodegas)
<1> DEFINE T == Articulos \cap activo
           R == Valoracion(FALSE)
           fila(a) == [producto |-> a, cantidad |-> SumaDe(LAMBDA b : existencia[<<b, a>>], ConFila(a)),
                       valor |-> SumaDe(LAMBDA b : existencia[<<b, a>>] * Costo[a], ConFila(a))]
<1>0. IsFiniteSet(Lugares) /\ ValorDelStock \in [Lugares -> Int] /\ ConStock \in SUBSET Lugares
  BY ValoresEnteros
<1>1. IsFiniteSet(T) /\ IsFiniteSet(LasBodegas)
  BY ReportesSupuestos, FS_Intersection
<1>2. \A x : x \in R <=> \E a \in T : x = fila(a)
  BY DEF Valoracion, BodegaVisible, ConFila
<1>3. \A a : fila(a).producto = a /\ fila(a).valor = SumFunction([b \in ConFila(a) |-> existencia[<<b, a>>] * Costo[a]])
  BY DEF SumaDe
<1>4. PICK f, g, h, n, c, d :
        /\ f = [x \in R |-> x.valor] /\ g = [a \in T |-> fila(a).valor] /\ n = [a \in T |-> fila(a)]
        /\ h = [b \in LasBodegas |->
                  SumFunction([x \in {x \in ValoracionDeBodega(b) : x.producto \in activo} |-> x.valor])]
        /\ c = [p \in ConStock |-> p[2]] /\ d = [p \in ConStock |-> p[1]]
  OBVIOUS
<1>5. SumaDe(LAMBDA x : x.valor, R) = SumFunction(f)
  BY <1>4 DEF SumaDe
<1>6. SumaDe(LAMBDA b : SumaDe(LAMBDA x : x.valor, {x \in ValoracionDeBodega(b) : x.producto \in activo}), LasBodegas)
        = SumFunction(h)
  BY <1>4 DEF SumaDe
<1> HIDE DEF fila, R
<1>7. \A p \in ConStock : c[p] \in T /\ d[p] \in LasBodegas /\ c[p] = p[2] /\ d[p] = p[1]
  BY <1>4 DEF ConStock, Lugares
<1>8. SumFunction(g) = Parcial(ValorDelStock, ConStock) /\ g \in [T -> Int]
  <2>1. ASSUME NEW a \in T
        PROVE  g[a] = Parcial(ValorDelStock, {p \in ConStock : c[p] = a}) /\ g[a] \in Int
    <3>1. {p \in ConStock : c[p] = a} = {p \in ConStock : p[2] = a}
      BY <1>7
    <3>2. g[a] = Parcial(ValorDelStock, {p \in ConStock : p[2] = a})
      BY <1>3, <1>4, ValorDeArticulo
    <3>3. {p \in ConStock : p[2] = a} \in SUBSET Lugares
      BY <1>0
    <3>4. Parcial(ValorDelStock, {p \in ConStock : p[2] = a}) \in Int
      BY <1>0, <3>3, SumaDePartes
    <3> QED BY <3>1, <3>2, <3>4
  <2>2. g = [a \in T |-> g[a]]
    BY <1>4
  <2>3. g \in [T -> Int]
    BY <2>1, <2>2
  <2> HIDE DEF T
  <2>4. SumFunction(g) = Parcial(ValorDelStock, ConStock)
    BY <1>0, <1>1, <1>7, <2>1, <2>2, PartesPorClave
  <2> QED BY <2>3, <2>4
<1>9. SumFunction(h) = Parcial(ValorDelStock, ConStock)
  <2>1. ASSUME NEW b \in LasBodegas
        PROVE  h[b] = Parcial(ValorDelStock, {p \in ConStock : d[p] = b})
    <3>1. {p \in ConStock : d[p] = b} = {p \in ConStock : p[1] = b}
      BY <1>7
    <3>2. h[b] = SumFunction([x \in {x \in ValoracionDeBodega(b) : x.producto \in activo} |-> x.valor])
      BY <1>4
    <3> QED BY <3>1, <3>2, ValorDeBodega
  <2>2. h = [b \in LasBodegas |-> h[b]]
    BY <1>4
  <2> QED BY <1>0, <1>1, <1>7, <2>1, <2>2, PartesPorClave
<1>10. SumFunction(f) = SumFunction(g)
  <2> HIDE DEF T
  <2>1. \A a \in T : n[a] \in R /\ f[n[a]] = g[a] /\ n[a] = fila(a) /\ n[a].producto = a
    BY <1>2, <1>3, <1>4
  <2>2. \A x \in R : \E a \in T : n[a] = x
    BY <1>2, <2>1
  <2>3. \A a, b \in T : n[a] = n[b] => a = b
    BY <2>1
  <2>4. Renombra(n, T, R, f, g)
    BY <2>1, <2>2, <2>3 DEF Renombra
  <2>5. f = [x \in R |-> f[x]]
    BY <1>4
  <2> QED BY <1>1, <1>8, <2>4, <2>5, SumaConNombre
<1> QED BY <1>5, <1>6, <1>8, <1>9, <1>10 DEF R

\* Both services of kardex and valuation agree wherever the invariant holds.
LEMMA KardexConcuerda ==
  ASSUME RepInv
  PROVE  KardexConcuerdan
<1>0. RepTypeOK /\ StockSumado
  BY DEF RepInv
<1>1. ASSUME NEW a \in Articulos, NEW i \in Dias, NEW j \in i..Todo, NEW b \in LasBodegas, i > 1
      PROVE  SaldoInicial(a, b, i) = SaldoDeBodega(a, b, 1, i - 1)
  BY <1>0, <1>1, KardexAbre
<1>2. ASSUME NEW a \in Articulos, NEW i \in Dias, NEW j \in i..Todo, NEW s \in Sucursales
      PROVE  SaldoFinal(Kardex(a, i, j, s, TRUE)) =
               SumaDe(LAMBDA b : SaldoDeBodega(a, b, i, j) - SaldoInicial(a, b, i),
                      {b \in LasBodegas \cap activo : SucursalDe[b] = s})
  <2>1. SaldoFinal(Kardex(a, i, j, s, TRUE)) = Movido(a, i, j, s)
    BY <1>0, KardexPorBodega
  <2> QED BY <2>1 DEF Movido
<1>3. ASSUME NEW a \in Articulos, NEW i \in Dias, NEW j \in i..Todo
      PROVE  SumaDe(LAMBDA s : SaldoFinal(Kardex(a, i, j, s, TRUE)), Sucursales) =
               SaldoFinal(Kardex(a, i, j, Todas, TRUE))
  BY <1>0, KardexPorSucursal
<1>4. ASSUME NEW b \in LasBodegas, NEW a \in Articulos
      PROVE  SaldoDeBodega(a, b, 1, Todo)
               + SumaDe(LAMBDA k : Efecto(movimientos[k]),
                        {k \in DOMAIN movimientos : /\ movimientos[k].estado = "ANULADO"
                                                   /\ <<movimientos[k].bodega, movimientos[k].articulo>> = <<b, a>>})
               = existencia[<<b, a>>]
  BY <1>0, KardexEsStock
<1>5. SumaDe(LAMBDA x : x.valor, Valoracion(FALSE)) =
        SumaDe(LAMBDA b : SumaDe(LAMBDA x : x.valor, {x \in ValoracionDeBodega(b) : x.producto \in activo}), LasBodegas)
  BY <1>0, ValoracionesIguales
<1> QED BY <1>1, <1>2, <1>3, <1>4, <1>5 DEF KardexConcuerdan

-----------------------------------------------------------------------------
(* The reports, always: Reportes *)

\* In every state the summary of sales, the trend by day, month or year, the sellers, the
\* customers, the points, the branches and the tax report tell the same sales, and the reports
\* on profit by customer, by sale and by article the same profit.
THEOREM VentasYUtilidadesSiempre == RepSpec => []VentasYUtilidades
<1>1. RepInv => VentasYUtilidades
  BY VentasConcuerdan, UtilidadesConcuerdan DEF VentasYUtilidades
<1> QED BY <1>1, RepInvariante, PTL

\* Everything that was ever invoiced is in the cash of one day, in the tax credit of one day, in
\* the portfolio of one customer or pending on a sale without one, but for the withholdings
\* created APLICADA, which paid nothing and, annulled, give back what they did not take.
THEOREM CobrosSiempre == RepSpec => []CobrosCuadran
<1>1. RepInv => CobrosCuadran
  BY CobrosConcuerdan
<1> QED BY <1>1, RepInvariante, PTL

\* Purchases by supplier, by month and by branch agree, the portfolio owes what was bought but
\* for what was paid and withheld, and the monitor shows each electronic document once.
THEOREM ComprasYDocumentosSiempre == RepSpec => []ComprasYDocumentos
<1>1. RepInv => ComprasYDocumentos
  BY ComprasConcuerdan, MonitorConcuerda DEF ComprasYDocumentos
<1> QED BY <1>1, RepInvariante, PTL

\* The kardex of a bodega opens where the one before it closed and ends at the stock, but for
\* what was annulled by hand; its bodegas make up the kardex of a branch and the branches that
\* of the company; and both valuations are worth the same, but for the articles deleted.
THEOREM KardexConcuerdanSiempre == RepSpec => []KardexConcuerdan
<1>1. RepInv => KardexConcuerdan
  BY KardexConcuerda
<1> QED BY <1>1, RepInvariante, PTL
=============================================================================

--------------------------- MODULE ComprasPruebas ---------------------------
(***************************************************************************)
(* What Compras guarantees for any purchases, bodegas, requests and stock. *)
(***************************************************************************)
EXTENDS Compras, FiniteSetTheorems, TLAPS

-----------------------------------------------------------------------------
(* The inductive invariant *)

\* A request to register has its purchase for itself until it is there; a request to annul
\* has read one that is.
PeticionesBien ==
  /\ \A t \in EnCurso("COMPRA") :
       /\ compra[peticion[t].compra] = Nadie
       /\ \A u \in EnCurso("COMPRA") : peticion[u].compra = peticion[t].compra => u = t
  /\ \A t \in EnCurso("ANULA") : compra[peticion[t].compra] # Nadie

\* The annulments of a purchase, made and in flight, were all requested while it was REGISTRADA.
AnulacionesContadas ==
  \A c \in ComprasPosibles : compra[c] # Nadie =>
    /\ compra[c].estado = "REGISTRADA" => compra[c].salidas = 0 /\ compra[c].devueltas = 0
    /\ compra[c].salidas + compra[c].devueltas + Cardinality(Anulando(c)) <= Cardinality(Peticiones)

\* Where no annulments crossed, the one in flight finds the purchase as it read it.
AnulacionSola ==
  \A c \in ComprasPosibles \ aparte : \A t \in Anulando(c) :
    compra[c].estado = "REGISTRADA" /\ Anulando(c) = {t}

\* A deletion of b, or of the product, is in flight or was made.
Cerrada(b) == \/ bodega[b] = "BAJA" \/ DeBaja(b) # {}
              \/ ~producto \/ EnCurso("BAJA_PRODUCTO") # {}

\* What nobody crosses stays as the deletion found it: empty, and with nobody at work on it.
Despejada ==
  \A b \in Bodegas \ solapadas :
    /\ Cerrada(b) => Sobre(b) = {} /\ stock[b] = 0
    /\ bodega[b] = "BAJA" \/ DeBaja(b) # {} \/ ~producto => Activas(b) = {}

ComprasBien == PeticionesBien /\ AnulacionesContadas /\ AnulacionSola /\ CompraUnaVez

Inv == TypeOK /\ ComprasBien /\ RelacionDiceStock /\ Despejada

-----------------------------------------------------------------------------
(* Requests *)

DeFilas == {"COMPRA", "TRANSFIERE", "ASIGNA", "FIJA"}

\* Who is at work on a bodega, before a step and after it: a request that is to write its
\* rows or its stock.
LEMMA SobreEs ==
  ASSUME NEW b, NEW t
  PROVE  /\ t \in Sobre(b) <=>
              /\ t \in Peticiones /\ peticion[t] # Nadie /\ peticion[t].que \in DeFilas
              /\ \/ peticion[t].bodega = b
                 \/ peticion[t].que = "TRANSFIERE" /\ peticion[t].destino = b
         /\ t \in Sobre(b)' <=>
              /\ t \in Peticiones /\ peticion'[t] # Nadie /\ peticion'[t].que \in DeFilas
              /\ \/ peticion'[t].bodega = b
                 \/ peticion'[t].que = "TRANSFIERE" /\ peticion'[t].destino = b
<1>1. /\ UNION {EnCurso(q) : q \in DeFilas} = {u \in Peticiones : peticion[u] # Nadie /\ peticion[u].que \in DeFilas}
      /\ UNION {EnCurso(q)' : q \in DeFilas} = {u \in Peticiones : peticion'[u] # Nadie /\ peticion'[u].que \in DeFilas}
  BY DEF EnCurso
<1> QED BY <1>1 DEF Sobre, DeFilas

\* What starts a request.
LEMMA EmpiezaBien ==
  ASSUME TypeOK, NEW t \in Peticiones, NEW r \in Pendientes, NEW bs \in SUBSET Bodegas, Empieza(t, r, bs)
  PROVE  /\ peticion' \in [Peticiones -> Pendientes \cup {Nadie}]
         /\ solapadas' \subseteq Bodegas /\ solapadas' = solapadas \cup bs
         /\ peticion[t] = Nadie /\ peticion'[t] = r /\ r # Nadie
         /\ \A u \in Peticiones \ {t} : peticion'[u] = peticion[u]
BY ComprasSupuestos DEF Empieza, TypeOK

\* What ends one.
LEMMA TerminaBien ==
  ASSUME TypeOK, NEW t \in Peticiones, Termina(t)
  PROVE  /\ peticion' \in [Peticiones -> Pendientes \cup {Nadie}]
         /\ peticion'[t] = Nadie
         /\ \A u \in Peticiones \ {t} : peticion'[u] = peticion[u]
BY DEF Termina, TypeOK

-----------------------------------------------------------------------------
(* The purchases, where a step is not about them *)

\* Annulments in flight are finitely many, and no more than the requests.
LEMMA AnulandoFinito ==
  ASSUME NEW c
  PROVE  /\ IsFiniteSet(Anulando(c)) /\ Cardinality(Anulando(c)) \in Nat
         /\ Cardinality(Anulando(c)) <= Cardinality(Peticiones) /\ Cardinality(Peticiones) \in Nat
<1>1. Anulando(c) \subseteq Peticiones
  BY DEF Anulando, EnCurso
<1> QED BY <1>1, ComprasSupuestos, FS_Subset, FS_CardinalityType

\* Any other request starts.
LEMMA OtraEmpieza ==
  ASSUME TypeOK, ComprasBien, NEW t \in Peticiones, NEW r \in Pendientes, NEW bs \in SUBSET Bodegas,
         Empieza(t, r, bs), r.que \notin {"COMPRA", "ANULA"}, UNCHANGED <<compra, aparte>>
  PROVE  ComprasBien'
<1>1. \A q \in {"COMPRA", "ANULA"} : EnCurso(q)' = EnCurso(q) /\ \A u \in EnCurso(q) : peticion'[u] = peticion[u]
  BY EmpiezaBien DEF EnCurso
<1>2. \A c : Anulando(c)' = Anulando(c)
  BY <1>1 DEF Anulando
<1> QED BY <1>1, <1>2 DEF ComprasBien, PeticionesBien, AnulacionesContadas, AnulacionSola, CompraUnaVez

\* A request ends and leaves the purchases as they were.
LEMMA AcabaSinMas ==
  ASSUME TypeOK, ComprasBien, NEW t \in Peticiones, Termina(t), UNCHANGED <<compra, aparte>>
  PROVE  ComprasBien'
<1>1. \A q : EnCurso(q)' = EnCurso(q) \ {t} /\ \A u \in EnCurso(q)' : peticion'[u] = peticion[u]
  BY TerminaBien DEF EnCurso
<1>2. \A c : Anulando(c)' = Anulando(c) \ {t}
  BY <1>1 DEF Anulando
<1>3. ASSUME NEW c PROVE Cardinality(Anulando(c)') <= Cardinality(Anulando(c)) /\ Cardinality(Anulando(c)') \in Nat
  BY <1>2, AnulandoFinito, FS_Subset, FS_CardinalityType
<1>4. PeticionesBien'
  BY <1>1 DEF ComprasBien, PeticionesBien
<1>5. AnulacionesContadas'
  <2> SUFFICES ASSUME NEW c \in ComprasPosibles, compra[c] # Nadie
               PROVE  /\ compra[c].estado = "REGISTRADA" => compra[c].salidas = 0 /\ compra[c].devueltas = 0
                      /\ compra[c].salidas + compra[c].devueltas + Cardinality(Anulando(c)')
                           <= Cardinality(Peticiones)
    BY DEF AnulacionesContadas
  <2>1. compra[c].salidas \in Int /\ compra[c].devueltas \in Int
    BY AnulandoFinito DEF TypeOK, Compras_
  <2> QED BY <2>1, <1>3, AnulandoFinito DEF ComprasBien, AnulacionesContadas
<1>6. AnulacionSola'
  BY <1>2 DEF ComprasBien, AnulacionSola
<1> QED BY <1>4, <1>5, <1>6 DEF ComprasBien, CompraUnaVez

-----------------------------------------------------------------------------
(* The rows of the product in a bodega *)

\* After a movement every row in force says what it left, and rows are not more than MaxFilas.
LEMMA SincronizadasBien ==
  ASSUME TypeOK, NEW b \in Bodegas, NEW n \in 0..MaxStock,
         Activas(b) = {} => Len(relaciones[b]) < MaxFilas
  PROVE  LET s == Sincronizadas(b, n)
         IN  /\ s \in Seq(Filas) /\ Len(s) <= MaxFilas
             /\ \A i \in DOMAIN s : s[i].activa => s[i].cantidad = n
<1> DEFINE f == Fila(n, FALSE)
           s == Sincronizadas(b, n)
<1>1. f \in Filas /\ f.cantidad = n
  BY DEF Fila, Filas
<1>2. relaciones[b] \in Seq(Filas) /\ Len(relaciones[b]) <= MaxFilas
  BY DEF TypeOK
<1> HIDE DEF f
<1>3. CASE Activas(b) = {}
  <2>1. s = Append(relaciones[b], f)
    BY <1>3 DEF Sincronizadas, f
  <2>2. \A i \in DOMAIN relaciones[b] : ~relaciones[b][i].activa
    BY <1>3 DEF Activas
  <2> HIDE DEF s
  <2> QED BY <1>1, <1>2, <1>3, <2>1, <2>2, ComprasSupuestos DEF s
<1>4. CASE Activas(b) # {}
  <2>1. s = [i \in DOMAIN relaciones[b] |-> IF relaciones[b][i].activa THEN f ELSE relaciones[b][i]]
    BY <1>4 DEF Sincronizadas, f
  <2>2. \A i \in DOMAIN relaciones[b] : relaciones[b][i] \in Filas
    BY <1>2
  <2> HIDE DEF s
  <2>3. s \in Seq(Filas) /\ Len(s) = Len(relaciones[b])
    BY <1>1, <1>2, <2>1, <2>2
  <2> QED BY <1>1, <1>2, <2>1, <2>2, <2>3 DEF s
<1> QED BY <1>3, <1>4

\* The rows and the stock of the bodegas of bs after a movement; the others stay.
LEMMA MueveBien ==
  ASSUME TypeOK, RelacionDiceStock, NEW bs \in SUBSET Bodegas, NEW nuevo \in [Bodegas -> Nat],
         \A b \in Bodegas \ bs : nuevo[b] = stock[b], Mueve(nuevo, bs)
  PROVE  /\ stock' \in [Bodegas -> 0..MaxStock]
         /\ relaciones' \in [Bodegas -> Seq(Filas)] /\ \A b \in Bodegas : Len(relaciones'[b]) <= MaxFilas
         /\ RelacionDiceStock'
         /\ \A b \in Bodegas \ bs : stock'[b] = stock[b] /\ relaciones'[b] = relaciones[b]
<1>1. stock' = nuevo /\ \A b \in bs : nuevo[b] \in 0..MaxStock /\ (Activas(b) = {} => Len(relaciones[b]) < MaxFilas)
  BY ComprasSupuestos DEF Mueve
<1>2. /\ \A b \in bs : relaciones'[b] = Sincronizadas(b, nuevo[b])
      /\ \A b \in Bodegas \ bs : relaciones'[b] = relaciones[b]
      /\ relaciones' = [b \in Bodegas |-> relaciones'[b]]
  BY DEF Mueve
<1>3. ASSUME NEW b \in bs
      PROVE  /\ relaciones'[b] \in Seq(Filas) /\ Len(relaciones'[b]) <= MaxFilas
             /\ \A i \in DOMAIN relaciones'[b] : relaciones'[b][i].activa => relaciones'[b][i].cantidad = nuevo[b]
  BY <1>1, <1>2, <1>3, SincronizadasBien
<1>4. stock' \in [Bodegas -> 0..MaxStock]
  BY <1>1 DEF TypeOK
<1>5. \A b \in Bodegas : relaciones'[b] \in Seq(Filas) /\ Len(relaciones'[b]) <= MaxFilas
  BY <1>2, <1>3 DEF TypeOK
<1>6. RelacionDiceStock'
  <2> SUFFICES ASSUME NEW b \in Bodegas, NEW i \in DOMAIN relaciones'[b], relaciones'[b][i].activa
               PROVE  relaciones'[b][i].aMano \/ relaciones'[b][i].cantidad = stock'[b]
    BY DEF RelacionDiceStock, Activas
  <2>1. CASE b \in bs
    BY <1>1, <1>3, <2>1
  <2>2. CASE b \notin bs
    BY <1>1, <1>2, <2>2 DEF RelacionDiceStock, Activas
  <2> QED BY <2>1, <2>2
<1> QED BY <1>1, <1>2, <1>4, <1>5, <1>6

\* A unit in, and a unit out.
LEMMA EntraSaleBien ==
  ASSUME TypeOK, RelacionDiceStock, NEW b \in Bodegas, Entra(b) \/ Sale(b)
  PROVE  /\ stock' \in [Bodegas -> 0..MaxStock]
         /\ relaciones' \in [Bodegas -> Seq(Filas)] /\ \A d \in Bodegas : Len(relaciones'[d]) <= MaxFilas
         /\ RelacionDiceStock'
         /\ \A d \in Bodegas \ {b} : stock'[d] = stock[d] /\ relaciones'[d] = relaciones[d]
<1>1. stock[b] \in Nat /\ stock \in [Bodegas -> Nat]
  BY ComprasSupuestos DEF TypeOK
<1>2. CASE Entra(b)
  <2> DEFINE nuevo == [stock EXCEPT ![b] = stock[b] + 1]
  <2>1. nuevo \in [Bodegas -> Nat] /\ \A d \in Bodegas \ {b} : nuevo[d] = stock[d]
    BY <1>1
  <2>2. Mueve(nuevo, {b})
    BY <1>2 DEF Entra
  <2> HIDE DEF nuevo
  <2> QED BY <2>1, <2>2, MueveBien
<1>3. CASE Sale(b)
  <2> DEFINE nuevo == [stock EXCEPT ![b] = stock[b] - 1]
  <2>1. nuevo \in [Bodegas -> Nat] /\ \A d \in Bodegas \ {b} : nuevo[d] = stock[d]
    BY <1>1, <1>3 DEF Sale
  <2>2. Mueve(nuevo, {b})
    BY <1>3 DEF Sale
  <2> HIDE DEF nuevo
  <2> QED BY <2>1, <2>2, MueveBien
<1> QED BY <1>2, <1>3

\* A row written by hand.
LEMMA CrearFilaBien ==
  ASSUME TypeOK, RelacionDiceStock, NEW b \in Bodegas, NEW n \in 0..MaxStock, CrearFila(b, n), UNCHANGED stock
  PROVE  /\ relaciones' \in [Bodegas -> Seq(Filas)] /\ \A d \in Bodegas : Len(relaciones'[d]) <= MaxFilas
         /\ RelacionDiceStock'
         /\ \A d \in Bodegas \ {b} : relaciones'[d] = relaciones[d]
<1> DEFINE f == Fila(n, TRUE)
<1>1. f \in Filas /\ f.aMano
  BY DEF Fila, Filas
<1>2. /\ relaciones'[b] = Append(relaciones[b], f) /\ Len(relaciones[b]) < MaxFilas
      /\ \A d \in Bodegas \ {b} : relaciones'[d] = relaciones[d]
      /\ relaciones' = [d \in Bodegas |-> relaciones'[d]]
  BY DEF CrearFila, TypeOK
<1> HIDE DEF f
<1>3. \A d \in Bodegas : relaciones[d] \in Seq(Filas) /\ Len(relaciones[d]) <= MaxFilas
  BY DEF TypeOK
<1>4. relaciones'[b] \in Seq(Filas) /\ Len(relaciones'[b]) <= MaxFilas
  BY <1>1, <1>2, <1>3, ComprasSupuestos
<1>5. \A i \in DOMAIN relaciones'[b] :
        \/ relaciones'[b][i] = f
        \/ i \in DOMAIN relaciones[b] /\ relaciones'[b][i] = relaciones[b][i]
  <2>1. Len(relaciones'[b]) = Len(relaciones[b]) + 1
    BY <1>1, <1>2, <1>3
  <2>2. DOMAIN relaciones'[b] = 1..(Len(relaciones[b]) + 1) /\ DOMAIN relaciones[b] = 1..Len(relaciones[b])
    BY <1>3, <1>4, <2>1
  <2>3. \A i \in 1..Len(relaciones[b]) : Append(relaciones[b], f)[i] = relaciones[b][i]
    BY <1>1, <1>3
  <2>4. Append(relaciones[b], f)[Len(relaciones[b]) + 1] = f
    BY <1>1, <1>3
  <2> QED BY <1>2, <1>3, <2>2, <2>3, <2>4
<1>6. RelacionDiceStock'
  BY <1>1, <1>2, <1>5 DEF RelacionDiceStock, Activas
<1> QED BY <1>2, <1>3, <1>4, <1>6

-----------------------------------------------------------------------------
(* What deletions leave *)

\* Someone at work on a bodega that nothing crossed: no deletion is near it.
LEMMA SobreAbierta ==
  ASSUME Despejada, NEW b \in Bodegas \ solapadas, Sobre(b) # {}
  PROVE  ~Cerrada(b)
BY DEF Despejada

\* Where the deletions of a step are those there were, nobody new is at work, and what changed
\* is either told in solapadas or away from every deletion, all stays as they found it.
LEMMA DespejadaQueda ==
  ASSUME Despejada, UNCHANGED <<bodega, producto>>, solapadas \subseteq solapadas',
         \A b \in Bodegas :
           /\ DeBaja(b)' = DeBaja(b) /\ EnCurso("BAJA_PRODUCTO")' = EnCurso("BAJA_PRODUCTO"),
         \A b \in Bodegas \ solapadas' :
           \/ ~Cerrada(b)
           \/ Sobre(b)' \subseteq Sobre(b) /\ stock'[b] = stock[b] /\ Activas(b)' = Activas(b)
  PROVE  Despejada'
<1> SUFFICES ASSUME NEW b \in Bodegas \ solapadas'
             PROVE  /\ Cerrada(b)' => Sobre(b)' = {} /\ stock'[b] = 0
                    /\ bodega[b] = "BAJA" \/ DeBaja(b) # {} \/ ~producto => Activas(b)' = {}
  BY DEF Despejada
<1>1. Cerrada(b)' <=> Cerrada(b)
  BY DEF Cerrada
<1>2. b \in Bodegas \ solapadas
  OBVIOUS
<1> QED BY <1>1, <1>2 DEF Despejada, Cerrada

\* A request other than a deletion starts, and tells where it crosses one.
LEMMA EmpiezaDespejada ==
  ASSUME TypeOK, Despejada, NEW t \in Peticiones, NEW r \in Pendientes, NEW ds \in SUBSET Bodegas,
         NEW bs \in SUBSET Bodegas, Empieza(t, r, bs),
         r.que \notin {"BAJA_BODEGA", "BAJA_PRODUCTO"}, UNCHANGED <<bodega, producto, stock, relaciones>>,
         r.que \in DeFilas => /\ bs = Cerradas(ds) /\ r.bodega \in ds
                              /\ r.que = "TRANSFIERE" => r.destino \in ds
  PROVE  Despejada'
<1>1. \A q \in {"BAJA_BODEGA", "BAJA_PRODUCTO"} :
        EnCurso(q)' = EnCurso(q) /\ \A u \in EnCurso(q) : peticion'[u] = peticion[u]
  BY EmpiezaBien DEF EnCurso
<1>2. \A b : DeBaja(b)' = DeBaja(b)
  BY <1>1 DEF DeBaja
<1>3. ASSUME NEW b \in Bodegas \ solapadas', Cerrada(b) PROVE Sobre(b)' \subseteq Sobre(b)
  <2>1. b \notin Cerradas(ds) \/ r.que \notin DeFilas
    BY <1>3, EmpiezaBien
  <2>2. b \notin ds \/ r.que \notin DeFilas
    BY <1>3, <2>1 DEF Cerradas, Cerrada
  <2>3. ~(r.que \in DeFilas /\ (r.bodega = b \/ (r.que = "TRANSFIERE" /\ r.destino = b)))
    BY <2>2
  <2>4. ASSUME NEW u \in Sobre(b)' PROVE u \in Sobre(b)
    <3>1. /\ u \in Peticiones /\ peticion'[u] # Nadie /\ peticion'[u].que \in DeFilas
          /\ \/ peticion'[u].bodega = b
             \/ peticion'[u].que = "TRANSFIERE" /\ peticion'[u].destino = b
      BY <2>4, SobreEs
    <3>2. u # t
      BY <2>3, <3>1, EmpiezaBien
    <3> QED BY <3>1, <3>2, EmpiezaBien, SobreEs
  <2> QED BY <2>4
<1>4. \A b : Activas(b)' = Activas(b)
  BY DEF Activas
<1>5. solapadas \subseteq solapadas'
  BY EmpiezaBien
<1> QED BY <1>1, <1>2, <1>3, <1>4, <1>5, DespejadaQueda

\* A request other than a deletion ends.
LEMMA TerminaQuita ==
  ASSUME TypeOK, NEW t \in Peticiones, Termina(t)
  PROVE  /\ \A q : EnCurso(q)' = EnCurso(q) \ {t}
         /\ \A b : DeBaja(b)' = DeBaja(b) \ {t} /\ Sobre(b)' = Sobre(b) \ {t}
<1>1. \A q : EnCurso(q)' = EnCurso(q) \ {t} /\ \A u \in EnCurso(q)' : peticion'[u] = peticion[u]
  BY TerminaBien DEF EnCurso
<1>2. \A b : DeBaja(b)' = DeBaja(b) \ {t}
  BY <1>1 DEF DeBaja
<1>3. ASSUME NEW b PROVE Sobre(b)' = Sobre(b) \ {t}
  <2>1. ASSUME NEW u PROVE u \in Sobre(b)' <=> u \in Sobre(b) /\ u # t
    BY SobreEs, TerminaBien
  <2> QED BY <2>1
<1> QED BY <1>1, <1>2, <1>3

\* A request that deletes nothing ends: what the deletions in flight found clear stays so.
LEMMA TerminaDespejada ==
  ASSUME TypeOK, Despejada, NEW t \in Peticiones, Termina(t), peticion[t] # Nadie,
         peticion[t].que \notin {"BAJA_BODEGA", "BAJA_PRODUCTO"},
         UNCHANGED <<bodega, producto>>, solapadas \subseteq solapadas',
         \A b \in Bodegas \ solapadas' :
           ~Cerrada(b) \/ (stock'[b] = stock[b] /\ relaciones'[b] = relaciones[b])
  PROVE  Despejada'
<1>1. t \notin EnCurso("BAJA_BODEGA") /\ t \notin EnCurso("BAJA_PRODUCTO")
  BY DEF EnCurso
<1>2. EnCurso("BAJA_PRODUCTO")' = EnCurso("BAJA_PRODUCTO") /\ \A b : DeBaja(b)' = DeBaja(b)
  BY <1>1, TerminaQuita DEF DeBaja
<1>3. \A b \in Bodegas \ solapadas' : ~Cerrada(b) \/ (stock'[b] = stock[b] /\ Activas(b)' = Activas(b))
  BY DEF Activas
<1>4. \A b : Sobre(b)' \subseteq Sobre(b)
  BY TerminaQuita
<1> QED BY <1>2, <1>3, <1>4, DespejadaQueda

\* No request moves.
LEMMA QuietaDespejada ==
  ASSUME Despejada, UNCHANGED <<bodega, producto, peticion>>, solapadas \subseteq solapadas',
         \A b \in Bodegas \ solapadas' :
           ~Cerrada(b) \/ (stock'[b] = stock[b] /\ relaciones'[b] = relaciones[b])
  PROVE  Despejada'
<1>1. /\ EnCurso("BAJA_PRODUCTO")' = EnCurso("BAJA_PRODUCTO")
      /\ \A b : DeBaja(b)' = DeBaja(b) /\ Sobre(b)' = Sobre(b)
  BY DEF EnCurso, DeBaja, Sobre
<1>2. \A b \in Bodegas \ solapadas' : ~Cerrada(b) \/ (stock'[b] = stock[b] /\ Activas(b)' = Activas(b))
  BY DEF Activas
<1> QED BY <1>1, <1>2, DespejadaQueda

-----------------------------------------------------------------------------
(* The steps *)

\* A step that is not of the purchases: what is left to show of it.
LEMMA PasoAjeno ==
  ASSUME Inv, UNCHANGED <<compra, aparte>>,
         bodega' \in [Bodegas -> {"NUEVA", "ACTIVA", "BAJA"}], producto' \in BOOLEAN,
         peticion' \in [Peticiones -> Pendientes \cup {Nadie}], solapadas' \subseteq Bodegas,
         stock' \in [Bodegas -> 0..MaxStock], relaciones' \in [Bodegas -> Seq(Filas)],
         \A b \in Bodegas : Len(relaciones'[b]) <= MaxFilas,
         RelacionDiceStock', Despejada', ComprasBien'
  PROVE  Inv'
BY DEF Inv, TypeOK

\* Nothing in the rows changes.
LEMMA FilasQuietas ==
  ASSUME Inv, UNCHANGED <<stock, relaciones>>
  PROVE  /\ stock' \in [Bodegas -> 0..MaxStock] /\ relaciones' \in [Bodegas -> Seq(Filas)]
         /\ \A b \in Bodegas : Len(relaciones'[b]) <= MaxFilas
         /\ RelacionDiceStock'
BY DEF Inv, TypeOK, RelacionDiceStock, Activas

\* Bodegas closed to bs are of bs.
LEMMA CerradasSon ==
  ASSUME NEW bs \in SUBSET Bodegas
  PROVE  Cerradas(bs) \in SUBSET Bodegas
BY DEF Cerradas

\* A transfer, an assignment, the reading of a row: they start.
LEMMA PasoPedirFilas ==
  ASSUME Inv, NEW t \in Peticiones, NEW r \in Pendientes, r.que \in DeFilas \ {"COMPRA"},
         NEW bs \in SUBSET Bodegas, r.bodega \in bs, r.que = "TRANSFIERE" => r.destino \in bs,
         Empieza(t, r, Cerradas(bs)), UNCHANGED <<bodega, producto, stock, relaciones, compra, aparte>>
  PROVE  Inv'
<1>1. Cerradas(bs) \in SUBSET Bodegas
  BY CerradasSon
<1>2. r.que \notin {"BAJA_BODEGA", "BAJA_PRODUCTO", "COMPRA", "ANULA"}
  BY DEF DeFilas
<1>3. Despejada'
  BY <1>1, <1>2, EmpiezaDespejada DEF Inv
<1>4. ComprasBien'
  BY <1>1, <1>2, OtraEmpieza DEF Inv
<1> QED BY <1>1, <1>3, <1>4, EmpiezaBien, FilasQuietas, PasoAjeno DEF Inv, TypeOK

\* A transfer begins with its two bodegas.
LEMMA PasoPedirTransferencia ==
  ASSUME Inv, NEW t \in Peticiones, NEW b \in Bodegas, NEW d \in Bodegas, PedirTransferencia(t, b, d)
  PROVE  Inv'
<1> DEFINE r == [que |-> "TRANSFIERE", bodega |-> b, destino |-> d]
<1>1. r \in Pendientes /\ r.que = "TRANSFIERE" /\ r.bodega = b /\ r.destino = d
  BY DEF Pendientes
<1>2. /\ Empieza(t, r, Cerradas({b, d})) /\ UNCHANGED <<bodega, producto, stock, relaciones, compra, aparte>>
  BY DEF PedirTransferencia
<1> HIDE DEF r
<1> QED BY <1>1, <1>2, PasoPedirFilas DEF DeFilas

\* An assignment by hand begins with its bodega.
LEMMA PasoPedirAsignacion ==
  ASSUME Inv, NEW t \in Peticiones, NEW b \in Bodegas, PedirAsignacion(t, b)
  PROVE  Inv'
<1> DEFINE r == [que |-> "ASIGNA", bodega |-> b]
<1>1. r \in Pendientes /\ r.que = "ASIGNA" /\ r.bodega = b
  BY DEF Pendientes
<1>2. Empieza(t, r, Cerradas({b})) /\ UNCHANGED <<bodega, producto, stock, relaciones, compra, aparte>>
  BY DEF PedirAsignacion
<1> HIDE DEF r
<1> QED BY <1>1, <1>2, PasoPedirFilas DEF DeFilas

\* A quantity set by hand begins with the row it found.
LEMMA PasoLeerRelacion ==
  ASSUME Inv, NEW t \in Peticiones, NEW b \in Bodegas, LeerRelacion(t, b)
  PROVE  Inv'
<1>1. PICK i \in (IF Activas(b) = {} THEN {0} ELSE Activas(b)) :
        Empieza(t, [que |-> "FIJA", bodega |-> b, fila |-> i], Cerradas({b}))
  BY DEF LeerRelacion
<1>2. i \in 0..MaxFilas
  <2>1. relaciones[b] \in Seq(Filas) /\ Len(relaciones[b]) <= MaxFilas
    BY DEF Inv, TypeOK
  <2> QED BY <2>1, ComprasSupuestos DEF Activas
<1> DEFINE r == [que |-> "FIJA", bodega |-> b, fila |-> i]
<1>3. r \in Pendientes /\ r.que = "FIJA" /\ r.bodega = b
  BY <1>2 DEF Pendientes
<1>4. Empieza(t, r, Cerradas({b})) /\ UNCHANGED <<bodega, producto, stock, relaciones, compra, aparte>>
  BY <1>1 DEF LeerRelacion
<1> HIDE DEF r
<1> QED BY <1>3, <1>4, PasoPedirFilas DEF DeFilas

\* A request that has nothing of the purchases ends, having written where it said.
LEMMA PasoTermina ==
  ASSUME Inv, NEW t \in Peticiones, Termina(t), peticion[t] # Nadie,
         peticion[t].que \notin {"BAJA_BODEGA", "BAJA_PRODUCTO"},
         UNCHANGED <<bodega, producto, compra, solapadas, aparte>>,
         stock' \in [Bodegas -> 0..MaxStock], relaciones' \in [Bodegas -> Seq(Filas)],
         \A b \in Bodegas : Len(relaciones'[b]) <= MaxFilas,
         RelacionDiceStock',
         \A b \in Bodegas : t \in Sobre(b) \/ (stock'[b] = stock[b] /\ relaciones'[b] = relaciones[b])
  PROVE  Inv'
<1>1. \A b \in Bodegas \ solapadas' :
        ~Cerrada(b) \/ (stock'[b] = stock[b] /\ relaciones'[b] = relaciones[b])
  BY SobreAbierta DEF Inv
<1>2. Despejada'
  BY <1>1, TerminaDespejada DEF Inv
<1>3. ComprasBien'
  BY AcabaSinMas DEF Inv
<1> QED BY <1>2, <1>3, TerminaBien, PasoAjeno DEF Inv, TypeOK

\* A request on its bodega.
LEMMA EsSobre ==
  ASSUME TypeOK, NEW q \in DeFilas, NEW t \in EnCurso(q)
  PROVE  /\ t \in Peticiones /\ peticion[t] # Nadie /\ peticion[t].que = q
         /\ peticion[t] \in Pendientes /\ peticion[t].bodega \in Bodegas
         /\ t \in Sobre(peticion[t].bodega)
         /\ q = "TRANSFIERE" => peticion[t].destino \in Bodegas /\ t \in Sobre(peticion[t].destino)
<1>1. t \in Peticiones /\ peticion[t] # Nadie /\ peticion[t].que = q /\ peticion[t] \in Pendientes
  BY DEF EnCurso, TypeOK
<1>2. peticion[t].bodega \in Bodegas /\ (q = "TRANSFIERE" => peticion[t].destino \in Bodegas)
  BY <1>1 DEF Pendientes, DeFilas
<1> QED BY <1>1, <1>2, SobreEs

\* A transfer moves a unit and writes the rows of both bodegas.
LEMMA PasoTransferir ==
  ASSUME Inv, NEW t \in Peticiones, Transferir(t)
  PROVE  Inv'
<1> DEFINE b == peticion[t].bodega
           d == peticion[t].destino
           nuevo == [stock EXCEPT ![b] = stock[b] - 1, ![d] = stock[d] + 1]
<1>1. /\ t \in EnCurso("TRANSFIERE") /\ stock[b] > 0 /\ Mueve(nuevo, {b, d}) /\ Termina(t)
      /\ UNCHANGED <<bodega, producto, compra, solapadas, aparte>>
  BY DEF Transferir
<1>2. /\ b \in Bodegas /\ d \in Bodegas /\ t \in Sobre(b) /\ t \in Sobre(d)
      /\ peticion[t] # Nadie /\ peticion[t].que = "TRANSFIERE"
  BY <1>1, EsSobre DEF DeFilas, Inv
<1> HIDE DEF b, d
<1>3. nuevo \in [Bodegas -> Nat] /\ \A x \in Bodegas \ {b, d} : nuevo[x] = stock[x]
  BY <1>1, <1>2, ComprasSupuestos DEF Inv, TypeOK
<1> HIDE DEF nuevo
<1>4. /\ stock' \in [Bodegas -> 0..MaxStock]
      /\ relaciones' \in [Bodegas -> Seq(Filas)] /\ \A x \in Bodegas : Len(relaciones'[x]) <= MaxFilas
      /\ RelacionDiceStock'
      /\ \A x \in Bodegas \ {b, d} : stock'[x] = stock[x] /\ relaciones'[x] = relaciones[x]
  BY <1>1, <1>2, <1>3, MueveBien DEF Inv
<1> QED BY <1>1, <1>2, <1>4, PasoTermina

\* An assignment by hand writes a row of its bodega.
LEMMA PasoAsignar ==
  ASSUME Inv, NEW t \in Peticiones, NEW n \in 0..MaxStock, Asignar(t, n)
  PROVE  Inv'
<1> DEFINE b == peticion[t].bodega
<1>1. /\ t \in EnCurso("ASIGNA") /\ CrearFila(b, n) /\ Termina(t)
      /\ UNCHANGED <<bodega, producto, stock, compra, solapadas, aparte>>
  BY DEF Asignar
<1>2. b \in Bodegas /\ t \in Sobre(b) /\ peticion[t] # Nadie /\ peticion[t].que = "ASIGNA"
  BY <1>1, EsSobre DEF DeFilas, Inv
<1> HIDE DEF b
<1>3. /\ relaciones' \in [Bodegas -> Seq(Filas)] /\ \A x \in Bodegas : Len(relaciones'[x]) <= MaxFilas
      /\ RelacionDiceStock' /\ \A x \in Bodegas \ {b} : relaciones'[x] = relaciones[x]
  BY <1>1, <1>2, CrearFilaBien DEF Inv
<1> QED BY <1>1, <1>2, <1>3, PasoTermina DEF Inv, TypeOK

\* A quantity set by hand overwrites the row that was read.
LEMMA PasoFijarCantidad ==
  ASSUME Inv, NEW t \in Peticiones, NEW n \in 0..MaxStock, FijarCantidad(t, n)
  PROVE  Inv'
<1> DEFINE b == peticion[t].bodega
           i == peticion[t].fila
<1>1. /\ t \in EnCurso("FIJA") /\ Termina(t)
      /\ UNCHANGED <<bodega, producto, stock, compra, solapadas, aparte>>
      /\ \/ i = 0 /\ CrearFila(b, n)
         \/ i # 0 /\ relaciones' = [relaciones EXCEPT ![b][i].cantidad = n, ![b][i].aMano = TRUE]
  BY DEF FijarCantidad
<1>2. b \in Bodegas /\ t \in Sobre(b) /\ peticion[t] # Nadie /\ peticion[t].que = "FIJA"
  BY <1>1, EsSobre DEF DeFilas, Inv
<1> HIDE DEF b, i
<1>3. /\ relaciones' \in [Bodegas -> Seq(Filas)] /\ \A x \in Bodegas : Len(relaciones'[x]) <= MaxFilas
      /\ RelacionDiceStock' /\ \A x \in Bodegas \ {b} : relaciones'[x] = relaciones[x]
  <2>1. CASE i = 0 /\ CrearFila(b, n)
    BY <1>1, <1>2, <2>1, CrearFilaBien DEF Inv
  <2>2. CASE relaciones' = [relaciones EXCEPT ![b][i].cantidad = n, ![b][i].aMano = TRUE]
    <3> DEFINE s == relaciones[b]
               z == relaciones'[b]
    <3>1. s \in Seq(Filas) /\ Len(s) <= MaxFilas
      BY <1>2 DEF Inv, TypeOK
    <3>2. z = [s EXCEPT ![i] = [[@ EXCEPT !.cantidad = n] EXCEPT !.aMano = TRUE]]
      BY <1>2, <2>2 DEF Inv, TypeOK
    <3>3. relaciones' = [relaciones EXCEPT ![b] = z]
      BY <1>2, <2>2 DEF Inv, TypeOK
    <3> HIDE DEF s, z
    <3>4. DOMAIN z = DOMAIN s /\ \A j \in DOMAIN s :
            \/ z[j] = s[j]
            \/ j = i /\ z[j] = [[s[j] EXCEPT !.cantidad = n] EXCEPT !.aMano = TRUE]
      BY <3>1, <3>2
    <3>5. \A j \in DOMAIN s : s[j] \in Filas
      BY <3>1
    <3>6. \A j \in DOMAIN s : z[j] \in Filas /\ (z[j] = s[j] \/ z[j].aMano)
      BY <3>4, <3>5 DEF Filas
    <3>7. z \in Seq(Filas) /\ Len(z) = Len(s)
      <4> DEFINE f == [[s[i] EXCEPT !.cantidad = n] EXCEPT !.aMano = TRUE]
      <4>0. z = [s EXCEPT ![i] = f] /\ s = [j \in 1..Len(s) |-> s[j]] /\ Len(s) \in Nat
        BY <3>1, <3>2
      <4> HIDE DEF f
      <4>1. z = [j \in 1..Len(s) |-> z[j]]
        BY <4>0
      <4>2. \A j \in 1..Len(s) : z[j] \in Filas
        BY <3>1, <3>6
      <4> QED BY <4>1, <4>2
    <3>8. \A x \in Bodegas \ {b} : relaciones'[x] = relaciones[x]
      BY <1>2, <3>3 DEF Inv, TypeOK
    <3>9. relaciones' \in [Bodegas -> Seq(Filas)] /\ \A x \in Bodegas : Len(relaciones'[x]) <= MaxFilas
      BY <1>2, <3>1, <3>3, <3>7 DEF Inv, TypeOK
    <3>10. RelacionDiceStock'
      <4> SUFFICES ASSUME NEW x \in Bodegas, NEW j \in DOMAIN relaciones'[x], relaciones'[x][j].activa
                   PROVE  relaciones'[x][j].aMano \/ relaciones'[x][j].cantidad = stock[x]
        BY <1>1 DEF RelacionDiceStock, Activas
      <4>1. relaciones'[x][j].aMano \/ (j \in DOMAIN relaciones[x] /\ relaciones'[x][j] = relaciones[x][j])
        BY <1>2, <3>4, <3>6, <3>8 DEF s, z
      <4> QED BY <4>1 DEF Inv, RelacionDiceStock, Activas
    <3> QED BY <3>8, <3>9, <3>10
  <2> QED BY <1>1, <2>1, <2>2
<1> QED BY <1>1, <1>2, <1>3, PasoTermina DEF Inv, TypeOK

\* Nothing of a request comes to be written.
LEMMA PasoAbandonar ==
  ASSUME Inv, NEW t \in Peticiones, Abandonar(t)
  PROVE  Inv'
<1>1. Termina(t) /\ UNCHANGED <<bodega, producto, stock, relaciones, compra, solapadas, aparte>>
  BY DEF Abandonar
<1>2. ComprasBien'
  BY <1>1, AcabaSinMas DEF Inv
<1>3. Despejada'
  <2>1. /\ EnCurso("BAJA_PRODUCTO")' \subseteq EnCurso("BAJA_PRODUCTO")
        /\ \A b : DeBaja(b)' \subseteq DeBaja(b) /\ Sobre(b)' \subseteq Sobre(b)
    BY <1>1, TerminaQuita DEF Inv
  <2>2. \A b : Activas(b)' = Activas(b)
    BY <1>1 DEF Activas
  <2> QED BY <1>1, <2>1, <2>2 DEF Inv, Despejada, Cerrada
<1> QED BY <1>1, <1>2, <1>3, TerminaBien, FilasQuietas, PasoAjeno DEF Inv, TypeOK

\* Requests to delete a bodega, or the product: they tell where they cross somebody.
LEMMA PasoPedirBajaBodega ==
  ASSUME Inv, NEW t \in Peticiones, NEW b \in Bodegas, PedirBajaBodega(t, b)
  PROVE  Inv'
<1> DEFINE r == [que |-> "BAJA_BODEGA", bodega |-> b]
           bs == {d \in {b} : Sobre(d) # {}}
<1>1. r \in Pendientes /\ r.que = "BAJA_BODEGA" /\ r.bodega = b
  BY DEF Pendientes
<1>2. /\ Empieza(t, r, bs) /\ UNCHANGED <<bodega, producto, stock, relaciones, compra, aparte>>
      /\ bodega[b] = "ACTIVA" /\ Activas(b) = {} /\ stock[b] = 0
  BY DEF PedirBajaBodega, SinUso
<1>3. bs \in SUBSET Bodegas /\ (b \in bs <=> Sobre(b) # {})
  OBVIOUS
<1> HIDE DEF r, bs
<1>4. /\ peticion' \in [Peticiones -> Pendientes \cup {Nadie}]
      /\ solapadas' \subseteq Bodegas /\ solapadas' = solapadas \cup bs
      /\ peticion[t] = Nadie /\ peticion'[t] = r /\ r # Nadie
      /\ \A u \in Peticiones \ {t} : peticion'[u] = peticion[u]
  BY <1>1, <1>2, <1>3, EmpiezaBien DEF Inv
<1>5. ComprasBien'
  BY <1>1, <1>2, <1>3, OtraEmpieza DEF Inv
<1>6. Despejada'
  <2>1. EnCurso("BAJA_PRODUCTO")' = EnCurso("BAJA_PRODUCTO")
    BY <1>1, <1>4 DEF EnCurso
  <2>2. \A d \in Bodegas \ {b} : DeBaja(d)' = DeBaja(d)
    BY <1>1, <1>4 DEF DeBaja, EnCurso
  <2>3. ASSUME NEW d PROVE Sobre(d)' = Sobre(d)
    <3>1. ASSUME NEW u PROVE u \in Sobre(d)' <=> u \in Sobre(d)
      BY <1>1, <1>4, SobreEs DEF DeFilas
    <3> QED BY <3>1
  <2>4. \A d : Activas(d)' = Activas(d)
    BY <1>2 DEF Activas
  <2> SUFFICES ASSUME NEW d \in Bodegas \ solapadas'
               PROVE  /\ Cerrada(d)' => Sobre(d) = {} /\ stock[d] = 0
                      /\ bodega[d] = "BAJA" \/ DeBaja(d)' # {} \/ ~producto => Activas(d) = {}
    BY <1>2, <2>3, <2>4 DEF Despejada
  <2>5. CASE d = b
    BY <1>2, <1>3, <1>4, <2>5
  <2>6. CASE d # b
    BY <1>2, <1>4, <2>1, <2>2, <2>6 DEF Inv, Despejada, Cerrada
  <2> QED BY <2>5, <2>6
<1> QED BY <1>2, <1>4, <1>5, <1>6, FilasQuietas, PasoAjeno DEF Inv, TypeOK

\* The deletion of the product begins, over the bodegas somebody works on.
LEMMA PasoPedirBajaProducto ==
  ASSUME Inv, NEW t \in Peticiones, PedirBajaProducto(t)
  PROVE  Inv'
<1> DEFINE r == [que |-> "BAJA_PRODUCTO"]
           bs == {b \in Bodegas : Sobre(b) # {}}
<1>1. r \in Pendientes /\ r.que = "BAJA_PRODUCTO"
  BY DEF Pendientes
<1>2. /\ Empieza(t, r, bs) /\ UNCHANGED <<bodega, producto, stock, relaciones, compra, aparte>>
      /\ producto /\ \A b \in Bodegas : stock[b] = 0
  BY DEF PedirBajaProducto
<1>3. bs \in SUBSET Bodegas /\ \A b \in Bodegas : b \in bs <=> Sobre(b) # {}
  OBVIOUS
<1> HIDE DEF r, bs
<1>4. /\ peticion' \in [Peticiones -> Pendientes \cup {Nadie}]
      /\ solapadas' \subseteq Bodegas /\ solapadas' = solapadas \cup bs
      /\ peticion[t] = Nadie /\ peticion'[t] = r /\ r # Nadie
      /\ \A u \in Peticiones \ {t} : peticion'[u] = peticion[u]
  BY <1>1, <1>2, <1>3, EmpiezaBien DEF Inv
<1>5. ComprasBien'
  BY <1>1, <1>2, <1>3, OtraEmpieza DEF Inv
<1>6. Despejada'
  <2>1. \A b : DeBaja(b)' = DeBaja(b)
    BY <1>1, <1>4 DEF DeBaja, EnCurso
  <2>2. ASSUME NEW b PROVE Sobre(b)' = Sobre(b)
    <3>1. ASSUME NEW u PROVE u \in Sobre(b)' <=> u \in Sobre(b)
      BY <1>1, <1>4, SobreEs DEF DeFilas
    <3> QED BY <3>1
  <2>3. \A b : Activas(b)' = Activas(b)
    BY <1>2 DEF Activas
  <2> QED BY <1>2, <1>3, <1>4, <2>1, <2>2, <2>3 DEF Inv, Despejada
<1> QED BY <1>2, <1>4, <1>5, <1>6, FilasQuietas, PasoAjeno DEF Inv, TypeOK

\* A bodega is deleted: its deletion was in flight.
LEMMA PasoDarDeBajaBodega ==
  ASSUME Inv, NEW t \in Peticiones, DarDeBajaBodega(t)
  PROVE  Inv'
<1> DEFINE b == peticion[t].bodega
<1>1. /\ t \in EnCurso("BAJA_BODEGA") /\ bodega' = [bodega EXCEPT ![b] = "BAJA"] /\ Termina(t)
      /\ UNCHANGED <<producto, stock, relaciones, compra, solapadas, aparte>>
  BY DEF DarDeBajaBodega
<1>2. t \in DeBaja(b)
  BY <1>1 DEF DeBaja
<1> HIDE DEF b
<1>3. bodega' \in [Bodegas -> {"NUEVA", "ACTIVA", "BAJA"}]
  BY <1>1 DEF Inv, TypeOK
<1>4. ComprasBien'
  BY <1>1, AcabaSinMas DEF Inv
<1>5. Despejada'
  <2>1. /\ EnCurso("BAJA_PRODUCTO")' \subseteq EnCurso("BAJA_PRODUCTO")
        /\ \A d : DeBaja(d)' \subseteq DeBaja(d) /\ Sobre(d)' \subseteq Sobre(d)
    BY <1>1, TerminaQuita DEF Inv
  <2>2. \A d : Activas(d)' = Activas(d)
    BY <1>1 DEF Activas
  <2>3. \A d \in Bodegas : bodega'[d] = "BAJA" => bodega[d] = "BAJA" \/ DeBaja(d) # {}
    BY <1>1, <1>2 DEF Inv, TypeOK
  <2> QED BY <1>1, <2>1, <2>2, <2>3 DEF Inv, Despejada, Cerrada
<1> QED BY <1>1, <1>3, <1>4, <1>5, TerminaBien, FilasQuietas, PasoAjeno DEF Inv, TypeOK

\* The product is deleted, and its rows with it: its deletion was in flight.
LEMMA PasoDarDeBajaProducto ==
  ASSUME Inv, NEW t \in Peticiones, DarDeBajaProducto(t)
  PROVE  Inv'
<1>1. /\ t \in EnCurso("BAJA_PRODUCTO") /\ producto' = FALSE /\ Termina(t)
      /\ UNCHANGED <<bodega, stock, compra, solapadas, aparte>>
      /\ relaciones' = [b \in Bodegas |-> [i \in DOMAIN relaciones[b] |->
                          [relaciones[b][i] EXCEPT !.activa = FALSE]]]
  BY DEF DarDeBajaProducto
<1>2. ASSUME NEW b \in Bodegas
      PROVE  /\ relaciones'[b] \in Seq(Filas) /\ Len(relaciones'[b]) <= MaxFilas
             /\ \A i \in DOMAIN relaciones'[b] : ~relaciones'[b][i].activa
  <2> DEFINE s == relaciones[b]
             z == [i \in DOMAIN s |-> [s[i] EXCEPT !.activa = FALSE]]
  <2>1. s \in Seq(Filas) /\ Len(s) <= MaxFilas /\ \A i \in DOMAIN s : s[i] \in Filas
    BY DEF Inv, TypeOK
  <2>2. \A i \in DOMAIN s : [s[i] EXCEPT !.activa = FALSE] \in Filas /\ ~[s[i] EXCEPT !.activa = FALSE].activa
    BY <2>1 DEF Filas
  <2>3. relaciones'[b] = z
    BY <1>1
  <2> HIDE DEF s
  <2>4. z \in Seq(Filas) /\ Len(z) = Len(s)
    BY <2>1, <2>2
  <2> QED BY <2>1, <2>2, <2>3, <2>4
<1>3. \A b \in Bodegas : Activas(b)' = {}
  BY <1>2 DEF Activas
<1>4. RelacionDiceStock'
  BY <1>3 DEF RelacionDiceStock
<1>5. relaciones' \in [Bodegas -> Seq(Filas)] /\ \A b \in Bodegas : Len(relaciones'[b]) <= MaxFilas
  BY <1>1, <1>2
<1>6. ComprasBien'
  BY <1>1, AcabaSinMas DEF Inv
<1>7. Despejada'
  <2>1. \A b : Sobre(b)' \subseteq Sobre(b)
    BY <1>1, TerminaQuita DEF Inv
  <2>2. \A b : Cerrada(b)
    BY <1>1 DEF Cerrada
  <2> QED BY <1>1, <1>3, <2>1, <2>2 DEF Inv, Despejada
<1> QED BY <1>1, <1>4, <1>5, <1>6, <1>7, TerminaBien, PasoAjeno DEF Inv, TypeOK

\* A bodega is created, with what nobody has closed.
LEMMA PasoCrearBodega ==
  ASSUME Inv, NEW b \in Bodegas, CrearBodega(b)
  PROVE  Inv'
<1>1. /\ bodega' = [bodega EXCEPT ![b] = "ACTIVA"]
      /\ UNCHANGED <<producto, stock, relaciones, compra, peticion, solapadas, aparte>>
  BY DEF CrearBodega
<1>2. bodega' \in [Bodegas -> {"NUEVA", "ACTIVA", "BAJA"}] /\ \A d \in Bodegas : bodega'[d] = "BAJA" => bodega[d] = "BAJA"
  BY <1>1 DEF Inv, TypeOK
<1>3. /\ \A q : EnCurso(q)' = EnCurso(q)
      /\ \A d : DeBaja(d)' = DeBaja(d) /\ Sobre(d)' = Sobre(d) /\ Activas(d)' = Activas(d)
      /\ \A c : Anulando(c)' = Anulando(c)
  BY <1>1 DEF EnCurso, DeBaja, Sobre, Activas, Anulando
<1>4. ComprasBien'
  BY <1>1, <1>3 DEF Inv, ComprasBien, PeticionesBien, AnulacionesContadas, AnulacionSola, CompraUnaVez
<1>5. Despejada'
  BY <1>1, <1>2, <1>3 DEF Inv, Despejada, Cerrada
<1> QED BY <1>1, <1>2, <1>4, <1>5, FilasQuietas, PasoAjeno DEF Inv, TypeOK

-----------------------------------------------------------------------------
(* The steps of the purchases *)

\* A purchase that is there has its shape.
LEMMA CompraEs ==
  ASSUME TypeOK, NEW c \in ComprasPosibles, compra[c] # Nadie
  PROVE  /\ compra[c] \in Compras_ /\ compra[c].bodega \in Bodegas
         /\ compra[c].salidas \in Int /\ compra[c].devueltas \in Int
BY AnulandoFinito DEF TypeOK, Compras_

\* One purchase, and no other, is written.
LEMMA CompraEscrita ==
  ASSUME TypeOK, NEW c \in ComprasPosibles, NEW x \in Compras_, compra' = [compra EXCEPT ![c] = x]
  PROVE  /\ compra' \in [ComprasPosibles -> Compras_ \cup {Nadie}]
         /\ compra'[c] = x /\ x # Nadie
         /\ \A d \in ComprasPosibles \ {c} : compra'[d] = compra[d]
BY ComprasSupuestos DEF TypeOK

\* The request to register a purchase that nobody has, nor is registering.
LEMMA PasoPedirCompra ==
  ASSUME Inv, NEW t \in Peticiones, NEW c \in ComprasPosibles, NEW b \in Bodegas, PedirCompra(t, c, b)
  PROVE  Inv'
<1> DEFINE r == [que |-> "COMPRA", compra |-> c, bodega |-> b]
<1>1. r \in Pendientes /\ r.que = "COMPRA" /\ r.compra = c /\ r.bodega = b
  BY DEF Pendientes
<1>2. /\ Empieza(t, r, Cerradas({b})) /\ UNCHANGED <<bodega, producto, stock, relaciones, compra, aparte>>
      /\ compra[c] = Nadie /\ \A u \in EnCurso("COMPRA") : peticion[u].compra # c
  BY DEF PedirCompra
<1>3. Cerradas({b}) \in SUBSET Bodegas
  BY CerradasSon
<1> HIDE DEF r
<1>4. /\ peticion' \in [Peticiones -> Pendientes \cup {Nadie}] /\ solapadas' \subseteq Bodegas
      /\ peticion[t] = Nadie /\ peticion'[t] = r /\ r # Nadie
      /\ \A u \in Peticiones \ {t} : peticion'[u] = peticion[u]
  BY <1>1, <1>2, <1>3, EmpiezaBien DEF Inv
<1>5. Despejada'
  BY <1>1, <1>2, <1>3, EmpiezaDespejada DEF Inv, DeFilas
<1>6. ComprasBien'
  <2>1. /\ EnCurso("ANULA")' = EnCurso("ANULA") /\ \A u \in EnCurso("ANULA") : peticion'[u] = peticion[u]
        /\ EnCurso("COMPRA")' = EnCurso("COMPRA") \cup {t}
        /\ \A u \in EnCurso("COMPRA") : peticion'[u] = peticion[u]
    BY <1>1, <1>4 DEF EnCurso
  <2>2. \A d : Anulando(d)' = Anulando(d)
    BY <2>1 DEF Anulando
  <2>3. PeticionesBien'
    BY <1>1, <1>2, <1>4, <2>1 DEF Inv, ComprasBien, PeticionesBien
  <2> QED BY <1>2, <2>2, <2>3 DEF Inv, ComprasBien, AnulacionesContadas, AnulacionSola, CompraUnaVez
<1> QED BY <1>2, <1>4, <1>5, <1>6, FilasQuietas, PasoAjeno DEF Inv, TypeOK

\* The purchase is registered: it had not been, and none of its annulments is in flight.
LEMMA PasoRegistrarCompra ==
  ASSUME Inv, NEW t \in Peticiones, RegistrarCompra(t)
  PROVE  Inv'
<1>1. t \in EnCurso("COMPRA")
  BY DEF RegistrarCompra
<1>2. /\ peticion[t] # Nadie /\ peticion[t].que = "COMPRA" /\ peticion[t].bodega \in Bodegas
      /\ t \in Sobre(peticion[t].bodega) /\ peticion[t] \in Pendientes
  BY <1>1, EsSobre DEF Inv, DeFilas
<1>3. PICK b \in Bodegas, c \in ComprasPosibles : b = peticion[t].bodega /\ c = peticion[t].compra
  BY <1>2 DEF Pendientes
<1> DEFINE x == [bodega |-> b, estado |-> "REGISTRADA", ingreso |-> "CONFIRMADO",
                 salidas |-> 0, devueltas |-> 0]
<1>0. /\ Entra(b) /\ compra' = [compra EXCEPT ![c] = x] /\ Termina(t)
      /\ UNCHANGED <<bodega, producto, solapadas, aparte>>
  BY <1>3 DEF RegistrarCompra
<1>4. x \in Compras_ /\ x.estado = "REGISTRADA" /\ x.ingreso = "CONFIRMADO" /\ x.salidas = 0 /\ x.devueltas = 0
  BY <1>2, AnulandoFinito DEF Compras_
<1>5. compra[c] = Nadie /\ \A u \in EnCurso("COMPRA") : peticion[u].compra = c => u = t
  BY <1>1, <1>3 DEF Inv, ComprasBien, PeticionesBien
<1> HIDE DEF x
<1>6. /\ compra' \in [ComprasPosibles -> Compras_ \cup {Nadie}]
      /\ compra'[c] = x /\ x # Nadie /\ \A d \in ComprasPosibles \ {c} : compra'[d] = compra[d]
  BY <1>0, <1>4, CompraEscrita DEF Inv
<1>7. /\ stock' \in [Bodegas -> 0..MaxStock]
      /\ relaciones' \in [Bodegas -> Seq(Filas)] /\ \A d \in Bodegas : Len(relaciones'[d]) <= MaxFilas
      /\ RelacionDiceStock'
      /\ \A d \in Bodegas \ {b} : stock'[d] = stock[d] /\ relaciones'[d] = relaciones[d]
  BY <1>0, EntraSaleBien DEF Inv
<1>8. Despejada'
  <2>1. \A d \in Bodegas \ solapadas' :
          ~Cerrada(d) \/ (stock'[d] = stock[d] /\ relaciones'[d] = relaciones[d])
    BY <1>0, <1>2, <1>3, <1>7, SobreAbierta DEF Inv
  <2> QED BY <1>0, <1>2, <2>1, TerminaDespejada DEF Inv
<1>9. /\ EnCurso("COMPRA")' = EnCurso("COMPRA") \ {t} /\ EnCurso("ANULA")' = EnCurso("ANULA")
      /\ \A u \in Peticiones \ {t} : peticion'[u] = peticion[u]
      /\ t \notin EnCurso("ANULA")
  BY <1>0, <1>2, TerminaQuita, TerminaBien DEF Inv, EnCurso
<1>10. \A u \in EnCurso("ANULA") : u \in Peticiones /\ peticion'[u] = peticion[u] /\ peticion[u].compra # c
  BY <1>5, <1>9 DEF Inv, ComprasBien, PeticionesBien, EnCurso
<1>11. Anulando(c)' = {} /\ \A d : Anulando(d)' = Anulando(d)
  <2>1. \A u \in EnCurso("ANULA")' : peticion'[u] = peticion[u] /\ peticion'[u].compra # c
    BY <1>9, <1>10
  <2>2. Anulando(c)' = {}
    BY <2>1 DEF Anulando
  <2>3. \A d : Anulando(d)' = Anulando(d)
    BY <1>9, <2>1 DEF Anulando
  <2> QED BY <2>2, <2>3
<1>12. PeticionesBien'
  <2>1. \A u \in EnCurso("ANULA") : peticion[u].compra \in ComprasPosibles
    <3> TAKE u \in EnCurso("ANULA")
    <3>1. peticion[u] \in Pendientes /\ peticion[u].que = "ANULA"
      BY DEF Inv, TypeOK, EnCurso
    <3> QED BY <3>1 DEF Pendientes
  <2>2. \A u \in EnCurso("COMPRA") : u \in Peticiones /\ peticion[u].compra \in ComprasPosibles
    <3> TAKE u \in EnCurso("COMPRA")
    <3>1. u \in Peticiones /\ peticion[u] \in Pendientes /\ peticion[u].que = "COMPRA"
      BY DEF Inv, TypeOK, EnCurso
    <3> QED BY <3>1 DEF Pendientes
  <2>3. ASSUME NEW u \in EnCurso("COMPRA")'
        PROVE  /\ compra'[peticion'[u].compra] = Nadie
               /\ \A y \in EnCurso("COMPRA")' : peticion'[y].compra = peticion'[u].compra => y = u
    <3>1. u \in EnCurso("COMPRA") /\ u # t /\ peticion'[u] = peticion[u] /\ peticion[u].compra # c
      BY <1>5, <1>9, <2>2
    <3>2. compra'[peticion[u].compra] = Nadie
      BY <1>6, <2>2, <3>1 DEF Inv, ComprasBien, PeticionesBien
    <3> QED BY <1>9, <2>2, <3>1, <3>2 DEF Inv, ComprasBien, PeticionesBien
  <2>4. ASSUME NEW u \in EnCurso("ANULA")' PROVE compra'[peticion'[u].compra] # Nadie
    BY <1>6, <1>9, <1>10, <2>1 DEF Inv, ComprasBien, PeticionesBien
  <2> QED BY <2>3, <2>4 DEF PeticionesBien
<1>13. AnulacionesContadas'
  <2>1. Cardinality(Anulando(c)') = 0
    BY <1>11, FS_EmptySet
  <2>2. /\ x.estado = "REGISTRADA" => x.salidas = 0 /\ x.devueltas = 0
        /\ x.salidas + x.devueltas + Cardinality(Anulando(c)') <= Cardinality(Peticiones)
    BY <1>4, <2>1, AnulandoFinito
  <2> SUFFICES ASSUME NEW d \in ComprasPosibles, compra'[d] # Nadie
               PROVE  /\ compra'[d].estado = "REGISTRADA" => compra'[d].salidas = 0 /\ compra'[d].devueltas = 0
                      /\ compra'[d].salidas + compra'[d].devueltas + Cardinality(Anulando(d)')
                           <= Cardinality(Peticiones)
    BY DEF AnulacionesContadas
  <2>3. CASE d = c
    BY <1>6, <2>2, <2>3
  <2>4. CASE d # c
    BY <1>6, <1>11, <2>4 DEF Inv, ComprasBien, AnulacionesContadas
  <2> QED BY <2>3, <2>4
<1>14. AnulacionSola'
  BY <1>0, <1>1, <1>6, <1>11 DEF Inv, ComprasBien, AnulacionSola
<1>15. CompraUnaVez'
  BY <1>0, <1>1, <1>4, <1>6 DEF Inv, ComprasBien, CompraUnaVez
<1>16. ComprasBien'
  BY <1>12, <1>13, <1>14, <1>15 DEF ComprasBien
<1> QED BY <1>0, <1>1, <1>6, <1>7, <1>8, <1>16, TerminaBien DEF Inv, TypeOK

\* The request to annul a purchase: one more that found it REGISTRADA.
LEMMA PasoPedirAnulacion ==
  ASSUME Inv, NEW t \in Peticiones, NEW c \in ComprasPosibles, PedirAnulacion(t, c)
  PROVE  Inv'
<1> DEFINE r == [que |-> "ANULA", compra |-> c]
<1>1. r \in Pendientes /\ r.que = "ANULA" /\ r.compra = c
  BY DEF Pendientes
<1>2. /\ Empieza(t, r, {}) /\ UNCHANGED <<bodega, producto, stock, relaciones, compra>>
      /\ compra[c] # Nadie /\ compra[c].estado = "REGISTRADA"
      /\ aparte' = aparte \cup {d \in {c} : Anulando(d) # {}}
  BY DEF PedirAnulacion
<1> HIDE DEF r
<1>4. /\ peticion' \in [Peticiones -> Pendientes \cup {Nadie}] /\ solapadas' = solapadas
      /\ peticion[t] = Nadie /\ peticion'[t] = r /\ r # Nadie
      /\ \A u \in Peticiones \ {t} : peticion'[u] = peticion[u]
  <2>1. {} \in SUBSET Bodegas /\ solapadas \cup {} = solapadas
    OBVIOUS
  <2> QED BY <1>1, <1>2, <2>1, EmpiezaBien DEF Inv
<1>5. Despejada'
  BY <1>1, <1>2, EmpiezaDespejada DEF Inv, DeFilas
<1>6. /\ aparte' \subseteq ComprasPosibles /\ aparte \subseteq aparte'
      /\ Anulando(c) # {} => c \in aparte'
  BY <1>2 DEF Inv, TypeOK
<1>7. /\ EnCurso("ANULA")' = EnCurso("ANULA") \cup {t} /\ \A u \in EnCurso("ANULA") : peticion'[u] = peticion[u]
      /\ EnCurso("COMPRA")' = EnCurso("COMPRA") /\ \A u \in EnCurso("COMPRA") : peticion'[u] = peticion[u]
  BY <1>1, <1>4 DEF EnCurso
<1>8. /\ Anulando(c)' = Anulando(c) \cup {t}
      /\ \A d : d # c => Anulando(d)' = Anulando(d)
  BY <1>1, <1>4, <1>7 DEF Anulando
<1>9. PeticionesBien'
  BY <1>1, <1>2, <1>4, <1>7 DEF Inv, ComprasBien, PeticionesBien
<1>10. AnulacionesContadas'
  <2>1. Anulando(c)' \subseteq Peticiones
    BY <1>8 DEF Anulando, EnCurso
  <2>2. Cardinality(Anulando(c)') <= Cardinality(Peticiones) /\ Cardinality(Anulando(c)') \in Nat
    BY <2>1, ComprasSupuestos, FS_Subset, FS_CardinalityType
  <2>3. compra[c].salidas = 0 /\ compra[c].devueltas = 0
    BY <1>2 DEF Inv, ComprasBien, AnulacionesContadas
  <2> SUFFICES ASSUME NEW d \in ComprasPosibles, compra[d] # Nadie
               PROVE  /\ compra[d].estado = "REGISTRADA" => compra[d].salidas = 0 /\ compra[d].devueltas = 0
                      /\ compra[d].salidas + compra[d].devueltas + Cardinality(Anulando(d)')
                           <= Cardinality(Peticiones)
    BY <1>2 DEF AnulacionesContadas
  <2>4. CASE d = c
    BY <1>2, <2>2, <2>3, <2>4, AnulandoFinito
  <2>5. CASE d # c
    BY <1>8, <2>5 DEF Inv, ComprasBien, AnulacionesContadas
  <2> QED BY <2>4, <2>5
<1>11. AnulacionSola'
  BY <1>2, <1>6, <1>8 DEF Inv, ComprasBien, AnulacionSola
<1>12. CompraUnaVez'
  BY <1>2, <1>6 DEF Inv, ComprasBien, CompraUnaVez
<1>13. ComprasBien'
  BY <1>9, <1>10, <1>11, <1>12 DEF ComprasBien
<1> QED BY <1>2, <1>4, <1>5, <1>6, <1>13, FilasQuietas DEF Inv, TypeOK

\* What is left to show of a step that writes one purchase that was there and moves a unit of
\* the stock of its bodega.
LEMMA PasoDeCompra ==
  ASSUME Inv, NEW c \in ComprasPosibles, NEW x \in Compras_, compra[c] # Nadie,
         compra' = [compra EXCEPT ![c] = x],
         NEW b \in Bodegas, Entra(b) \/ Sale(b),
         UNCHANGED <<bodega, producto>>, peticion' \in [Peticiones -> Pendientes \cup {Nadie}],
         solapadas' = solapadas \cup Cerradas({b}),
         aparte' \subseteq ComprasPosibles, aparte \subseteq aparte',
         EnCurso("COMPRA")' = EnCurso("COMPRA"), EnCurso("ANULA")' \subseteq EnCurso("ANULA"),
         \A u \in EnCurso("COMPRA") \cup EnCurso("ANULA")' : peticion'[u] = peticion[u],
         x.estado = "REGISTRADA" => x.salidas = 0 /\ x.devueltas = 0,
         x.salidas + x.devueltas + Cardinality(Anulando(c)') <= Cardinality(Peticiones),
         c \in aparte' \/ /\ Anulando(c)' = {} /\ x.ingreso = "CONFIRMADO" /\ x.devueltas = 0
                          /\ x.salidas = IF x.estado = "ANULADA" THEN 1 ELSE 0,
         \A d \in ComprasPosibles \ {c} : Anulando(d)' = Anulando(d),
         (\A d \in Bodegas \ solapadas' :
            ~Cerrada(d) \/ (stock'[d] = stock[d] /\ relaciones'[d] = relaciones[d])) => Despejada'
  PROVE  Inv'
<1>1. /\ compra' \in [ComprasPosibles -> Compras_ \cup {Nadie}]
      /\ compra'[c] = x /\ x # Nadie /\ \A d \in ComprasPosibles \ {c} : compra'[d] = compra[d]
  BY CompraEscrita DEF Inv
<1>2. /\ stock' \in [Bodegas -> 0..MaxStock]
      /\ relaciones' \in [Bodegas -> Seq(Filas)] /\ \A d \in Bodegas : Len(relaciones'[d]) <= MaxFilas
      /\ RelacionDiceStock'
      /\ \A d \in Bodegas \ {b} : stock'[d] = stock[d] /\ relaciones'[d] = relaciones[d]
  BY EntraSaleBien DEF Inv
<1>3. Despejada'
  <2>1. b \in Cerradas({b}) \/ ~Cerrada(b)
    BY DEF Cerradas, Cerrada
  <2> QED BY <1>2, <2>1
<1>4. PeticionesBien'
  <2>1. \A u \in EnCurso("ANULA") \cup EnCurso("COMPRA") : peticion[u].compra \in ComprasPosibles
    <3> TAKE u \in EnCurso("ANULA") \cup EnCurso("COMPRA")
    <3>1. peticion[u] \in Pendientes /\ peticion[u].que \in {"ANULA", "COMPRA"}
      BY DEF Inv, TypeOK, EnCurso
    <3> QED BY <3>1 DEF Pendientes
  <2>2. ASSUME NEW u \in EnCurso("COMPRA")'
        PROVE  /\ compra'[peticion'[u].compra] = Nadie
               /\ \A y \in EnCurso("COMPRA")' : peticion'[y].compra = peticion'[u].compra => y = u
    BY <1>1, <2>1 DEF Inv, ComprasBien, PeticionesBien
  <2>3. ASSUME NEW u \in EnCurso("ANULA")' PROVE compra'[peticion'[u].compra] # Nadie
    BY <1>1, <2>1 DEF Inv, ComprasBien, PeticionesBien
  <2> QED BY <2>2, <2>3 DEF PeticionesBien
<1>5. AnulacionesContadas'
  <2> SUFFICES ASSUME NEW d \in ComprasPosibles, compra'[d] # Nadie
               PROVE  /\ compra'[d].estado = "REGISTRADA" => compra'[d].salidas = 0 /\ compra'[d].devueltas = 0
                      /\ compra'[d].salidas + compra'[d].devueltas + Cardinality(Anulando(d)')
                           <= Cardinality(Peticiones)
    BY DEF AnulacionesContadas
  <2>1. CASE d = c
    BY <1>1, <2>1
  <2>2. CASE d # c
    BY <1>1, <2>2 DEF Inv, ComprasBien, AnulacionesContadas
  <2> QED BY <2>1, <2>2
<1>6. AnulacionSola'
  BY <1>1 DEF Inv, ComprasBien, AnulacionSola
<1>7. CompraUnaVez'
  BY <1>1 DEF Inv, ComprasBien, CompraUnaVez
<1>8. ComprasBien'
  BY <1>4, <1>5, <1>6, <1>7 DEF ComprasBien
<1> QED BY <1>1, <1>2, <1>3, <1>8 DEF Inv, TypeOK, Cerradas

\* The purchase is annulled: alone, it was REGISTRADA; crossed with another, it is told apart.
LEMMA PasoAnularCompra ==
  ASSUME Inv, NEW t \in Peticiones, AnularCompra(t)
  PROVE  Inv'
<1>1. t \in EnCurso("ANULA") /\ peticion[t] # Nadie /\ peticion[t].que = "ANULA" /\ peticion[t] \in Pendientes
  BY DEF AnularCompra, EnCurso, Inv, TypeOK
<1>2. PICK c \in ComprasPosibles : c = peticion[t].compra
  BY <1>1 DEF Pendientes
<1>3. compra[c] # Nadie
  BY <1>1, <1>2 DEF Inv, ComprasBien, PeticionesBien
<1>4. PICK b \in Bodegas : b = compra[c].bodega
  BY <1>3, CompraEs DEF Inv
<1>5. PICK n \in Nat : n = compra[c].salidas
  BY <1>3, AnulandoFinito DEF Inv, TypeOK, Compras_
<1> DEFINE x == [compra[c] EXCEPT !.estado = "ANULADA", !.salidas = n + 1]
<1>6. /\ Sale(b) /\ Termina(t) /\ solapadas' = solapadas \cup Cerradas({b})
      /\ UNCHANGED <<bodega, producto, aparte>>
      /\ compra' = [compra EXCEPT ![c].estado = "ANULADA", ![c].salidas = @ + 1]
  BY <1>2, <1>4 DEF AnularCompra
<1>7. compra' = [compra EXCEPT ![c] = x]
  BY <1>3, <1>5, <1>6 DEF Inv, TypeOK
<1>8. t \in Anulando(c)
  BY <1>1, <1>2 DEF Anulando
<1>9. /\ \A q : EnCurso(q)' = EnCurso(q) \ {t}
      /\ \A u \in Peticiones \ {t} : peticion'[u] = peticion[u]
      /\ peticion' \in [Peticiones -> Pendientes \cup {Nadie}]
  BY <1>6, TerminaQuita, TerminaBien DEF Inv
<1>10. \A d : Anulando(d)' = Anulando(d) \ {t}
  BY <1>9 DEF Anulando, EnCurso
<1>11. \A d \in ComprasPosibles \ {c} : Anulando(d)' = Anulando(d)
  BY <1>2, <1>10 DEF Anulando
<1>12. Cardinality(Anulando(c)') = Cardinality(Anulando(c)) - 1 /\ Cardinality(Anulando(c)) >= 1
  BY <1>8, <1>10, AnulandoFinito, FS_RemoveElement, FS_EmptySet
<1>13. n + compra[c].devueltas + Cardinality(Anulando(c)) <= Cardinality(Peticiones)
  BY <1>3, <1>5 DEF Inv, ComprasBien, AnulacionesContadas
<1>14. compra[c] \in Compras_ /\ compra[c].devueltas \in Nat
  BY <1>3, CompraEs, AnulandoFinito DEF Inv, Compras_
<1>15. n + 1 \in 0..Cardinality(Peticiones)
  BY <1>12, <1>13, <1>14, AnulandoFinito
<1>16. /\ x \in Compras_ /\ x.estado = "ANULADA" /\ x.salidas = n + 1
       /\ x.devueltas = compra[c].devueltas /\ x.ingreso = compra[c].ingreso
  BY <1>14, <1>15 DEF Compras_
<1> HIDE DEF x
<1>17. x.salidas + x.devueltas + Cardinality(Anulando(c)') <= Cardinality(Peticiones)
  BY <1>12, <1>13, <1>14, <1>16, AnulandoFinito
<1>18. c \in aparte' \/ /\ Anulando(c)' = {} /\ x.ingreso = "CONFIRMADO" /\ x.devueltas = 0
                        /\ x.salidas = 1
  <2> SUFFICES ASSUME c \notin aparte PROVE Anulando(c)' = {} /\ x.ingreso = "CONFIRMADO" /\ x.devueltas = 0 /\ x.salidas = 1
    BY <1>6
  <2>1. compra[c].estado = "REGISTRADA" /\ Anulando(c) = {t}
    BY <1>8 DEF Inv, ComprasBien, AnulacionSola
  <2> QED BY <1>3, <1>5, <1>10, <1>16, <2>1 DEF Inv, ComprasBien, CompraUnaVez
<1>19. ASSUME \A d \in Bodegas \ solapadas' :
                ~Cerrada(d) \/ (stock'[d] = stock[d] /\ relaciones'[d] = relaciones[d])
       PROVE  Despejada'
  BY <1>1, <1>6, <1>19, TerminaDespejada DEF Inv
<1>20. /\ EnCurso("COMPRA")' = EnCurso("COMPRA") /\ EnCurso("ANULA")' \subseteq EnCurso("ANULA")
       /\ \A u \in EnCurso("COMPRA") \cup EnCurso("ANULA")' : peticion'[u] = peticion[u]
  BY <1>1, <1>9 DEF EnCurso
<1>21. aparte' \subseteq ComprasPosibles /\ aparte \subseteq aparte'
  BY <1>6 DEF Inv, TypeOK
<1>22. Entra(b) \/ Sale(b)
  BY <1>6
<1> QED BY <1>3, <1>6, <1>7, <1>9, <1>11, <1>16, <1>17, <1>18, <1>19, <1>20, <1>21, <1>22, PasoDeCompra

\* With no request at work, all that is in flight stays.
LEMMA EnCursoQuieto ==
  ASSUME UNCHANGED peticion
  PROVE  \A q : EnCurso(q)' = EnCurso(q) /\ Anulando(q)' = Anulando(q)
BY DEF EnCurso, Anulando

\* The movement that entered a purchase is cancelled by hand.
LEMMA PasoAnularIngreso ==
  ASSUME Inv, NEW c \in ComprasPosibles, AnularIngreso(c)
  PROVE  Inv'
<1>1. compra[c] # Nadie /\ compra[c] \in Compras_
  BY CompraEs DEF AnularIngreso, Inv
<1>2. PICK b \in Bodegas : b = compra[c].bodega
  BY <1>1, CompraEs DEF Inv
<1> DEFINE x == [compra[c] EXCEPT !.ingreso = "ANULADO"]
<1>3. /\ Sale(b) /\ solapadas' = solapadas \cup Cerradas({b}) /\ compra' = [compra EXCEPT ![c] = x]
      /\ aparte' = aparte \cup {c} /\ UNCHANGED <<bodega, producto, peticion>>
  BY <1>1, <1>2 DEF AnularIngreso, AMano, Inv, TypeOK
<1>4. x \in Compras_ /\ x.estado = compra[c].estado /\ x.salidas = compra[c].salidas /\ x.devueltas = compra[c].devueltas
  BY <1>1 DEF Compras_
<1> HIDE DEF x
<1>5. \A q : EnCurso(q)' = EnCurso(q) /\ Anulando(q)' = Anulando(q)
  BY <1>3, EnCursoQuieto
<1>6. /\ x.estado = "REGISTRADA" => x.salidas = 0 /\ x.devueltas = 0
      /\ x.salidas + x.devueltas + Cardinality(Anulando(c)') <= Cardinality(Peticiones)
  BY <1>1, <1>4, <1>5 DEF Inv, ComprasBien, AnulacionesContadas
<1>7. ASSUME \A d \in Bodegas \ solapadas' :
               ~Cerrada(d) \/ (stock'[d] = stock[d] /\ relaciones'[d] = relaciones[d])
      PROVE  Despejada'
  BY <1>3, <1>7, QuietaDespejada DEF Inv
<1>8. c \in aparte' /\ aparte' \subseteq ComprasPosibles /\ aparte \subseteq aparte'
  BY <1>3 DEF Inv, TypeOK
<1>9. peticion' \in [Peticiones -> Pendientes \cup {Nadie}] /\ (Entra(b) \/ Sale(b))
  BY <1>3 DEF Inv, TypeOK
<1> QED BY <1>1, <1>3, <1>4, <1>5, <1>6, <1>7, <1>8, <1>9, PasoDeCompra

\* A movement that annulled a purchase is cancelled by hand: it is in force no more.
LEMMA PasoAnularSalida ==
  ASSUME Inv, NEW c \in ComprasPosibles, AnularSalida(c)
  PROVE  Inv'
<1>1. compra[c] # Nadie /\ compra[c] \in Compras_ /\ compra[c].salidas > 0
  BY CompraEs DEF AnularSalida, Inv
<1>2. PICK b \in Bodegas : b = compra[c].bodega
  BY <1>1, CompraEs DEF Inv
<1>3. PICK n \in Nat, m \in Nat : n = compra[c].salidas /\ m = compra[c].devueltas
  BY <1>1, AnulandoFinito DEF Compras_
<1> DEFINE x == [compra[c] EXCEPT !.salidas = n - 1, !.devueltas = m + 1]
<1>4. /\ Entra(b) /\ solapadas' = solapadas \cup Cerradas({b})
      /\ compra' = [compra EXCEPT ![c] = x]
      /\ aparte' = aparte \cup {c} /\ UNCHANGED <<bodega, producto, peticion>>
  BY <1>1, <1>2, <1>3 DEF AnularSalida, AMano, Inv, TypeOK
<1>5. \A q : EnCurso(q)' = EnCurso(q) /\ Anulando(q)' = Anulando(q)
  BY <1>4, EnCursoQuieto
<1>6. /\ compra[c].estado = "REGISTRADA" => n = 0
      /\ n + m + Cardinality(Anulando(c)) <= Cardinality(Peticiones)
  BY <1>1, <1>3 DEF Inv, ComprasBien, AnulacionesContadas
<1>7. n - 1 \in 0..Cardinality(Peticiones) /\ m + 1 \in 0..Cardinality(Peticiones)
  BY <1>1, <1>3, <1>6, AnulandoFinito
<1>8. x \in Compras_ /\ x.estado = compra[c].estado /\ x.salidas = n - 1 /\ x.devueltas = m + 1
  BY <1>1, <1>7 DEF Compras_
<1> HIDE DEF x
<1>9. /\ x.estado = "REGISTRADA" => x.salidas = 0 /\ x.devueltas = 0
      /\ x.salidas + x.devueltas + Cardinality(Anulando(c)') <= Cardinality(Peticiones)
  BY <1>1, <1>3, <1>5, <1>6, <1>8, AnulandoFinito
<1>10. ASSUME \A d \in Bodegas \ solapadas' :
                ~Cerrada(d) \/ (stock'[d] = stock[d] /\ relaciones'[d] = relaciones[d])
       PROVE  Despejada'
  BY <1>4, <1>10, QuietaDespejada DEF Inv
<1>11. c \in aparte' /\ aparte' \subseteq ComprasPosibles /\ aparte \subseteq aparte'
  BY <1>4 DEF Inv, TypeOK
<1>12. peticion' \in [Peticiones -> Pendientes \cup {Nadie}] /\ (Entra(b) \/ Sale(b))
  BY <1>4 DEF Inv, TypeOK
<1> QED BY <1>1, <1>4, <1>5, <1>8, <1>9, <1>10, <1>11, <1>12, PasoDeCompra

\* A movement made by hand.
LEMMA PasoMoverAMano ==
  ASSUME Inv, NEW b \in Bodegas, MoverAMano(b)
  PROVE  Inv'
<1>1. /\ Entra(b) \/ Sale(b)
      /\ solapadas' = solapadas \cup Cerradas({b}) /\ UNCHANGED <<bodega, producto, compra, peticion, aparte>>
  BY DEF MoverAMano, AMano
<1>2. /\ stock' \in [Bodegas -> 0..MaxStock]
      /\ relaciones' \in [Bodegas -> Seq(Filas)] /\ \A d \in Bodegas : Len(relaciones'[d]) <= MaxFilas
      /\ RelacionDiceStock'
      /\ \A d \in Bodegas \ {b} : stock'[d] = stock[d] /\ relaciones'[d] = relaciones[d]
  BY <1>1, EntraSaleBien DEF Inv
<1>3. Despejada'
  <2>1. b \in Cerradas({b}) \/ ~Cerrada(b)
    BY DEF Cerradas, Cerrada
  <2>2. \A d \in Bodegas \ solapadas' :
          ~Cerrada(d) \/ (stock'[d] = stock[d] /\ relaciones'[d] = relaciones[d])
    BY <1>1, <1>2, <2>1
  <2> QED BY <1>1, <2>2, QuietaDespejada DEF Inv
<1>4. ComprasBien'
  <2>1. \A q : EnCurso(q)' = EnCurso(q) /\ Anulando(q)' = Anulando(q)
    BY <1>1, EnCursoQuieto
  <2> QED BY <1>1, <2>1 DEF Inv, ComprasBien, PeticionesBien, AnulacionesContadas, AnulacionSola, CompraUnaVez
<1>5. solapadas' \subseteq Bodegas
  BY <1>1, CerradasSon DEF Inv, TypeOK
<1> QED BY <1>1, <1>2, <1>3, <1>4, <1>5, PasoAjeno DEF Inv, TypeOK

-----------------------------------------------------------------------------
(* The theorems *)

LEMMA InicioInv ==
  ASSUME Init
  PROVE  Inv
<1>1. /\ \A q : EnCurso(q) = {}
      /\ \A b \in Bodegas : bodega[b] = "NUEVA" /\ stock[b] = 0 /\ relaciones[b] = <<>>
      /\ \A c \in ComprasPosibles : compra[c] = Nadie
      /\ producto
  BY DEF Init, EnCurso
<1>2. (\A c : Anulando(c) = {}) /\ (\A b : DeBaja(b) = {}) /\ (\A b \in Bodegas : Activas(b) = {})
  BY <1>1 DEF Anulando, DeBaja, Activas
<1>3. TypeOK
  <2>1. <<>> \in Seq(Filas) /\ Len(<<>>) = 0 /\ 0 \in 0..MaxStock
    BY ComprasSupuestos
  <2> QED BY <2>1, ComprasSupuestos DEF Init, TypeOK
<1>4. ComprasBien
  BY <1>1, <1>2 DEF ComprasBien, PeticionesBien, AnulacionesContadas, AnulacionSola, CompraUnaVez
<1>5. RelacionDiceStock
  BY <1>2 DEF RelacionDiceStock
<1>6. Despejada
  BY <1>1, <1>2 DEF Despejada, Cerrada
<1> QED BY <1>3, <1>4, <1>5, <1>6 DEF Inv

\* Whoever reads nothing and writes nothing leaves it.
LEMMA QuietoInv ==
  ASSUME Inv, UNCHANGED vars
  PROVE  Inv'
<1>1. UNCHANGED <<bodega, producto, stock, relaciones, compra, peticion, solapadas, aparte>>
  BY DEF vars
<1>2. \A q : EnCurso(q)' = EnCurso(q) /\ Anulando(q)' = Anulando(q)
  BY <1>1, EnCursoQuieto
<1>3. ComprasBien'
  BY <1>1, <1>2 DEF Inv, ComprasBien, PeticionesBien, AnulacionesContadas, AnulacionSola, CompraUnaVez
<1>4. Despejada'
  BY <1>1, QuietaDespejada DEF Inv
<1> QED BY <1>1, <1>3, <1>4, FilasQuietas, PasoAjeno DEF Inv, TypeOK

\* Every step of the specification keeps the invariant.
LEMMA PasoInv ==
  ASSUME Inv, [Next]_vars
  PROVE  Inv'
<1>1. CASE UNCHANGED vars
  BY <1>1, QuietoInv
<1>2. ASSUME NEW t \in Peticiones, NEW c \in ComprasPosibles,
             PedirAnulacion(t, c) \/ \E b \in Bodegas : PedirCompra(t, c, b)
      PROVE  Inv'
  BY <1>2, PasoPedirAnulacion, PasoPedirCompra
<1>3. ASSUME NEW t \in Peticiones, RegistrarCompra(t) \/ AnularCompra(t) PROVE Inv'
  BY <1>3, PasoRegistrarCompra, PasoAnularCompra
<1>4. ASSUME NEW t \in Peticiones, Transferir(t) \/ \E b, d \in Bodegas : PedirTransferencia(t, b, d) PROVE Inv'
  BY <1>4, PasoTransferir, PasoPedirTransferencia
<1>5. ASSUME NEW t \in Peticiones, NEW b \in Bodegas,
             PedirAsignacion(t, b) \/ LeerRelacion(t, b) \/ PedirBajaBodega(t, b)
      PROVE  Inv'
  BY <1>5, PasoPedirAsignacion, PasoLeerRelacion, PasoPedirBajaBodega
<1>6. ASSUME NEW t \in Peticiones, NEW n \in 0..MaxStock, Asignar(t, n) \/ FijarCantidad(t, n) PROVE Inv'
  BY <1>6, PasoAsignar, PasoFijarCantidad
<1>7. ASSUME NEW t \in Peticiones,
             DarDeBajaBodega(t) \/ PedirBajaProducto(t) \/ DarDeBajaProducto(t) \/ Abandonar(t)
      PROVE  Inv'
  BY <1>7, PasoDarDeBajaBodega, PasoPedirBajaProducto, PasoDarDeBajaProducto, PasoAbandonar
<1>8. ASSUME NEW b \in Bodegas, CrearBodega(b) \/ MoverAMano(b) PROVE Inv'
  BY <1>8, PasoCrearBodega, PasoMoverAMano
<1>9. ASSUME NEW c \in ComprasPosibles, AnularIngreso(c) \/ AnularSalida(c) PROVE Inv'
  BY <1>9, PasoAnularIngreso, PasoAnularSalida
<1> QED BY <1>1, <1>2, <1>3, <1>4, <1>5, <1>6, <1>7, <1>8, <1>9 DEF Next

\* The strengthened invariant holds of every behaviour.
THEOREM InvarianteInductivo == Spec => []Inv
<1>1. Init => Inv
  BY InicioInv
<1>2. Inv /\ [Next]_vars => Inv'
  BY PasoInv
<1> QED BY <1>1, <1>2, PTL DEF Spec

\* Stock, rows, purchases and requests keep their shapes; no stock is negative, and the
\* movements that annulled a purchase are never more than the requests there may be.
THEOREM TiposCorrectos == Spec => []TypeOK
<1>1. Inv => TypeOK
  BY DEF Inv
<1> QED BY <1>1, InvarianteInductivo, PTL

\* compra_service.anular_compra: a purchase weighs once on the stock, and is taken back once,
\* unless two annulments crossed or its movements were cancelled by hand.
THEOREM ComprasCuentanUnaVez == Spec => []CompraUnaVez
<1>1. Inv => CompraUnaVez
  BY DEF Inv, ComprasBien
<1> QED BY <1>1, InvarianteInductivo, PTL

\* _sincronizar_producto_bodega_desde_stock: the rows in force follow the stock, whoever moves
\* it and however many rows the lost constraint lets in.
THEOREM FilasDicenStock == Spec => []RelacionDiceStock
<1>1. Inv => RelacionDiceStock
  BY DEF Inv
<1> QED BY <1>1, InvarianteInductivo, PTL

\* BodegaService.delete, ProductoService.delete: what a deletion took away stays empty, unless
\* something is known to have crossed it or come after it.
THEOREM BajasLimpias == Spec => []BajaLimpia
<1>1. Inv => BajaLimpia
  BY DEF Inv, Despejada, Cerrada, BajaLimpia
<1> QED BY <1>1, InvarianteInductivo, PTL
=============================================================================

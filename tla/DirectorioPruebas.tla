------------------------- MODULE DirectorioPruebas -------------------------
(***************************************************************************)
(* What Directorio guarantees for all persons, companies, types of client  *)
(* and concurrent requests.                                                *)
(***************************************************************************)
EXTENDS Directorio, TLAPS

-----------------------------------------------------------------------------
(* The inductive invariant *)

\* The request holds the lock of r, or it will before it writes.
Tendra(s, r) == r \in s.tiene \/ \E i \in 1..Len(s.faltan) : s.faltan[i] = r

Ciclo == {"BAJA_PERSONA", "REACTIVA_PERSONA"}
CicloTipo == {"BAJA_TIPO", "REACTIVA_TIPO"}

\* What each request is about.
Forma(s) ==
  /\ s.que \in {"ALTA", "REACTIVA", "BAJA", "CONTACTO", "TIPO_CLIENTE"} => s.clave \in Vinculos
  /\ s.que \in {"ALTA", "CONTACTO", "TIPO_CLIENTE"} \cup Ciclo => s.persona \in Personas
  /\ s.que \in {"TIPO_CLIENTE"} \cup CicloTipo => s.tipo \in Tipos
  /\ s.que = "ALTA" => /\ s.clave[1] # "SOCIEDAD" => s.persona = s.clave[2]
                       /\ s.clave[1] = "CLIENTE" <=> s.tipo # Nadie
  /\ s.que = "CONTACTO" => s.clave[1] = "SOCIEDAD"
  /\ s.que = "TIPO_CLIENTE" => s.clave = <<"CLIENTE", s.persona>>
  /\ s.que = "REACTIVA" /\ s.persona = Nadie => s.faltan = <<>>
  /\ s.visto # "NO" => s.faltan = <<>>
  /\ s.visto # "NO" /\ s.que = "REACTIVA" => s.persona # Nadie

\* The locks without which it does not write.
Cierra(s) ==
  /\ s.que \in {"ALTA", "REACTIVA", "CONTACTO"} \cup Ciclo /\ s.persona # Nadie => Tendra(s, LaPersona(s.persona))
  /\ s.que \in {"ALTA", "REACTIVA", "TIPO_CLIENTE"} \cup CicloTipo /\ s.tipo # Nadie => Tendra(s, ElTipo(s.tipo))
  /\ s.que \in {"CONTACTO", "TIPO_CLIENTE"} => Tendra(s, s.clave)
  /\ s.que = "REACTIVA" /\ s.persona # Nadie => s.clave \in s.tiene
  /\ s.que = "BAJA" => \A k \in Creadas(s.clave) : Tendra(s, k)

\* What it read stays true while it holds those locks.
Sabe(s) ==
  /\ \A p \in Personas : s.que \notin Ciclo /\ LaPersona(p) \in s.tiene => persona[p] # "BAJA"
  /\ \A x \in Tipos : s.que \notin CicloTipo /\ ElTipo(x) \in s.tiene => tipo[x]
  /\ s.que \in {"REACTIVA", "BAJA", "CONTACTO", "TIPO_CLIENTE"} => vinculo[s.clave] # "NO"
  /\ s.que \in Ciclo => persona[s.persona] # "NO"
  /\ s.que = "REACTIVA" /\ s.persona # Nadie =>
       /\ s.persona = PersonaDe(s.clave)
       /\ s.clave[1] = "CLIENTE" => s.tipo = tipoDe[s.persona]
  /\ s.que = "REACTIVA" /\ s.visto = "SI" /\ s.clave[1] = "USUARIO" => ~EmpleadoDeBaja(s.clave[2])
  /\ s.que = "BAJA_PERSONA" /\ s.visto # "NO" => SinVinculos(s.persona)
  /\ s.que = "BAJA_TIPO" /\ s.visto # "NO" => SinClientes(s.tipo)

Bien(s) == Forma(s) /\ Cierra(s) /\ Sabe(s)

\* Who is anything is some person, and a client has some type.
Existen ==
  /\ \A k \in Vinculos : vinculo[k] # "NO" => PersonaDe(k) \in Personas /\ persona[PersonaDe(k)] # "NO"
  /\ \A p \in Personas : <<"CLIENTE", p>> \in Vinculos /\ vinculo[<<"CLIENTE", p>>] # "NO" => tipoDe[p] \in Tipos

IInv ==
  /\ TypeOK /\ ReferenciasActivas /\ UsuarioSigueAlEmpleado /\ Existen
  /\ \A t \in Peticiones : peticion[t] # Nadie => Bien(peticion[t])

-----------------------------------------------------------------------------
(* Rows and locks *)

\* A row of the directory is of a person or of a company.
LEMMA Filas ==
  ASSUME NEW k \in Vinculos
  PROVE  \/ k[1] \in Roles /\ k[2] \in Personas /\ k = <<k[1], k[2]>> /\ k[1] # "SOCIEDAD"
         \/ k[1] = "SOCIEDAD" /\ k[2] \in Sociedades /\ k = <<k[1], k[2]>>
BY DirectorioSupuestos DEF Roles

\* The rows created together with an employee.
LEMMA CreadasBien ==
  ASSUME NEW k \in Vinculos
  PROVE  /\ Creadas(k) \subseteq Vinculos /\ k \in Creadas(k)
         /\ \A j \in Creadas(k) : j # k => k[1] = "EMPLEADO" /\ j = <<"USUARIO", k[2]>> /\ j[1] = "USUARIO" /\ j[2] = k[2]
BY Filas, DirectorioSupuestos DEF Creadas, Usuario

\* A lock is of a person, of a type or of a row, and tells which.
LEMMA CerrojosDistintos ==
  /\ \A p, q \in Personas : LaPersona(p) = LaPersona(q) => p = q
  /\ \A x, y \in Tipos : ElTipo(x) = ElTipo(y) => x = y
  /\ \A p \in Personas, x \in Tipos : LaPersona(p) # ElTipo(x)
  /\ \A p \in Personas : LaPersona(p) \notin Vinculos /\ LaPersona(p) \in Recursos
  /\ \A x \in Tipos : ElTipo(x) \notin Vinculos /\ ElTipo(x) \in Recursos
  /\ Vinculos \subseteq Recursos
BY DirectorioSupuestos DEF LaPersona, ElTipo, Recursos, Roles

\* With nothing left to lock, what it would have it has.
LEMMA YaTiene ==
  ASSUME NEW s, NEW r, Tendra(s, r), s.faltan = <<>>
  PROVE  r \in s.tiene
BY DEF Tendra

\* A request that keeps its lock keeps the others off.
LEMMA Exclusivos ==
  ASSUME TypeOK, NEW t \in Peticiones, NEW u \in Peticiones, t # u,
         peticion[t] # Nadie, peticion[u] # Nadie, NEW r, r \in peticion[t].tiene
  PROVE  r \notin peticion[u].tiene
BY DEF TypeOK

-----------------------------------------------------------------------------
(* Steps that write nothing but the request *)

Datos == <<persona, tipo, vinculo, contacto, tipoDe, confirmados>>

\* It is enough to look at the request.
LEMMA SoloPeticion ==
  ASSUME IInv, UNCHANGED Datos, NEW t \in Peticiones, NEW s, s \in Peticion \cup {Nadie},
         peticion' = [peticion EXCEPT ![t] = s],
         s # Nadie => Bien(s),
         s # Nadie => \A u \in Peticiones \ {t} : peticion[u] # Nadie => peticion[u].tiene \cap s.tiene = {}
  PROVE  IInv'
<1>1. TypeOK'
  BY DEF IInv, TypeOK, Datos
<1>2. (ReferenciasActivas /\ UsuarioSigueAlEmpleado /\ Existen)'
  BY DEF IInv, Datos, ReferenciasActivas, UsuarioSigueAlEmpleado, Existen, PersonaDe
<1>3. ASSUME NEW u \in Peticiones, NEW r, (peticion[u])' = r, Bien(r)
      PROVE  Bien(peticion[u])'
  <2>1. Forma(peticion[u])' /\ Cierra(peticion[u])'
    BY <1>3 DEF Bien, Forma, Cierra, Tendra
  <2>2. Sabe(peticion[u])'
    BY <1>3 DEF Bien, Sabe, Datos, PersonaDe, EmpleadoDeBaja, SinVinculos, SinClientes
  <2> QED BY <2>1, <2>2 DEF Bien
<1>5. ASSUME NEW u \in Peticiones, (peticion[u] # Nadie)'
      PROVE  Bien(peticion[u])'
  <2>1. CASE u = t
    <3>1. (peticion[u])' = s /\ Bien(s)
      BY <1>5, <2>1 DEF IInv, TypeOK
    <3> QED BY <1>3, <3>1
  <2>2. CASE u # t
    <3>1. (peticion[u])' = peticion[u] /\ Bien(peticion[u])
      BY <1>5, <2>2 DEF IInv, TypeOK
    <3> QED BY <1>3, <3>1
  <2> QED BY <2>1, <2>2
<1> QED BY <1>1, <1>2, <1>5 DEF IInv

\* A request that starts holds nothing yet.
LEMMA EmpiezaBien ==
  ASSUME IInv, NEW t \in Peticiones,
         NEW que \in {"ALTA", "REACTIVA", "BAJA", "CONTACTO", "TIPO_CLIENTE",
                      "BAJA_PERSONA", "REACTIVA_PERSONA", "BAJA_TIPO", "REACTIVA_TIPO"},
         NEW k \in Vinculos \cup {Nadie}, NEW p \in Personas \cup {Nadie}, NEW x \in Tipos \cup {Nadie},
         NEW c \in Seq(Recursos), Empieza(t, que, k, p, x, c),
         Bien([que |-> que, clave |-> k, persona |-> p, tipo |-> x,
               faltan |-> c, tiene |-> {}, visto |-> "NO"])
  PROVE  IInv'
<1> DEFINE s == [que |-> que, clave |-> k, persona |-> p, tipo |-> x,
                 faltan |-> c, tiene |-> {}, visto |-> "NO"]
<1>1. s \in Peticion
  BY DEF Peticion
<1>2. peticion' = [peticion EXCEPT ![t] = s] /\ UNCHANGED Datos
  BY DEF Empieza, Datos
<1>3. \A u \in Peticiones \ {t} : peticion[u] # Nadie => peticion[u].tiene \cap s.tiene = {}
  OBVIOUS
<1> QED BY <1>1, <1>2, <1>3, SoloPeticion

\* Every request starts well.
LEMMA PedirBien ==
  ASSUME IInv, NEW t \in Peticiones,
         \/ \E k \in Vinculos :
              \/ \E p \in Personas, x \in Tipos \cup {Nadie} : PedirAlta(t, k, p, x)
              \/ PedirReactivacion(t, k) \/ PedirBaja(t, k)
         \/ \E p \in Personas :
              \/ \E s \in Sociedades : PedirContacto(t, s, p)
              \/ \E x \in Tipos : PedirTipo(t, p, x)
              \/ PedirBajaPersona(t, p) \/ PedirReactivarPersona(t, p)
         \/ \E x \in Tipos : PedirBajaTipo(t, x) \/ PedirReactivarTipo(t, x)
  PROVE  IInv'
<1>1. ASSUME NEW k \in Vinculos, NEW p \in Personas, NEW x \in Tipos \cup {Nadie}, PedirAlta(t, k, p, x)
      PROVE  IInv'
  <2> DEFINE c == IF x # Nadie THEN <<LaPersona(p), ElTipo(x)>> ELSE <<LaPersona(p)>>
             s == [que |-> "ALTA", clave |-> k, persona |-> p, tipo |-> x,
                   faltan |-> c, tiene |-> {}, visto |-> "NO"]
  <2>1. LaPersona(p) \in Recursos /\ (x # Nadie => ElTipo(x) \in Recursos)
    BY CerrojosDistintos
  <2>2. c \in Seq(Recursos) /\ c[1] = LaPersona(p) /\ Len(c) >= 1
        /\ (x # Nadie => c[2] = ElTipo(x) /\ Len(c) = 2) /\ Len(c) \in Nat
    BY <2>1
  <2>3. Forma(s)
    BY <1>1, Filas DEF Forma, Ciclo, CicloTipo, PedirAlta
  <2> HIDE DEF c
  <2>4. Cierra(s)
    BY <2>2 DEF Cierra, Tendra, Ciclo, CicloTipo
  <2>5. Sabe(s)
    BY DEF Sabe, Ciclo, CicloTipo
  <2>6. Empieza(t, "ALTA", k, p, x, c)
    BY <1>1 DEF PedirAlta, c
  <2> QED BY <2>2, <2>3, <2>4, <2>5, <2>6, EmpiezaBien DEF Bien
<1>2. ASSUME NEW k \in Vinculos, PedirReactivacion(t, k)
      PROVE  IInv'
  <2> DEFINE s == [que |-> "REACTIVA", clave |-> k, persona |-> Nadie, tipo |-> Nadie,
                   faltan |-> <<>>, tiene |-> {}, visto |-> "NO"]
  <2>1. Bien(s)
    BY <1>2 DEF Bien, Forma, Cierra, Sabe, Ciclo, CicloTipo, PedirReactivacion
  <2>2. <<>> \in Seq(Recursos)
    OBVIOUS
  <2>3. Empieza(t, "REACTIVA", k, Nadie, Nadie, <<>>)
    BY <1>2 DEF PedirReactivacion
  <2> QED BY <2>1, <2>2, <2>3, EmpiezaBien
<1>3. ASSUME NEW k \in Vinculos, PedirBaja(t, k)
      PROVE  IInv'
  <2> DEFINE c == CerrojosDeBaja(k)
             s == [que |-> "BAJA", clave |-> k, persona |-> Nadie, tipo |-> Nadie,
                   faltan |-> c, tiene |-> {}, visto |-> "NO"]
  <2>1. c \in Seq(Recursos) /\ \A j \in Creadas(k) : \E i \in 1..Len(c) : c[i] = j
    <3>1. CASE k[1] = "EMPLEADO"
      <4>1. Usuario(k[2]) \in Vinculos
        BY <3>1, CreadasBien DEF Creadas
      <4>2. c = <<k, Usuario(k[2])>> /\ Creadas(k) = {k, Usuario(k[2])}
        BY <3>1 DEF CerrojosDeBaja, Creadas
      <4> HIDE DEF c
      <4>3. c \in Seq(Recursos) /\ Len(c) = 2 /\ c[1] = k /\ c[2] = Usuario(k[2])
        BY <4>1, <4>2, CerrojosDistintos
      <4> QED BY <4>2, <4>3
    <3>2. CASE k[1] # "EMPLEADO"
      <4>2. c = <<k>> /\ Creadas(k) = {k}
        BY <3>2 DEF CerrojosDeBaja, Creadas
      <4> HIDE DEF c
      <4>3. c \in Seq(Recursos) /\ Len(c) = 1 /\ c[1] = k
        BY <4>2, CerrojosDistintos
      <4> QED BY <4>2, <4>3
    <3> QED BY <3>1, <3>2
  <2> HIDE DEF c
  <2>2. Cierra(s)
    BY <2>1 DEF Cierra, Tendra, Ciclo, CicloTipo
  <2>3. Forma(s) /\ Sabe(s)
    BY <1>3 DEF Forma, Sabe, Ciclo, CicloTipo, PedirBaja
  <2>4. Empieza(t, "BAJA", k, Nadie, Nadie, c)
    BY <1>3 DEF PedirBaja, c
  <2> QED BY <2>1, <2>2, <2>3, <2>4, EmpiezaBien DEF Bien
<1>4. ASSUME NEW p \in Personas, NEW e \in Sociedades, PedirContacto(t, e, p)
      PROVE  IInv'
  <2> DEFINE k == <<"SOCIEDAD", e>>
             c == <<LaPersona(p), k>>
             s == [que |-> "CONTACTO", clave |-> k, persona |-> p, tipo |-> Nadie,
                   faltan |-> c, tiene |-> {}, visto |-> "NO"]
  <2>1. k \in Vinculos /\ vinculo[k] = "ACTIVA" /\ Empieza(t, "CONTACTO", k, p, Nadie, c)
    BY <1>4 DEF PedirContacto
  <2>2. c \in Seq(Recursos) /\ Len(c) = 2 /\ c[1] = LaPersona(p) /\ c[2] = k
    BY <2>1, CerrojosDistintos
  <2>5. k[1] = "SOCIEDAD"
    OBVIOUS
  <2> HIDE DEF c, k
  <2>6. (\E i \in 1..Len(c) : c[i] = LaPersona(p)) /\ (\E i \in 1..Len(c) : c[i] = k)
    BY <2>2
  <2>3. Cierra(s)
    BY <2>6 DEF Cierra, Tendra, Ciclo, CicloTipo
  <2>4. Forma(s) /\ Sabe(s)
    BY <2>1, <2>5 DEF Forma, Sabe, Ciclo, CicloTipo
  <2> QED BY <2>1, <2>2, <2>3, <2>4, EmpiezaBien DEF Bien
<1>5. ASSUME NEW p \in Personas, NEW x \in Tipos, PedirTipo(t, p, x)
      PROVE  IInv'
  <2> DEFINE k == <<"CLIENTE", p>>
             c == <<ElTipo(x), k>>
             s == [que |-> "TIPO_CLIENTE", clave |-> k, persona |-> p, tipo |-> x,
                   faltan |-> c, tiene |-> {}, visto |-> "NO"]
  <2>1. k \in Vinculos /\ vinculo[k] = "ACTIVA" /\ Empieza(t, "TIPO_CLIENTE", k, p, x, c)
    BY <1>5 DEF PedirTipo
  <2>2. c \in Seq(Recursos) /\ Len(c) = 2 /\ c[1] = ElTipo(x) /\ c[2] = k
    BY <2>1, CerrojosDistintos
  <2>4. Forma(s) /\ Sabe(s)
    BY <2>1 DEF Forma, Sabe, Ciclo, CicloTipo
  <2> HIDE DEF c, k
  <2>6. (\E i \in 1..Len(c) : c[i] = ElTipo(x)) /\ (\E i \in 1..Len(c) : c[i] = k)
    BY <2>2
  <2>3. Cierra(s)
    BY <2>6 DEF Cierra, Tendra, Ciclo, CicloTipo
  <2> QED BY <2>1, <2>2, <2>3, <2>4, EmpiezaBien DEF Bien
<1>6. ASSUME NEW p \in Personas, PedirBajaPersona(t, p) \/ PedirReactivarPersona(t, p)
      PROVE  IInv'
  <2> DEFINE c == <<LaPersona(p)>>
  <2>1. c \in Seq(Recursos) /\ Len(c) = 1 /\ c[1] = LaPersona(p)
    BY CerrojosDistintos
  <2>2. PICK que \in Ciclo : Empieza(t, que, Nadie, p, Nadie, c) /\ persona[p] # "NO"
    BY <1>6 DEF PedirBajaPersona, PedirReactivarPersona, Ciclo
  <2> DEFINE s == [que |-> que, clave |-> Nadie, persona |-> p, tipo |-> Nadie,
                   faltan |-> c, tiene |-> {}, visto |-> "NO"]
  <2> HIDE DEF c
  <2>3. Bien(s)
    BY <2>1, <2>2 DEF Bien, Forma, Cierra, Sabe, Tendra, Ciclo, CicloTipo
  <2> QED BY <2>1, <2>2, <2>3, EmpiezaBien DEF Ciclo
<1>7. ASSUME NEW x \in Tipos, PedirBajaTipo(t, x) \/ PedirReactivarTipo(t, x)
      PROVE  IInv'
  <2> DEFINE c == <<ElTipo(x)>>
  <2>1. c \in Seq(Recursos) /\ Len(c) = 1 /\ c[1] = ElTipo(x)
    BY CerrojosDistintos
  <2>2. PICK que \in CicloTipo : Empieza(t, que, Nadie, Nadie, x, c)
    BY <1>7 DEF PedirBajaTipo, PedirReactivarTipo, CicloTipo
  <2> DEFINE s == [que |-> que, clave |-> Nadie, persona |-> Nadie, tipo |-> x,
                   faltan |-> c, tiene |-> {}, visto |-> "NO"]
  <2> HIDE DEF c
  <2>3. Bien(s)
    BY <2>1, <2>2 DEF Bien, Forma, Cierra, Sabe, Tendra, Ciclo, CicloTipo
  <2> QED BY <2>1, <2>2, <2>3, EmpiezaBien DEF CicloTipo
<1> QED BY <1>1, <1>2, <1>3, <1>4, <1>5, <1>6, <1>7

-----------------------------------------------------------------------------
(* Locking and reading *)

\* What a request has, and what its invariant says.
LEMMA Conocida ==
  ASSUME IInv, NEW t \in Peticiones, peticion[t] # Nadie
  PROVE  peticion[t] \in Peticion /\ Forma(peticion[t]) /\ Cierra(peticion[t]) /\ Sabe(peticion[t])
BY DEF IInv, TypeOK, Bien

\* The first of the locks it wanted is one it has, the others it still wants.
LEMMA BloquearBien ==
  ASSUME IInv, NEW t \in Peticiones, Bloquear(t)
  PROVE  IInv'
<1> DEFINE s == peticion[t]
           r == Head(s.faltan)
           n == [s EXCEPT !.faltan = Tail(s.faltan), !.tiene = s.tiene \cup {r}]
<1>1. s # Nadie /\ s.faltan # <<>> /\ Libre(r) /\ Sirve(t, r) /\ peticion' = [peticion EXCEPT ![t] = n]
      /\ UNCHANGED Datos
  BY DEF Bloquear, Datos
<1>2. s \in Peticion /\ Forma(s) /\ Cierra(s) /\ Sabe(s)
  BY <1>1, Conocida
<1>3. s.faltan \in Seq(Recursos) /\ s.tiene \in SUBSET Recursos
  BY <1>2 DEF Peticion
<1>4. /\ Tail(s.faltan) \in Seq(Recursos) /\ r \in Recursos /\ r = s.faltan[1]
      /\ Len(Tail(s.faltan)) = Len(s.faltan) - 1 /\ Len(s.faltan) \in Nat /\ Len(s.faltan) > 0
      /\ \A i \in 1..Len(Tail(s.faltan)) : Tail(s.faltan)[i] = s.faltan[i + 1]
  BY <1>1, <1>3
<1>5. n \in Peticion
  BY <1>2, <1>3, <1>4 DEF Peticion
<1>6. /\ n.que = s.que /\ n.clave = s.clave /\ n.persona = s.persona /\ n.tipo = s.tipo /\ n.visto = s.visto
      /\ n.faltan = Tail(s.faltan) /\ n.tiene = s.tiene \cup {r}
  BY <1>2 DEF Peticion
<1>7. \A q : Tendra(s, q) => Tendra(n, q)
  <2> SUFFICES ASSUME NEW q, NEW i \in 1..Len(s.faltan), s.faltan[i] = q, i # 1
               PROVE  \E j \in 1..Len(Tail(s.faltan)) : Tail(s.faltan)[j] = q
    BY <1>4, <1>6 DEF Tendra
  <2>1. i - 1 \in 1..Len(Tail(s.faltan)) /\ Tail(s.faltan)[i - 1] = q
    BY <1>4
  <2> QED BY <2>1
<1> HIDE DEF n
<1>8. Forma(n)
  BY <1>1, <1>2, <1>6 DEF Forma
<1>9. Cierra(n)
  BY <1>2, <1>6, <1>7 DEF Cierra
<1>10. Sabe(n)
  <2>1. \A p \in Personas : n.que \notin Ciclo /\ LaPersona(p) \in n.tiene => persona[p] # "BAJA"
    BY <1>1, <1>2, <1>6 DEF Sabe, Sirve, Haciendo, LaPersona, Ciclo
  <2>2. \A x \in Tipos : n.que \notin CicloTipo /\ ElTipo(x) \in n.tiene => tipo[x]
    BY <1>1, <1>2, <1>6 DEF Sabe, Sirve, Haciendo, ElTipo, CicloTipo
  <2> QED BY <1>2, <1>6, <2>1, <2>2 DEF Sabe
<1>11. \A u \in Peticiones \ {t} : peticion[u] # Nadie => peticion[u].tiene \cap n.tiene = {}
  BY <1>1, <1>6 DEF IInv, TypeOK, Libre
<1> QED BY <1>1, <1>5, <1>8, <1>9, <1>10, <1>11, SoloPeticion DEF Bien

\* A reactivation reads from its row whom it is of.
LEMMA BloquearFilaBien ==
  ASSUME IInv, NEW t \in Peticiones, BloquearFila(t)
  PROVE  IInv'
<1> DEFINE k == peticion[t].clave
           p == PersonaDe(k)
           x == IF k[1] = "CLIENTE" THEN tipoDe[p] ELSE Nadie
           c == IF k[1] = "CLIENTE" THEN <<LaPersona(p), ElTipo(x)>> ELSE <<LaPersona(p)>>
           n == [que |-> "REACTIVA", clave |-> k, persona |-> p, tipo |-> x,
                 faltan |-> c, tiene |-> {k}, visto |-> "NO"]
<1>1. peticion[t] # Nadie /\ peticion[t].que = "REACTIVA" /\ Libre(k) /\ peticion' = [peticion EXCEPT ![t] = n]
      /\ UNCHANGED Datos
  BY DEF BloquearFila, Haciendo, Datos
<1>2. k \in Vinculos /\ vinculo[k] # "NO"
  BY <1>1, Conocida DEF Forma, Sabe
<1>3. p \in Personas /\ (k[1] = "CLIENTE" => k = <<"CLIENTE", p>> /\ x \in Tipos)
  BY <1>2, Filas DEF IInv, Existen, PersonaDe
<1>4. k[1] # "CLIENTE" => x = Nadie
  OBVIOUS
<1>5. p # Nadie /\ (x # Nadie => k[1] = "CLIENTE")
  BY <1>3, DirectorioSupuestos
<1>6. k \in Recursos /\ (\A q \in Personas : LaPersona(q) \in Recursos /\ LaPersona(q) # k)
      /\ (\A q \in Tipos : ElTipo(q) \in Recursos /\ ElTipo(q) # k)
  BY <1>2, CerrojosDistintos
<1>7. /\ c \in Seq(Recursos) /\ \E i \in 1..Len(c) : c[i] = LaPersona(p)
      /\ x # Nadie => \E i \in 1..Len(c) : c[i] = ElTipo(x)
  <2>1. CASE k[1] = "CLIENTE"
    <3>1. c = <<LaPersona(p), ElTipo(x)>>
      BY <2>1
    <3> HIDE DEF c
    <3>2. c \in Seq(Recursos) /\ Len(c) = 2 /\ c[1] = LaPersona(p) /\ c[2] = ElTipo(x)
      BY <1>3, <1>6, <2>1, <3>1
    <3> QED BY <3>2
  <2>2. CASE k[1] # "CLIENTE"
    <3>1. c = <<LaPersona(p)>> /\ x = Nadie
      BY <2>2
    <3> HIDE DEF c, x
    <3>2. c \in Seq(Recursos) /\ Len(c) = 1 /\ c[1] = LaPersona(p)
      BY <1>3, <1>6, <3>1
    <3> QED BY <3>1, <3>2
  <2> QED BY <2>1, <2>2
<1>8. k[1] = "CLIENTE" => x = tipoDe[p]
  OBVIOUS
<1>9. p = PersonaDe(k)
  OBVIOUS
<1> HIDE DEF c, x, p, k
<1>10. n \in Peticion
  BY <1>2, <1>3, <1>4, <1>6, <1>7 DEF Peticion
<1>11. Forma(n)
  BY <1>2, <1>3, <1>5 DEF Forma, Ciclo, CicloTipo
<1>12. Cierra(n)
  BY <1>7 DEF Cierra, Tendra, Ciclo, CicloTipo
<1>13. Sabe(n)
  BY <1>2, <1>6, <1>8, <1>9 DEF Sabe, Ciclo, CicloTipo
<1>14. \A u \in Peticiones \ {t} : peticion[u] # Nadie => peticion[u].tiene \cap n.tiene = {}
  BY <1>1 DEF Libre
<1> QED BY <1>1, <1>10, <1>11, <1>12, <1>13, <1>14, SoloPeticion DEF Bien

\* What a request reads with all its locks.
LEMMA MirarBien ==
  ASSUME IInv, NEW t \in Peticiones, NEW c \in BOOLEAN, Mirar(t, c)
  PROVE  IInv'
<1> DEFINE s == peticion[t]
           v == IF c /\ s.que = "REACTIVA" THEN "CONFIRMADO" ELSE "SI"
           n == [s EXCEPT !.visto = v]
<1>1. /\ s # Nadie /\ s.faltan = <<>>
      /\ s.que = "BAJA_PERSONA" => SinVinculos(s.persona)
      /\ s.que = "BAJA_TIPO" => SinClientes(s.tipo)
      /\ s.que = "REACTIVA" => s.persona # Nadie
      /\ s.que = "REACTIVA" /\ s.clave[1] = "USUARIO" /\ EmpleadoDeBaja(s.persona) => c
      /\ peticion' = [peticion EXCEPT ![t] = n] /\ UNCHANGED Datos
  BY DEF Mirar, Lista, Haciendo, Datos
<1>2. s \in Peticion /\ Forma(s) /\ Cierra(s) /\ Sabe(s)
  BY <1>1, Conocida
<1>3. n \in Peticion
  BY <1>2 DEF Peticion
<1>4. /\ n.que = s.que /\ n.clave = s.clave /\ n.persona = s.persona /\ n.tipo = s.tipo /\ n.faltan = s.faltan
      /\ n.tiene = s.tiene /\ n.visto = v
  BY <1>2 DEF Peticion
<1> HIDE DEF n
<1>5. Forma(n)
  BY <1>1, <1>2, <1>4 DEF Forma
<1>6. Cierra(n)
  BY <1>2, <1>4 DEF Cierra, Tendra
<1>7. s.que = "REACTIVA" /\ v = "SI" /\ s.clave[1] = "USUARIO" => ~EmpleadoDeBaja(s.clave[2])
  BY <1>1, <1>2 DEF Sabe, PersonaDe
<1>8. Sabe(n)
  BY <1>1, <1>2, <1>4, <1>7 DEF Sabe
<1>9. \A u \in Peticiones \ {t} : peticion[u] # Nadie => peticion[u].tiene \cap n.tiene = {}
  BY <1>1, <1>4 DEF IInv, TypeOK
<1> QED BY <1>1, <1>3, <1>5, <1>6, <1>8, <1>9, SoloPeticion DEF Bien

\* A request that gives up.
LEMMA AbandonarBien ==
  ASSUME IInv, NEW t \in Peticiones, Abandonar(t)
  PROVE  IInv'
BY SoloPeticion DEF Abandonar, Termina, Datos

-----------------------------------------------------------------------------
(* Steps that write *)

\* What a step leaves to those who hold the locks T.
Respeta(T) ==
  /\ \A q \in Personas : LaPersona(q) \in T => persona'[q] = persona[q] \/ persona'[q] # "BAJA"
  /\ \A x \in Tipos : ElTipo(x) \in T => tipo'[x] = tipo[x] \/ tipo'[x]
  /\ \A q \in Personas : persona[q] # "NO" => persona'[q] # "NO"
  /\ \A k \in Vinculos : vinculo[k] # "NO" => vinculo'[k] # "NO"
  /\ \A k \in Vinculos : k \in T /\ vinculo[k] # "NO" =>
       PersonaDe(k)' = PersonaDe(k) /\ (k[1] = "CLIENTE" => tipoDe'[k[2]] = tipoDe[k[2]])
  /\ \A q \in Personas : Usuario(q) \in T => (EmpleadoDeBaja(q)' => EmpleadoDeBaja(q))
  /\ \A q \in Personas, k \in Vinculos : LaPersona(q) \in T /\ vinculo'[k] = "ACTIVA" /\ PersonaDe(k)' = q =>
       vinculo[k] = "ACTIVA" /\ PersonaDe(k) = q
  /\ \A x \in Tipos, q \in Personas : ElTipo(x) \in T /\ <<"CLIENTE", q>> \in Vinculos
       /\ vinculo'[<<"CLIENTE", q>>] = "ACTIVA" /\ tipoDe'[q] = x =>
       vinculo[<<"CLIENTE", q>>] = "ACTIVA" /\ tipoDe[q] = x

\* A request whose locks are respected still knows what it knew.
LEMMA Respetada ==
  ASSUME IInv, NEW r, r \in Peticion, Forma(r), Cierra(r), Sabe(r), Respeta(r.tiene)
  PROVE  Sabe(r)'
<1>1. \A p \in Personas : r.que \notin Ciclo /\ LaPersona(p) \in r.tiene => persona'[p] # "BAJA"
  BY DEF Sabe, Respeta
<1>2. \A x \in Tipos : r.que \notin CicloTipo /\ ElTipo(x) \in r.tiene => tipo'[x]
  BY DEF Sabe, Respeta
<1>3. r.que \in {"REACTIVA", "BAJA", "CONTACTO", "TIPO_CLIENTE"} => vinculo'[r.clave] # "NO"
  BY DEF Sabe, Respeta, Forma
<1>4. r.que \in Ciclo => persona'[r.persona] # "NO"
  BY DEF Sabe, Respeta, Forma
<1>5. ASSUME r.que = "REACTIVA", r.persona # Nadie
      PROVE  r.persona = PersonaDe(r.clave)' /\ (r.clave[1] = "CLIENTE" => r.tipo = tipoDe'[r.persona])
  <2>1. r.clave \in Vinculos /\ r.clave \in r.tiene /\ vinculo[r.clave] # "NO"
    BY <1>5 DEF Forma, Cierra, Sabe
  <2>2. PersonaDe(r.clave)' = PersonaDe(r.clave) /\ (r.clave[1] = "CLIENTE" => tipoDe'[r.clave[2]] = tipoDe[r.clave[2]])
    BY <2>1 DEF Respeta
  <2>3. r.persona = PersonaDe(r.clave) /\ (r.clave[1] = "CLIENTE" => r.tipo = tipoDe[r.persona])
    BY <1>5 DEF Sabe
  <2>4. r.clave[1] = "CLIENTE" => PersonaDe(r.clave) = r.clave[2]
    BY DEF PersonaDe
  <2> QED BY <2>2, <2>3, <2>4
<1>6. ASSUME r.que = "REACTIVA", r.visto = "SI", r.clave[1] = "USUARIO"
      PROVE  ~EmpleadoDeBaja(r.clave[2])'
  <2>1. r.clave \in Vinculos /\ r.clave \in r.tiene
    BY <1>6 DEF Forma, Cierra
  <2>2. r.clave[2] \in Personas /\ Usuario(r.clave[2]) = r.clave
    BY <1>6, <2>1, Filas DEF Usuario
  <2>3. ~EmpleadoDeBaja(r.clave[2])
    BY <1>6 DEF Sabe
  <2> QED BY <2>1, <2>2, <2>3 DEF Respeta
<1>7. ASSUME r.que = "BAJA_PERSONA", r.visto # "NO"
      PROVE  SinVinculos(r.persona)'
  <2>1. r.persona \in Personas /\ r.persona # Nadie /\ r.faltan = <<>>
    BY <1>7, DirectorioSupuestos DEF Forma, Ciclo
  <2>2. Tendra(r, LaPersona(r.persona))
    BY <1>7, <2>1 DEF Cierra, Ciclo
  <2>3. LaPersona(r.persona) \in r.tiene
    BY <2>1, <2>2, YaTiene
  <2>4. SinVinculos(r.persona)
    BY <1>7 DEF Sabe
  <2> QED BY <2>1, <2>3, <2>4 DEF Respeta, SinVinculos
<1>8. ASSUME r.que = "BAJA_TIPO", r.visto # "NO"
      PROVE  SinClientes(r.tipo)'
  <2>1. r.tipo \in Tipos /\ r.tipo # Nadie /\ r.faltan = <<>>
    BY <1>8, DirectorioSupuestos DEF Forma, CicloTipo
  <2>2. Tendra(r, ElTipo(r.tipo))
    BY <1>8, <2>1 DEF Cierra, CicloTipo
  <2>3. ElTipo(r.tipo) \in r.tiene
    BY <2>1, <2>2, YaTiene
  <2>4. SinClientes(r.tipo)
    BY <1>8 DEF Sabe
  <2> QED BY <2>1, <2>3, <2>4 DEF Respeta, SinClientes
<1> QED BY <1>1, <1>2, <1>3, <1>4, <1>5, <1>6, <1>7, <1>8 DEF Sabe

\* A step that respects the locks of those who go on.
LEMMA EscribirBien ==
  ASSUME IInv, TypeOK', ReferenciasActivas', UsuarioSigueAlEmpleado', Existen',
         \A u \in Peticiones : (peticion[u])' # Nadie =>
           (peticion[u])' = peticion[u] /\ Respeta(peticion[u].tiene)
  PROVE  IInv'
<1>1. ASSUME NEW u \in Peticiones, NEW r, (peticion[u])' = r, r = peticion[u], r # Nadie, Respeta(r.tiene)
      PROVE  Bien(peticion[u])'
  <2>1. r \in Peticion /\ Forma(r) /\ Cierra(r) /\ Sabe(r)
    BY <1>1, Conocida
  <2>2. Sabe(r)'
    BY <1>1, <2>1, Respetada
  <2>3. Forma(peticion[u])' /\ Cierra(peticion[u])'
    BY <1>1, <2>1 DEF Forma, Cierra, Tendra
  <2>4. Sabe(peticion[u])'
    BY <1>1, <2>2 DEF Sabe
  <2> QED BY <2>3, <2>4 DEF Bien
<1>2. ASSUME NEW u \in Peticiones, (peticion[u] # Nadie)'
      PROVE  Bien(peticion[u])'
  <2>1. (peticion[u])' = peticion[u] /\ peticion[u] # Nadie /\ Respeta(peticion[u].tiene)
    BY <1>2
  <2> QED BY <1>1, <2>1
<1> QED BY <1>2 DEF IInv

\* A request that writes as it ends, and respects the locks it does not have.
LEMMA TerminarBien ==
  ASSUME IInv, NEW t \in Peticiones, peticion[t] # Nadie, Termina(t),
         TypeOK', ReferenciasActivas', UsuarioSigueAlEmpleado', Existen',
         \A T \in SUBSET Recursos : T \cap peticion[t].tiene = {} => Respeta(T)
  PROVE  IInv'
<1>1. peticion \in [Peticiones -> Peticion \cup {Nadie}]
  BY DEF IInv, TypeOK
<1>2. ASSUME NEW u \in Peticiones, (peticion[u])' # Nadie
      PROVE  (peticion[u])' = peticion[u] /\ Respeta(peticion[u].tiene)
  <2>1. u # t /\ (peticion[u])' = peticion[u] /\ peticion[u] # Nadie
    BY <1>1, <1>2 DEF Termina
  <2>2. peticion[u].tiene \cap peticion[t].tiene = {}
    BY <2>1 DEF IInv, TypeOK
  <2>3. peticion[u].tiene \in SUBSET Recursos
    BY <1>1, <2>1 DEF Peticion
  <2> QED BY <2>1, <2>2, <2>3
<1> QED BY <1>2, EscribirBien

\* The requests of a step that ends one.
LEMMA TerminaBien ==
  ASSUME TypeOK, NEW t \in Peticiones, Termina(t)
  PROVE  /\ peticion' \in [Peticiones -> Peticion \cup {Nadie}]
         /\ \A a, b \in Peticiones : a # b /\ peticion'[a] # Nadie /\ peticion'[b] # Nadie =>
              peticion'[a].tiene \cap peticion'[b].tiene = {}
BY DEF TypeOK, Termina

-----------------------------------------------------------------------------
(* Each of the operations *)

\* Whoever is created finds the rows missing, and its person and type locked.
LEMMA DarDeAltaBien ==
  ASSUME IInv, NEW t \in Peticiones, DarDeAlta(t)
  PROVE  IInv'
<1> DEFINE s == peticion[t]
           k == s.clave
           p == s.persona
           x == s.tipo
<1>1. /\ s # Nadie /\ s.que = "ALTA" /\ s.faltan = <<>>
      /\ \A j \in Creadas(k) : vinculo[j] = "NO"
      /\ vinculo' = [j \in Vinculos |-> IF j \in Creadas(k) THEN "ACTIVA" ELSE vinculo[j]]
      /\ persona' = [persona EXCEPT ![p] = "ACTIVA"]
      /\ contacto' = IF k[1] = "SOCIEDAD" THEN [contacto EXCEPT ![k[2]] = p] ELSE contacto
      /\ tipoDe' = IF x # Nadie THEN [tipoDe EXCEPT ![p] = x] ELSE tipoDe
      /\ Termina(t) /\ tipo' = tipo /\ confirmados' = confirmados
  BY DEF DarDeAlta, SinRegistrar, Lista, Haciendo
<1>2. s \in Peticion /\ Forma(s) /\ Cierra(s) /\ Sabe(s)
  BY <1>1, Conocida
<1>3. /\ k \in Vinculos /\ p \in Personas /\ p # Nadie /\ x \in Tipos \cup {Nadie}
      /\ k[1] # "SOCIEDAD" => p = k[2]
      /\ k[1] = "CLIENTE" <=> x # Nadie
  BY <1>1, <1>2, DirectorioSupuestos DEF Forma, Peticion
<1>4. LaPersona(p) \in s.tiene
  <2>1. Tendra(s, LaPersona(p))
    BY <1>1, <1>2, <1>3 DEF Cierra
  <2> QED BY <1>1, <2>1, YaTiene
<1>5. x # Nadie => ElTipo(x) \in s.tiene
  <2>1. x # Nadie => Tendra(s, ElTipo(x))
    BY <1>1, <1>2, <1>3 DEF Cierra
  <2> QED BY <1>1, <2>1, YaTiene
<1>6. x # Nadie => tipo[x]
  BY <1>1, <1>2, <1>3, <1>5 DEF Sabe, CicloTipo
<1> HIDE DEF p, x, k
<1>7. /\ TypeOK /\ ReferenciasActivas /\ UsuarioSigueAlEmpleado /\ Existen
  BY DEF IInv
<1>8. Creadas(k) \subseteq Vinculos /\ k \in Creadas(k)
      /\ \A j \in Creadas(k) : j # k => k[1] = "EMPLEADO" /\ j = <<"USUARIO", k[2]>> /\ j[1] = "USUARIO" /\ j[2] = k[2]
  BY <1>3, CreadasBien
<1>9. \A q \in Personas : persona'[q] = IF q = p THEN "ACTIVA" ELSE persona[q]
  BY <1>1, <1>7 DEF TypeOK
<1>10. \A j \in Vinculos : vinculo'[j] = IF j \in Creadas(k) THEN "ACTIVA" ELSE vinculo[j]
  BY <1>1
<1>11. ASSUME NEW j \in Vinculos, vinculo[j] # "NO"
       PROVE  PersonaDe(j)' = PersonaDe(j) /\ j # k
  <2>1. j # k
    BY <1>1, <1>8, <1>11
  <2>2. j[1] = "SOCIEDAD" /\ k[1] = "SOCIEDAD" => j[2] # k[2]
    BY <1>3, <2>1, <1>11, Filas
  <2>3. j[1] = "SOCIEDAD" => contacto'[j[2]] = contacto[j[2]]
    BY <1>1, <1>7, <1>11, <2>2, Filas DEF TypeOK
  <2> QED BY <2>1, <2>3 DEF PersonaDe
<1>12. ASSUME NEW j \in Creadas(k)
       PROVE  PersonaDe(j)' = p
  <2>1. CASE k[1] = "SOCIEDAD"
    <3>1. j = k /\ k[2] \in Sociedades
      BY <1>3, <1>8, <1>12, <2>1, Filas
    <3> QED BY <1>1, <1>7, <2>1, <3>1 DEF PersonaDe, TypeOK
  <2>2. CASE k[1] # "SOCIEDAD"
    <3>1. j[1] # "SOCIEDAD" /\ j[2] = p
      BY <1>3, <1>8, <1>12, <2>2
    <3> QED BY <3>1 DEF PersonaDe
  <2> QED BY <2>1, <2>2
<1>13. ASSUME NEW q \in Personas, <<"CLIENTE", q>> \in Vinculos
       PROVE  /\ vinculo[<<"CLIENTE", q>>] # "NO" => tipoDe'[q] = tipoDe[q]
              /\ <<"CLIENTE", q>> \in Creadas(k) => q = p /\ x # Nadie /\ tipoDe'[q] = x
  <2>1. <<"CLIENTE", q>> \in Creadas(k) => k = <<"CLIENTE", q>> /\ k[1] = "CLIENTE" /\ k[2] = q
    BY <1>8
  <2>2. <<"CLIENTE", q>> \in Creadas(k) => q = p /\ x # Nadie
    BY <1>3, <2>1
  <2>3. \A y \in Personas : tipoDe'[y] = IF x # Nadie /\ y = p THEN x ELSE tipoDe[y]
    BY <1>1, <1>7 DEF TypeOK
  <2>4. x # Nadie => k = <<"CLIENTE", p>>
    BY <1>3, Filas
  <2>5. vinculo[<<"CLIENTE", q>>] # "NO" => ~(x # Nadie /\ q = p)
    BY <1>1, <1>8, <2>4
  <2> QED BY <2>2, <2>3, <2>5
<1>14. TypeOK'
  <2>1. persona' \in [Personas -> Estados] /\ vinculo' \in [Vinculos -> Estados]
    BY <1>1, <1>7 DEF TypeOK, Estados
  <2>2. contacto' \in [Sociedades -> Personas \cup {Nadie}] /\ tipoDe' \in [Personas -> Tipos \cup {Nadie}]
    BY <1>1, <1>3, <1>7 DEF TypeOK
  <2> QED BY <1>1, <1>7, <2>1, <2>2, TerminaBien DEF TypeOK
<1>15. ReferenciasActivas'
  <2>1. ASSUME NEW j \in Vinculos, vinculo'[j] = "ACTIVA"
        PROVE  persona'[PersonaDe(j)'] = "ACTIVA"
    <3>1. CASE j \in Creadas(k)
      BY <1>3, <1>9, <1>12, <3>1
    <3>2. CASE j \notin Creadas(k)
      <4>1. vinculo[j] = "ACTIVA"
        BY <1>10, <2>1, <3>2
      <4>2. PersonaDe(j) \in Personas /\ persona[PersonaDe(j)] = "ACTIVA" /\ PersonaDe(j)' = PersonaDe(j)
        BY <1>7, <1>11, <4>1 DEF Existen, ReferenciasActivas
      <4> QED BY <1>9, <4>2
    <3> QED BY <3>1, <3>2
  <2>2. ASSUME NEW q \in Personas, <<"CLIENTE", q>> \in Vinculos, vinculo'[<<"CLIENTE", q>>] = "ACTIVA"
        PROVE  tipo'[tipoDe'[q]]
    <3>1. CASE <<"CLIENTE", q>> \in Creadas(k)
      BY <1>1, <1>6, <1>13, <2>2, <3>1
    <3>2. CASE <<"CLIENTE", q>> \notin Creadas(k)
      <4>1. vinculo[<<"CLIENTE", q>>] = "ACTIVA"
        BY <1>10, <2>2, <3>2
      <4> QED BY <1>1, <1>7, <1>13, <2>2, <4>1 DEF ReferenciasActivas
    <3> QED BY <3>1, <3>2
  <2> QED BY <2>1, <2>2 DEF ReferenciasActivas
<1>16. UsuarioSigueAlEmpleado'
  <2>1. ASSUME NEW q \in Personas, Empleado(q) \in Vinculos
        PROVE  /\ vinculo'[Empleado(q)] # "NO" => vinculo'[Usuario(q)] # "NO"
               /\ vinculo'[Empleado(q)] = "BAJA" /\ vinculo'[Usuario(q)] = "ACTIVA" => q \in confirmados'
    <3>1. Usuario(q) \in Vinculos
      BY <2>1, DirectorioSupuestos DEF Empleado, Usuario
    <3>2. Empleado(q) \in Creadas(k) => Usuario(q) \in Creadas(k)
      <4>1. Empleado(q) \in Creadas(k) => k = Empleado(q)
        BY <1>8 DEF Empleado
      <4> QED BY <4>1 DEF Creadas, Empleado
    <3>3. vinculo[Empleado(q)] = "BAJA" => vinculo[Usuario(q)] # "NO"
      BY <1>7, <2>1 DEF UsuarioSigueAlEmpleado
    <3>4. vinculo'[Empleado(q)] = "BAJA" => vinculo[Empleado(q)] = "BAJA"
      BY <1>10, <2>1
    <3>5. vinculo[Empleado(q)] = "BAJA" => vinculo'[Usuario(q)] = vinculo[Usuario(q)]
      BY <1>1, <1>10, <3>1, <3>3
    <3> QED BY <1>1, <1>7, <1>10, <2>1, <3>1, <3>2, <3>4, <3>5 DEF UsuarioSigueAlEmpleado
  <2> QED BY <2>1 DEF UsuarioSigueAlEmpleado, Empleado, Usuario
<1>17. Existen'
  <2>1. ASSUME NEW j \in Vinculos, vinculo'[j] # "NO"
        PROVE  PersonaDe(j)' \in Personas /\ persona'[PersonaDe(j)'] # "NO"
    <3>1. CASE j \in Creadas(k)
      BY <1>3, <1>9, <1>12, <3>1
    <3>2. CASE j \notin Creadas(k)
      <4>1. vinculo[j] # "NO"
        BY <1>10, <2>1, <3>2
      <4>2. PersonaDe(j) \in Personas /\ persona[PersonaDe(j)] # "NO" /\ PersonaDe(j)' = PersonaDe(j)
        BY <1>7, <1>11, <4>1 DEF Existen
      <4> QED BY <1>9, <4>2
    <3> QED BY <3>1, <3>2
  <2>2. ASSUME NEW q \in Personas, <<"CLIENTE", q>> \in Vinculos, vinculo'[<<"CLIENTE", q>>] # "NO"
        PROVE  tipoDe'[q] \in Tipos
    <3>1. CASE <<"CLIENTE", q>> \in Creadas(k)
      BY <1>3, <1>13, <2>2, <3>1
    <3>2. CASE <<"CLIENTE", q>> \notin Creadas(k)
      <4>1. vinculo[<<"CLIENTE", q>>] # "NO"
        BY <1>10, <2>2, <3>2
      <4> QED BY <1>7, <1>13, <2>2, <4>1 DEF Existen
    <3> QED BY <3>1, <3>2
  <2> QED BY <2>1, <2>2 DEF Existen
<1>18. ASSUME NEW T \in SUBSET Recursos, T \cap s.tiene = {}
       PROVE  Respeta(T)
  <2>1. \A q \in Personas : LaPersona(q) \in T => q # p
    BY <1>4, <1>18
  <2>2. \A y \in Tipos : ElTipo(y) \in T => y # x
    BY <1>3, <1>5, <1>18, DirectorioSupuestos
  <2>3. \A q \in Personas : persona'[q] = persona[q] \/ persona'[q] = "ACTIVA"
    BY <1>9
  <2>4. \A j \in Vinculos : vinculo[j] # "NO" => vinculo'[j] = vinculo[j]
    BY <1>1, <1>10
  <2>5. ASSUME NEW j \in Vinculos, vinculo[j] # "NO"
        PROVE  PersonaDe(j)' = PersonaDe(j) /\ (j[1] = "CLIENTE" => tipoDe'[j[2]] = tipoDe[j[2]])
    <3>1. j[1] = "CLIENTE" => j[2] \in Personas /\ j = <<"CLIENTE", j[2]>>
      BY <2>5, Filas
    <3> QED BY <1>11, <1>13, <2>5, <3>1
  <2>6. \A q \in Personas : EmpleadoDeBaja(q)' => EmpleadoDeBaja(q)
    BY <1>10 DEF EmpleadoDeBaja, Empleado
  <2>7. ASSUME NEW q \in Personas, NEW j \in Vinculos, LaPersona(q) \in T, vinculo'[j] = "ACTIVA", PersonaDe(j)' = q
        PROVE  vinculo[j] = "ACTIVA" /\ PersonaDe(j) = q
    <3>1. j \notin Creadas(k)
      BY <1>12, <2>1, <2>7
    <3>2. vinculo[j] = "ACTIVA"
      BY <1>10, <2>7, <3>1
    <3> QED BY <1>11, <2>7, <3>2
  <2>8. ASSUME NEW y \in Tipos, NEW q \in Personas, ElTipo(y) \in T, <<"CLIENTE", q>> \in Vinculos,
               vinculo'[<<"CLIENTE", q>>] = "ACTIVA", tipoDe'[q] = y
        PROVE  vinculo[<<"CLIENTE", q>>] = "ACTIVA" /\ tipoDe[q] = y
    <3>1. <<"CLIENTE", q>> \notin Creadas(k)
      BY <1>13, <2>2, <2>8
    <3>2. vinculo[<<"CLIENTE", q>>] = "ACTIVA"
      BY <1>10, <2>8, <3>1
    <3> QED BY <1>13, <2>8, <3>2
  <2>9. \A q \in Personas : persona[q] # "NO" => persona'[q] # "NO"
    BY <2>3
  <2>10. \A q \in Personas : LaPersona(q) \in T => persona'[q] = persona[q] \/ persona'[q] # "BAJA"
    BY <2>3
  <2> QED BY <1>1, <2>4, <2>5, <2>6, <2>7, <2>8, <2>9, <2>10 DEF Respeta
<1> QED BY <1>1, <1>14, <1>15, <1>16, <1>17, <1>18, TerminarBien

\* Whoever is reactivated has its person, and its type, locked and active.
LEMMA ReactivarBien ==
  ASSUME IInv, NEW t \in Peticiones, Reactivar(t)
  PROVE  IInv'
<1> DEFINE s == peticion[t]
           k == s.clave
           p == s.persona
<1>1. /\ s # Nadie /\ s.que = "REACTIVA" /\ s.faltan = <<>> /\ s.visto # "NO"
      /\ vinculo' = [vinculo EXCEPT ![k] = "ACTIVA"]
      /\ confirmados' = IF k[1] = "USUARIO" /\ s.visto = "CONFIRMADO" THEN confirmados \cup {p} ELSE confirmados
      /\ Termina(t) /\ UNCHANGED <<persona, tipo, contacto, tipoDe>>
  BY DEF Reactivar, Lista, Haciendo
<1>2. s \in Peticion /\ Forma(s) /\ Cierra(s) /\ Sabe(s)
  BY <1>1, Conocida
<1>3. TypeOK /\ ReferenciasActivas /\ UsuarioSigueAlEmpleado /\ Existen
  BY DEF IInv
<1>4. k \in Vinculos /\ p # Nadie /\ vinculo[k] # "NO" /\ p = PersonaDe(k)
  BY <1>1, <1>2 DEF Forma, Sabe
<1>5. p \in Personas /\ persona[p] # "NO"
  BY <1>3, <1>4 DEF Existen
<1>6. LaPersona(p) \in s.tiene
  <2>1. Tendra(s, LaPersona(p))
    BY <1>1, <1>2, <1>4 DEF Cierra
  <2> QED BY <1>1, <2>1, YaTiene
<1>7. persona[p] = "ACTIVA"
  BY <1>1, <1>2, <1>3, <1>5, <1>6 DEF Sabe, TypeOK, Estados, Ciclo
<1>8. k[1] = "CLIENTE" => k = <<"CLIENTE", p>> /\ tipoDe[p] \in Tipos /\ ElTipo(tipoDe[p]) \in s.tiene /\ tipo[tipoDe[p]]
  <2> SUFFICES ASSUME k[1] = "CLIENTE"
               PROVE  k = <<"CLIENTE", p>> /\ tipoDe[p] \in Tipos /\ ElTipo(tipoDe[p]) \in s.tiene /\ tipo[tipoDe[p]]
    OBVIOUS
  <2>1. k = <<"CLIENTE", p>>
    BY <1>4, Filas DEF PersonaDe
  <2>2. tipoDe[p] \in Tipos /\ tipoDe[p] # Nadie
    BY <1>3, <1>4, <1>5, <2>1, DirectorioSupuestos DEF Existen
  <2>3. s.tipo = tipoDe[p]
    BY <1>1, <1>2, <1>4 DEF Sabe
  <2>4. Tendra(s, ElTipo(tipoDe[p]))
    BY <1>1, <1>2, <2>2, <2>3 DEF Cierra
  <2>5. ElTipo(tipoDe[p]) \in s.tiene
    BY <1>1, <2>4, YaTiene
  <2> QED BY <1>1, <1>2, <2>1, <2>2, <2>5 DEF Sabe, CicloTipo
<1>9. k[1] = "USUARIO" => p = k[2] /\ (s.visto = "SI" => ~EmpleadoDeBaja(p))
  BY <1>1, <1>2, <1>4 DEF Sabe, PersonaDe
<1>10. s.visto \in {"SI", "CONFIRMADO"}
  BY <1>1, <1>2 DEF Peticion
<1>11. \A j \in Vinculos : vinculo'[j] = IF j = k THEN "ACTIVA" ELSE vinculo[j]
  BY <1>1, <1>3 DEF TypeOK
<1>12. \A j : PersonaDe(j)' = PersonaDe(j)
  BY <1>1 DEF PersonaDe
<1> HIDE DEF p, k
<1>13. TypeOK'
  <2>1. vinculo' \in [Vinculos -> Estados] /\ confirmados' \subseteq Personas
    BY <1>1, <1>3, <1>5 DEF TypeOK, Estados
  <2> QED BY <1>1, <1>3, <2>1, TerminaBien DEF TypeOK
<1>14. ReferenciasActivas'
  <2>1. \A j \in Vinculos : vinculo'[j] = "ACTIVA" => persona'[PersonaDe(j)'] = "ACTIVA"
    BY <1>1, <1>3, <1>4, <1>7, <1>11, <1>12 DEF ReferenciasActivas
  <2>2. \A q \in Personas : <<"CLIENTE", q>> \in Vinculos /\ vinculo'[<<"CLIENTE", q>>] = "ACTIVA" => tipo'[tipoDe'[q]]
    BY <1>1, <1>3, <1>8, <1>11 DEF ReferenciasActivas
  <2> QED BY <2>1, <2>2 DEF ReferenciasActivas
<1>15. UsuarioSigueAlEmpleado'
  <2>1. ASSUME NEW q \in Personas, Empleado(q) \in Vinculos
        PROVE  /\ vinculo'[Empleado(q)] # "NO" => vinculo'[Usuario(q)] # "NO"
               /\ vinculo'[Empleado(q)] = "BAJA" /\ vinculo'[Usuario(q)] = "ACTIVA" => q \in confirmados'
    <3>1. Usuario(q) \in Vinculos
      BY <2>1, DirectorioSupuestos DEF Empleado, Usuario
    <3>2. vinculo'[Empleado(q)] # "NO" => vinculo'[Usuario(q)] # "NO"
      BY <1>3, <1>4, <1>11, <2>1, <3>1 DEF UsuarioSigueAlEmpleado
    <3>3. ASSUME vinculo'[Empleado(q)] = "BAJA", vinculo'[Usuario(q)] = "ACTIVA"
          PROVE  q \in confirmados'
      <4>1. vinculo[Empleado(q)] = "BAJA" /\ EmpleadoDeBaja(q)
        BY <1>11, <2>1, <3>3 DEF EmpleadoDeBaja
      <4>2. CASE k = Usuario(q)
        <5>1. k[1] = "USUARIO" /\ k[2] = q
          BY <4>2 DEF Usuario
        <5> QED BY <1>1, <1>9, <1>10, <4>1, <5>1
      <4>3. CASE k # Usuario(q)
        BY <1>1, <1>3, <1>11, <2>1, <3>1, <3>3, <4>1, <4>3 DEF UsuarioSigueAlEmpleado
      <4> QED BY <4>2, <4>3
    <3> QED BY <3>2, <3>3
  <2> QED BY <2>1 DEF UsuarioSigueAlEmpleado, Empleado, Usuario
<1>16. Existen'
  <2>1. \A j \in Vinculos : vinculo'[j] # "NO" => vinculo[j] # "NO"
    BY <1>4, <1>11
  <2> QED BY <1>1, <1>3, <1>12, <2>1 DEF Existen
<1>17. ASSUME NEW T \in SUBSET Recursos, T \cap s.tiene = {}
       PROVE  Respeta(T)
  <2>1. LaPersona(p) \notin T /\ (k[1] = "CLIENTE" => ElTipo(tipoDe[p]) \notin T)
    BY <1>6, <1>8, <1>17
  <2>2. \A q \in Personas : EmpleadoDeBaja(q)' => EmpleadoDeBaja(q)
    BY <1>11 DEF EmpleadoDeBaja, Empleado
  <2>3. \A q \in Personas, j \in Vinculos : LaPersona(q) \in T /\ vinculo'[j] = "ACTIVA" /\ PersonaDe(j)' = q =>
          vinculo[j] = "ACTIVA" /\ PersonaDe(j) = q
    BY <1>4, <1>11, <1>12, <2>1
  <2>4. \A y \in Tipos, q \in Personas : ElTipo(y) \in T /\ <<"CLIENTE", q>> \in Vinculos
          /\ vinculo'[<<"CLIENTE", q>>] = "ACTIVA" /\ tipoDe'[q] = y => vinculo[<<"CLIENTE", q>>] = "ACTIVA" /\ tipoDe[q] = y
    BY <1>1, <1>8, <1>11, <2>1
  <2>5. \A j \in Vinculos : vinculo[j] # "NO" => vinculo'[j] # "NO"
    BY <1>11
  <2> QED BY <1>1, <1>12, <2>2, <2>3, <2>4, <2>5 DEF Respeta
<1> QED BY <1>1, <1>13, <1>14, <1>15, <1>16, <1>17, TerminarBien

\* What is deleted has its row locked, and an employee that of its user.
LEMMA DarDeBajaBien ==
  ASSUME IInv, NEW t \in Peticiones, DarDeBaja(t)
  PROVE  IInv'
<1> DEFINE s == peticion[t]
           k == s.clave
<1>1. /\ s # Nadie /\ s.que = "BAJA" /\ s.faltan = <<>>
      /\ vinculo' = [j \in Vinculos |-> IF j \in Creadas(k) THEN "BAJA" ELSE vinculo[j]]
      /\ confirmados' = IF k[1] = "EMPLEADO" THEN confirmados \ {k[2]} ELSE confirmados
      /\ Termina(t) /\ UNCHANGED <<persona, tipo, contacto, tipoDe>>
  BY DEF DarDeBaja, Lista, Haciendo
<1>2. s \in Peticion /\ Forma(s) /\ Cierra(s) /\ Sabe(s)
  BY <1>1, Conocida
<1>3. TypeOK /\ ReferenciasActivas /\ UsuarioSigueAlEmpleado /\ Existen
  BY DEF IInv
<1>4. k \in Vinculos /\ vinculo[k] # "NO"
  BY <1>1, <1>2 DEF Forma, Sabe
<1>5. \A j \in Creadas(k) : j \in s.tiene
  <2>1. \A j \in Creadas(k) : Tendra(s, j)
    BY <1>1, <1>2 DEF Cierra
  <2> QED BY <1>1, <2>1, YaTiene
<1>6. Creadas(k) \subseteq Vinculos /\ k \in Creadas(k)
      /\ \A j \in Creadas(k) : j # k => k[1] = "EMPLEADO" /\ j = <<"USUARIO", k[2]>> /\ j[1] = "USUARIO" /\ j[2] = k[2]
  BY <1>4, CreadasBien
<1> HIDE DEF k
<1>7. \A j \in Vinculos : vinculo'[j] = IF j \in Creadas(k) THEN "BAJA" ELSE vinculo[j]
  BY <1>1
<1>8. \A j : PersonaDe(j)' = PersonaDe(j)
  BY <1>1 DEF PersonaDe
<1>9. \A q \in Personas : Empleado(q) \in Creadas(k) => k = Empleado(q) /\ k[1] = "EMPLEADO" /\ k[2] = q /\ Usuario(q) \in Creadas(k)
  <2>1. \A q \in Personas : Empleado(q) \in Creadas(k) => k = Empleado(q)
    BY <1>6 DEF Empleado
  <2> QED BY <2>1 DEF Empleado, Creadas
<1>10. \A j \in Vinculos : vinculo'[j] # "NO" => vinculo[j] # "NO"
  <2>1. ASSUME NEW j \in Creadas(k), j # k
        PROVE  vinculo[j] # "NO"
    <3>1. k[1] = "EMPLEADO" /\ j = Usuario(k[2])
      BY <1>6, <2>1 DEF Usuario
    <3>2. k[2] \in Personas /\ k = Empleado(k[2])
      BY <1>4, <3>1, Filas DEF Empleado
    <3> QED BY <1>3, <1>4, <3>1, <3>2 DEF UsuarioSigueAlEmpleado
  <2> QED BY <1>4, <1>7, <2>1
<1>11. TypeOK'
  <2>1. vinculo' \in [Vinculos -> Estados] /\ confirmados' \subseteq Personas
    BY <1>1, <1>3 DEF TypeOK, Estados
  <2> QED BY <1>1, <1>3, <2>1, TerminaBien DEF TypeOK
<1>12. ReferenciasActivas'
  BY <1>1, <1>3, <1>7, <1>8 DEF ReferenciasActivas
<1>13. UsuarioSigueAlEmpleado'
  <2>1. ASSUME NEW q \in Personas, Empleado(q) \in Vinculos
        PROVE  /\ vinculo'[Empleado(q)] # "NO" => vinculo'[Usuario(q)] # "NO"
               /\ vinculo'[Empleado(q)] = "BAJA" /\ vinculo'[Usuario(q)] = "ACTIVA" => q \in confirmados'
    <3>1. Usuario(q) \in Vinculos
      BY <2>1, DirectorioSupuestos DEF Empleado, Usuario
    <3>2. vinculo'[Empleado(q)] # "NO" => vinculo'[Usuario(q)] # "NO"
      BY <1>3, <1>7, <1>10, <2>1, <3>1 DEF UsuarioSigueAlEmpleado
    <3>3. ASSUME vinculo'[Empleado(q)] = "BAJA", vinculo'[Usuario(q)] = "ACTIVA"
          PROVE  q \in confirmados'
      <4>1. Usuario(q) \notin Creadas(k) /\ vinculo[Usuario(q)] = "ACTIVA"
        BY <1>7, <3>1, <3>3
      <4>2. Empleado(q) \notin Creadas(k) /\ vinculo[Empleado(q)] = "BAJA"
        BY <1>7, <1>9, <2>1, <3>3, <4>1
      <4>3. q \in confirmados
        BY <1>3, <2>1, <4>1, <4>2 DEF UsuarioSigueAlEmpleado
      <4>4. ~(k[1] = "EMPLEADO" /\ k[2] = q)
        BY <1>4, <1>6, <4>2, Filas DEF Empleado
      <4> QED BY <1>1, <4>3, <4>4
    <3> QED BY <3>2, <3>3
  <2> QED BY <2>1 DEF UsuarioSigueAlEmpleado, Empleado, Usuario
<1>14. Existen'
  BY <1>1, <1>3, <1>8, <1>10 DEF Existen
<1>15. ASSUME NEW T \in SUBSET Recursos, T \cap s.tiene = {}
       PROVE  Respeta(T)
  <2>1. ASSUME NEW q \in Personas, Usuario(q) \in T, EmpleadoDeBaja(q)'
        PROVE  EmpleadoDeBaja(q)
    <3>1. Usuario(q) \notin Creadas(k)
      BY <1>5, <1>15, <2>1
    <3>2. Empleado(q) \notin Creadas(k)
      BY <1>9, <3>1
    <3>3. Empleado(q) \in Vinculos /\ vinculo'[Empleado(q)] = "BAJA"
      BY <2>1 DEF EmpleadoDeBaja, Empleado
    <3> QED BY <1>7, <3>2, <3>3 DEF EmpleadoDeBaja
  <2>2. \A j \in Vinculos : vinculo[j] # "NO" => vinculo'[j] # "NO"
    BY <1>7
  <2>3. \A j \in Vinculos : vinculo'[j] = "ACTIVA" => vinculo[j] = "ACTIVA"
    BY <1>7
  <2> QED BY <1>1, <1>8, <2>1, <2>2, <2>3 DEF Respeta
<1> QED BY <1>1, <1>11, <1>12, <1>13, <1>14, <1>15, TerminarBien

\* The new contact of a company is an active person, locked with the company.
LEMMA CambiarContactoBien ==
  ASSUME IInv, NEW t \in Peticiones, CambiarContacto(t)
  PROVE  IInv'
<1> DEFINE s == peticion[t]
           k == s.clave
           p == s.persona
<1>1. /\ s # Nadie /\ s.que = "CONTACTO" /\ s.faltan = <<>>
      /\ persona' = [persona EXCEPT ![p] = "ACTIVA"] /\ contacto' = [contacto EXCEPT ![k[2]] = p]
      /\ Termina(t) /\ UNCHANGED <<tipo, vinculo, tipoDe, confirmados>>
  BY DEF CambiarContacto, Lista, Haciendo
<1>2. s \in Peticion /\ Forma(s) /\ Cierra(s) /\ Sabe(s)
  BY <1>1, Conocida
<1>3. TypeOK /\ ReferenciasActivas /\ UsuarioSigueAlEmpleado /\ Existen
  BY DEF IInv
<1>4. k \in Vinculos /\ k[1] = "SOCIEDAD" /\ vinculo[k] # "NO" /\ p \in Personas /\ p # Nadie
  BY <1>1, <1>2, DirectorioSupuestos DEF Forma, Sabe
<1>5. k[2] \in Sociedades /\ \A j \in Vinculos : j # k /\ j[1] = "SOCIEDAD" => j[2] \in Sociedades /\ j[2] # k[2]
  BY <1>4, Filas
<1>6. LaPersona(p) \in s.tiene /\ k \in s.tiene
  <2>1. Tendra(s, LaPersona(p)) /\ Tendra(s, k)
    BY <1>1, <1>2, <1>4 DEF Cierra
  <2> QED BY <1>1, <2>1, YaTiene
<1> HIDE DEF p, k
<1>7. \A q \in Personas : persona'[q] = IF q = p THEN "ACTIVA" ELSE persona[q]
  BY <1>1, <1>3 DEF TypeOK
<1>8. \A j \in Vinculos : j = k => PersonaDe(j)' = p
  BY <1>1, <1>3, <1>4, <1>5 DEF PersonaDe, TypeOK
<1>9. \A j \in Vinculos : j # k => PersonaDe(j)' = PersonaDe(j)
  BY <1>1, <1>3, <1>5 DEF PersonaDe, TypeOK
<1>10. TypeOK'
  <2>1. persona' \in [Personas -> Estados] /\ contacto' \in [Sociedades -> Personas \cup {Nadie}]
    BY <1>1, <1>3, <1>4 DEF TypeOK, Estados
  <2> QED BY <1>1, <1>3, <2>1, TerminaBien DEF TypeOK
<1>11. ReferenciasActivas'
  <2>1. ASSUME NEW j \in Vinculos, vinculo'[j] = "ACTIVA"
        PROVE  persona'[PersonaDe(j)'] = "ACTIVA"
    <3>1. CASE j = k
      BY <1>4, <1>7, <1>8, <3>1
    <3>2. CASE j # k
      <4>1. PersonaDe(j) \in Personas /\ persona[PersonaDe(j)] = "ACTIVA"
        BY <1>1, <1>3, <2>1 DEF Existen, ReferenciasActivas
      <4> QED BY <1>7, <1>9, <3>2, <4>1
    <3> QED BY <3>1, <3>2
  <2> QED BY <1>1, <1>3, <2>1 DEF ReferenciasActivas
<1>12. UsuarioSigueAlEmpleado'
  BY <1>1, <1>3 DEF UsuarioSigueAlEmpleado
<1>13. Existen'
  <2>1. ASSUME NEW j \in Vinculos, vinculo'[j] # "NO"
        PROVE  PersonaDe(j)' \in Personas /\ persona'[PersonaDe(j)'] # "NO"
    <3>1. CASE j = k
      BY <1>4, <1>7, <1>8, <3>1
    <3>2. CASE j # k
      <4>1. PersonaDe(j) \in Personas /\ persona[PersonaDe(j)] # "NO"
        BY <1>1, <1>3, <2>1 DEF Existen
      <4> QED BY <1>7, <1>9, <3>2, <4>1
    <3> QED BY <3>1, <3>2
  <2> QED BY <1>1, <1>3, <2>1 DEF Existen
<1>14. ASSUME NEW T \in SUBSET Recursos, T \cap s.tiene = {}
       PROVE  Respeta(T)
  <2>1. LaPersona(p) \notin T /\ k \notin T
    BY <1>6, <1>14
  <2>2. \A q \in Personas : EmpleadoDeBaja(q)' => EmpleadoDeBaja(q)
    BY <1>1 DEF EmpleadoDeBaja
  <2>3. \A j \in Vinculos : j \in T => PersonaDe(j)' = PersonaDe(j)
    BY <1>9, <2>1
  <2>4. ASSUME NEW q \in Personas, NEW j \in Vinculos, LaPersona(q) \in T, vinculo'[j] = "ACTIVA", PersonaDe(j)' = q
        PROVE  vinculo[j] = "ACTIVA" /\ PersonaDe(j) = q
    <3>1. j # k
      BY <1>8, <2>1, <2>4
    <3> QED BY <1>1, <1>9, <2>4, <3>1
  <2>5. \A q \in Personas : persona'[q] = persona[q] \/ persona'[q] = "ACTIVA"
    BY <1>7
  <2>6. \A q \in Personas : (persona[q] # "NO" => persona'[q] # "NO") /\ (persona'[q] = persona[q] \/ persona'[q] # "BAJA")
    BY <2>5
  <2> QED BY <1>1, <2>2, <2>3, <2>4, <2>6 DEF Respeta
<1> QED BY <1>1, <1>10, <1>11, <1>12, <1>13, <1>14, TerminarBien

\* The new type of a client is active, and locked with the client.
LEMMA CambiarTipoBien ==
  ASSUME IInv, NEW t \in Peticiones, CambiarTipo(t)
  PROVE  IInv'
<1> DEFINE s == peticion[t]
           p == s.persona
           x == s.tipo
<1>1. /\ s # Nadie /\ s.que = "TIPO_CLIENTE" /\ s.faltan = <<>>
      /\ tipoDe' = [tipoDe EXCEPT ![p] = x]
      /\ Termina(t) /\ UNCHANGED <<persona, tipo, vinculo, contacto, confirmados>>
  BY DEF CambiarTipo, Lista, Haciendo
<1>2. s \in Peticion /\ Forma(s) /\ Cierra(s) /\ Sabe(s)
  BY <1>1, Conocida
<1>3. TypeOK /\ ReferenciasActivas /\ UsuarioSigueAlEmpleado /\ Existen
  BY DEF IInv
<1>4. p \in Personas /\ x \in Tipos /\ x # Nadie /\ s.clave = <<"CLIENTE", p>>
  BY <1>1, <1>2, DirectorioSupuestos DEF Forma
<1>5. ElTipo(x) \in s.tiene /\ <<"CLIENTE", p>> \in s.tiene
  <2>1. Tendra(s, ElTipo(x)) /\ Tendra(s, <<"CLIENTE", p>>)
    BY <1>1, <1>2, <1>4 DEF Cierra
  <2> QED BY <1>1, <2>1, YaTiene
<1>6. tipo[x]
  BY <1>1, <1>2, <1>4, <1>5 DEF Sabe, CicloTipo
<1> HIDE DEF p, x
<1>7. \A q \in Personas : tipoDe'[q] = IF q = p THEN x ELSE tipoDe[q]
  BY <1>1, <1>3 DEF TypeOK
<1>8. \A j : PersonaDe(j)' = PersonaDe(j)
  BY <1>1 DEF PersonaDe
<1>9. TypeOK'
  <2>1. tipoDe' \in [Personas -> Tipos \cup {Nadie}]
    BY <1>1, <1>3, <1>4 DEF TypeOK
  <2> QED BY <1>1, <1>3, <2>1, TerminaBien DEF TypeOK
<1>10. ReferenciasActivas'
  BY <1>1, <1>3, <1>6, <1>7, <1>8 DEF ReferenciasActivas
<1>11. UsuarioSigueAlEmpleado'
  BY <1>1, <1>3 DEF UsuarioSigueAlEmpleado
<1>12. Existen'
  BY <1>1, <1>3, <1>4, <1>7, <1>8 DEF Existen
<1>13. ASSUME NEW T \in SUBSET Recursos, T \cap s.tiene = {}
       PROVE  Respeta(T)
  <2>1. ElTipo(x) \notin T /\ <<"CLIENTE", p>> \notin T
    BY <1>5, <1>13
  <2>2. \A q \in Personas : EmpleadoDeBaja(q)' => EmpleadoDeBaja(q)
    BY <1>1 DEF EmpleadoDeBaja
  <2>3. ASSUME NEW j \in Vinculos, j \in T, j[1] = "CLIENTE"
        PROVE  tipoDe'[j[2]] = tipoDe[j[2]]
    <3>1. j[2] \in Personas /\ j[2] # p
      BY <2>1, <2>3, Filas
    <3> QED BY <1>7, <3>1
  <2>4. \A y \in Tipos, q \in Personas : ElTipo(y) \in T /\ <<"CLIENTE", q>> \in Vinculos
          /\ vinculo'[<<"CLIENTE", q>>] = "ACTIVA" /\ tipoDe'[q] = y => vinculo[<<"CLIENTE", q>>] = "ACTIVA" /\ tipoDe[q] = y
    BY <1>1, <1>7, <2>1
  <2> QED BY <1>1, <1>8, <2>2, <2>3, <2>4 DEF Respeta
<1> QED BY <1>1, <1>9, <1>10, <1>11, <1>12, <1>13, TerminarBien

\* A person is deleted by who has it locked and found it nothing.
LEMMA DarDeBajaPersonaBien ==
  ASSUME IInv, NEW t \in Peticiones, DarDeBajaPersona(t)
  PROVE  IInv'
<1> DEFINE s == peticion[t]
           p == s.persona
<1>1. /\ s # Nadie /\ s.que = "BAJA_PERSONA" /\ s.faltan = <<>> /\ s.visto # "NO"
      /\ persona' = [persona EXCEPT ![p] = "BAJA"]
      /\ Termina(t) /\ UNCHANGED <<tipo, vinculo, contacto, tipoDe, confirmados>>
  BY DEF DarDeBajaPersona, Lista, Haciendo
<1>2. s \in Peticion /\ Forma(s) /\ Cierra(s) /\ Sabe(s)
  BY <1>1, Conocida
<1>3. TypeOK /\ ReferenciasActivas /\ UsuarioSigueAlEmpleado /\ Existen
  BY DEF IInv
<1>4. p \in Personas /\ p # Nadie /\ SinVinculos(p)
  BY <1>1, <1>2, DirectorioSupuestos DEF Forma, Sabe, Ciclo
<1>5. LaPersona(p) \in s.tiene
  <2>1. Tendra(s, LaPersona(p))
    BY <1>1, <1>2, <1>4 DEF Cierra, Ciclo
  <2> QED BY <1>1, <2>1, YaTiene
<1> HIDE DEF p
<1>6. \A q \in Personas : persona'[q] = IF q = p THEN "BAJA" ELSE persona[q]
  BY <1>1, <1>3 DEF TypeOK
<1>7. \A j : PersonaDe(j)' = PersonaDe(j)
  BY <1>1 DEF PersonaDe
<1>8. TypeOK'
  <2>1. persona' \in [Personas -> Estados]
    BY <1>1, <1>3 DEF TypeOK, Estados
  <2> QED BY <1>1, <1>3, <2>1, TerminaBien DEF TypeOK
<1>9. ReferenciasActivas'
  <2>1. ASSUME NEW j \in Vinculos, vinculo[j] = "ACTIVA"
        PROVE  persona'[PersonaDe(j)] = "ACTIVA"
    <3>1. PersonaDe(j) \in Personas /\ PersonaDe(j) # p /\ persona[PersonaDe(j)] = "ACTIVA"
      BY <1>3, <1>4, <2>1 DEF SinVinculos, Existen, ReferenciasActivas
    <3> QED BY <1>6, <3>1
  <2> QED BY <1>1, <1>3, <1>7, <2>1 DEF ReferenciasActivas
<1>10. UsuarioSigueAlEmpleado'
  BY <1>1, <1>3 DEF UsuarioSigueAlEmpleado
<1>11. \A q \in Personas : persona[q] # "NO" => persona'[q] # "NO"
  BY <1>6
<1>12. Existen'
  BY <1>1, <1>3, <1>7, <1>11 DEF Existen
<1>13. ASSUME NEW T \in SUBSET Recursos, T \cap s.tiene = {}
       PROVE  Respeta(T)
  <2>1. \A q \in Personas : LaPersona(q) \in T => persona'[q] = persona[q]
    BY <1>5, <1>6, <1>13
  <2>2. \A q \in Personas : EmpleadoDeBaja(q)' => EmpleadoDeBaja(q)
    BY <1>1 DEF EmpleadoDeBaja
  <2> QED BY <1>1, <1>7, <1>11, <2>1, <2>2 DEF Respeta
<1> QED BY <1>1, <1>8, <1>9, <1>10, <1>12, <1>13, TerminarBien

\* A person that becomes active takes nothing from anybody.
LEMMA PersonaActivaBien ==
  ASSUME IInv, NEW p \in Personas, persona' = [persona EXCEPT ![p] = "ACTIVA"],
         UNCHANGED <<tipo, vinculo, contacto, tipoDe, confirmados>>
  PROVE  /\ persona' \in [Personas -> Estados]
         /\ ReferenciasActivas' /\ UsuarioSigueAlEmpleado' /\ Existen'
         /\ \A T \in SUBSET Recursos : Respeta(T)
<1>1. TypeOK /\ ReferenciasActivas /\ UsuarioSigueAlEmpleado /\ Existen
  BY DEF IInv
<1>2. \A q \in Personas : persona'[q] = IF q = p THEN "ACTIVA" ELSE persona[q]
  BY <1>1 DEF TypeOK
<1>3. \A j : PersonaDe(j)' = PersonaDe(j)
  BY DEF PersonaDe
<1>4. \A q \in Personas : /\ persona[q] # "NO" => persona'[q] # "NO"
                          /\ persona[q] = "ACTIVA" => persona'[q] = "ACTIVA"
                          /\ persona'[q] = persona[q] \/ persona'[q] # "BAJA"
  BY <1>2
<1>5. persona' \in [Personas -> Estados]
  BY <1>1 DEF TypeOK, Estados
<1>6. ReferenciasActivas'
  <2>1. \A j \in Vinculos : vinculo[j] = "ACTIVA" => PersonaDe(j) \in Personas
    BY <1>1 DEF Existen
  <2> QED BY <1>1, <1>3, <1>4, <2>1 DEF ReferenciasActivas
<1>7. UsuarioSigueAlEmpleado'
  BY <1>1 DEF UsuarioSigueAlEmpleado
<1>8. Existen'
  BY <1>1, <1>3, <1>4 DEF Existen
<1>9. ASSUME NEW T \in SUBSET Recursos
      PROVE  Respeta(T)
  <2>1. \A q \in Personas : EmpleadoDeBaja(q)' => EmpleadoDeBaja(q)
    BY DEF EmpleadoDeBaja
  <2> QED BY <1>3, <1>4, <2>1 DEF Respeta
<1> QED BY <1>5, <1>6, <1>7, <1>8, <1>9

\* A person is reactivated.
LEMMA ReactivarPersonaBien ==
  ASSUME IInv, NEW t \in Peticiones, ReactivarPersona(t)
  PROVE  IInv'
<1>1. /\ peticion[t] # Nadie /\ peticion[t].que = "REACTIVA_PERSONA"
      /\ persona' = [persona EXCEPT ![peticion[t].persona] = "ACTIVA"]
      /\ Termina(t) /\ UNCHANGED <<tipo, vinculo, contacto, tipoDe, confirmados>>
  BY DEF ReactivarPersona, Lista, Haciendo
<1>2. peticion[t].persona \in Personas
  BY <1>1, Conocida DEF Forma, Ciclo
<1>3. /\ persona' \in [Personas -> Estados]
      /\ ReferenciasActivas' /\ UsuarioSigueAlEmpleado' /\ Existen'
      /\ \A T \in SUBSET Recursos : Respeta(T)
  BY <1>1, <1>2, PersonaActivaBien
<1>4. TypeOK'
  BY <1>1, <1>3, TerminaBien DEF IInv, TypeOK
<1> QED BY <1>1, <1>3, <1>4, TerminarBien

\* A person is created, by somebody who does nothing else.
LEMMA CrearPersonaBien ==
  ASSUME IInv, NEW p \in Personas, CrearPersona(p)
  PROVE  IInv'
<1>1. /\ persona' = [persona EXCEPT ![p] = "ACTIVA"]
      /\ UNCHANGED <<tipo, vinculo, contacto, tipoDe, peticion, confirmados>>
  BY DEF CrearPersona
<1>2. /\ persona' \in [Personas -> Estados]
      /\ ReferenciasActivas' /\ UsuarioSigueAlEmpleado' /\ Existen'
      /\ \A T \in SUBSET Recursos : Respeta(T)
  BY <1>1, PersonaActivaBien
<1>3. TypeOK'
  BY <1>1, <1>2 DEF IInv, TypeOK
<1>4. \A u \in Peticiones : (peticion[u])' # Nadie =>
        (peticion[u])' = peticion[u] /\ Respeta(peticion[u].tiene)
  <2>1. \A u \in Peticiones : peticion[u] # Nadie => peticion[u].tiene \in SUBSET Recursos
    BY DEF IInv, TypeOK, Peticion
  <2> QED BY <1>1, <1>2, <2>1
<1> QED BY <1>2, <1>3, <1>4, EscribirBien

\* A type is deleted by who has it locked and found no client of it.
LEMMA CambiarEstadoTipoBien ==
  ASSUME IInv, NEW t \in Peticiones, CambiarEstadoTipo(t)
  PROVE  IInv'
<1> DEFINE s == peticion[t]
           x == s.tipo
<1>1. /\ s # Nadie /\ s.que \in CicloTipo /\ s.faltan = <<>>
      /\ s.que = "BAJA_TIPO" => s.visto # "NO"
      /\ tipo' = [tipo EXCEPT ![x] = s.que = "REACTIVA_TIPO"]
      /\ Termina(t) /\ UNCHANGED <<persona, vinculo, contacto, tipoDe, confirmados>>
  BY DEF CambiarEstadoTipo, Lista, Haciendo, CicloTipo
<1>2. s \in Peticion /\ Forma(s) /\ Cierra(s) /\ Sabe(s)
  BY <1>1, Conocida
<1>3. TypeOK /\ ReferenciasActivas /\ UsuarioSigueAlEmpleado /\ Existen
  BY DEF IInv
<1>4. x \in Tipos /\ x # Nadie /\ (s.que = "BAJA_TIPO" => SinClientes(x))
  BY <1>1, <1>2, DirectorioSupuestos DEF Forma, Sabe
<1>5. ElTipo(x) \in s.tiene
  <2>1. Tendra(s, ElTipo(x))
    BY <1>1, <1>2, <1>4 DEF Cierra
  <2> QED BY <1>1, <2>1, YaTiene
<1>6. s.que = "BAJA_TIPO" \/ s.que = "REACTIVA_TIPO"
  BY <1>1 DEF CicloTipo
<1>7. \A y \in Tipos : y # x => tipo'[y] = tipo[y]
  BY <1>1, <1>3 DEF TypeOK
<1>8. s.que = "REACTIVA_TIPO" => tipo'[x]
  BY <1>1, <1>3, <1>4 DEF TypeOK
<1> HIDE DEF x
<1>9. \A j : PersonaDe(j)' = PersonaDe(j)
  BY <1>1 DEF PersonaDe
<1>10. TypeOK'
  <2>1. tipo' \in [Tipos -> BOOLEAN]
    <3>1. (s.que = "REACTIVA_TIPO") \in BOOLEAN
      OBVIOUS
    <3> QED BY <1>1, <1>3, <3>1 DEF TypeOK
  <2> QED BY <1>1, <1>3, <2>1, TerminaBien DEF TypeOK
<1>11. ReferenciasActivas'
  <2>1. ASSUME NEW q \in Personas, <<"CLIENTE", q>> \in Vinculos, vinculo[<<"CLIENTE", q>>] = "ACTIVA"
        PROVE  tipo'[tipoDe[q]]
    <3>1. tipoDe[q] \in Tipos /\ tipo[tipoDe[q]]
      BY <1>3, <2>1 DEF Existen, ReferenciasActivas
    <3>2. CASE tipoDe[q] = x
      <4>1. s.que # "BAJA_TIPO"
        BY <1>4, <2>1, <3>2 DEF SinClientes
      <4> QED BY <1>6, <1>8, <3>2, <4>1
    <3> QED BY <1>7, <3>1, <3>2
  <2> QED BY <1>1, <1>3, <1>9, <2>1 DEF ReferenciasActivas
<1>12. UsuarioSigueAlEmpleado'
  BY <1>1, <1>3 DEF UsuarioSigueAlEmpleado
<1>13. Existen'
  BY <1>1, <1>3, <1>9 DEF Existen
<1>14. ASSUME NEW T \in SUBSET Recursos, T \cap s.tiene = {}
       PROVE  Respeta(T)
  <2>1. \A y \in Tipos : ElTipo(y) \in T => tipo'[y] = tipo[y]
    BY <1>5, <1>7, <1>14
  <2>2. \A q \in Personas : EmpleadoDeBaja(q)' => EmpleadoDeBaja(q)
    BY <1>1 DEF EmpleadoDeBaja
  <2> QED BY <1>1, <1>9, <2>1, <2>2 DEF Respeta
<1> QED BY <1>1, <1>10, <1>11, <1>12, <1>13, <1>14, TerminarBien

-----------------------------------------------------------------------------
(* Theorems *)

\* At first there is nobody.
LEMMA InicioBien ==
  ASSUME Init
  PROVE  IInv
<1>1. TypeOK
  BY DEF Init, TypeOK, Estados
<1>2. ReferenciasActivas /\ Existen
  BY DEF Init, ReferenciasActivas, Existen
<1>3. UsuarioSigueAlEmpleado
  <2>1. \A q \in Personas : Empleado(q) \in Vinculos => vinculo[Empleado(q)] = "NO"
    BY DEF Init
  <2> QED BY <2>1 DEF UsuarioSigueAlEmpleado
<1> QED BY <1>1, <1>2, <1>3 DEF IInv, Init

\* Every step of every request keeps the invariant.
LEMMA PasoBien ==
  ASSUME IInv, [Next]_vars
  PROVE  IInv'
<1>1. ASSUME NEW t \in Peticiones, Paso(t)
      PROVE  IInv'
  <2>1. \/ \E k \in Vinculos :
             \/ \E p \in Personas, x \in Tipos \cup {Nadie} : PedirAlta(t, k, p, x)
             \/ PedirReactivacion(t, k) \/ PedirBaja(t, k)
        \/ \E p \in Personas :
             \/ \E s \in Sociedades : PedirContacto(t, s, p)
             \/ \E x \in Tipos : PedirTipo(t, p, x)
             \/ PedirBajaPersona(t, p) \/ PedirReactivarPersona(t, p)
        \/ \E x \in Tipos : PedirBajaTipo(t, x) \/ PedirReactivarTipo(t, x)
        \/ Bloquear(t) \/ BloquearFila(t) \/ \E c \in BOOLEAN : Mirar(t, c)
        \/ DarDeAlta(t) \/ Reactivar(t) \/ DarDeBaja(t) \/ CambiarContacto(t) \/ CambiarTipo(t)
        \/ DarDeBajaPersona(t) \/ ReactivarPersona(t) \/ CambiarEstadoTipo(t)
        \/ Abandonar(t)
    BY <1>1 DEF Paso
  <2>2. CASE Bloquear(t) \/ BloquearFila(t) \/ (\E c \in BOOLEAN : Mirar(t, c)) \/ Abandonar(t)
    BY <2>2, BloquearBien, BloquearFilaBien, MirarBien, AbandonarBien
  <2>3. CASE DarDeAlta(t) \/ Reactivar(t) \/ DarDeBaja(t) \/ CambiarContacto(t) \/ CambiarTipo(t)
    BY <2>3, DarDeAltaBien, ReactivarBien, DarDeBajaBien, CambiarContactoBien, CambiarTipoBien
  <2>4. CASE DarDeBajaPersona(t) \/ ReactivarPersona(t) \/ CambiarEstadoTipo(t)
    BY <2>4, DarDeBajaPersonaBien, ReactivarPersonaBien, CambiarEstadoTipoBien
  <2> QED BY <2>1, <2>2, <2>3, <2>4, PedirBien
<1>2. ASSUME UNCHANGED vars
      PROVE  IInv'
  <2>1. \A u \in Peticiones : peticion[u] # Nadie => Respeta(peticion[u].tiene)
    BY <1>2 DEF vars, Respeta, PersonaDe, EmpleadoDeBaja
  <2>2. TypeOK' /\ ReferenciasActivas' /\ UsuarioSigueAlEmpleado' /\ Existen'
    BY <1>2 DEF IInv, vars, TypeOK, ReferenciasActivas, UsuarioSigueAlEmpleado, Existen, PersonaDe
  <2>3. \A u \in Peticiones : (peticion[u])' # Nadie =>
          (peticion[u])' = peticion[u] /\ Respeta(peticion[u].tiene)
    BY <1>2, <2>1 DEF vars
  <2> QED BY <2>2, <2>3, EscribirBien
<1> QED BY <1>1, <1>2, CrearPersonaBien DEF Next

\* In every behaviour each request that goes on has, or will have before it writes, the locks
\* under which what it read stays true.
THEOREM InvarianteInductivo == Spec => []IInv
<1>1. Init => IInv
  BY InicioBien
<1>2. IInv /\ [Next]_vars => IInv'
  BY PasoBien
<1> QED BY <1>1, <1>2, PTL DEF Spec

\* Two requests never hold the lock of one row.
THEOREM TiposCorrectos == Spec => []TypeOK
<1>1. IInv => TypeOK
  BY DEF IInv
<1> QED BY <1>1, InvarianteInductivo, PTL

\* PersonaService.delete, TipoClienteService.delete, DirectoryService.create, update and
\* reactivate: no deletion leaves somebody active over a person or a type that is not.
THEOREM ReferenciasSiempreActivas == Spec => []ReferenciasActivas
<1>1. IInv => ReferenciasActivas
  BY DEF IInv
<1> QED BY <1>1, InvarianteInductivo, PTL

\* EmpleadoService.delete, UsuarioService.reactivate: a user is active over a deleted employee
\* only when somebody confirmed it.
THEOREM UsuariosSiguenAEmpleados == Spec => []UsuarioSigueAlEmpleado
<1>1. IInv => UsuarioSigueAlEmpleado
  BY DEF IInv
<1> QED BY <1>1, InvarianteInductivo, PTL
==============================================================================

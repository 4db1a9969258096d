----------------------------- MODULE Directorio -----------------------------
(***************************************************************************)
(* The directory: persons and what they are bound to by, as clients,       *)
(* suppliers, employees, users or contacts of a company that supplies; and *)
(* the types of the clients.                                               *)
(*                                                                         *)
(* Every operation takes row locks one after the other, looks at what it   *)
(* has locked, in some cases reads rows it has not, and writes all it      *)
(* writes as it commits.  Different operations lock in different orders.   *)
(*                                                                         *)
(* Abstracted: the data of the rows, permissions, roles and companies of   *)
(* users and employees.  A person is its normalised identification: the    *)
(* insert of a second one waits for the first on the unique index, and     *)
(* then takes the row it finds.                                            *)
(***************************************************************************)
EXTENDS Naturals, Sequences, FiniteSets

CONSTANTS
  Personas,
  Sociedades,
  Tipos,          \* types of client
  Vinculos,       \* the rows that there may be: <<role, person>>, and <<"SOCIEDAD", company>>
  Peticiones,
  Nadie

Roles == {"CLIENTE", "PROVEEDOR", "EMPLEADO", "USUARIO"}

ASSUME DirectorioSupuestos ==
  /\ Vinculos \subseteq (Roles \X Personas) \cup ({"SOCIEDAD"} \X Sociedades)
  /\ \A p \in Personas : <<"EMPLEADO", p>> \in Vinculos => <<"USUARIO", p>> \in Vinculos
  /\ Nadie \notin Personas \cup Tipos

VARIABLES
  persona,        \* "NO" row, "ACTIVA" or "BAJA"
  tipo,           \* whether each type of client is active
  vinculo,        \* "NO" row, "ACTIVA" or "BAJA"
  contacto,       \* the contact person of each company
  tipoDe,         \* the type of the client that each person is
  peticion,       \* each request: what it does, the locks it has and those it still wants
  confirmados     \* history: users reactivated over an inactive employee on purpose

vars == <<persona, tipo, vinculo, contacto, tipoDe, peticion, confirmados>>

Estados  == {"NO", "ACTIVA", "BAJA"}
Recursos == ({"PERSONA"} \X Personas) \cup ({"TIPO"} \X Tipos) \cup Vinculos
Peticion ==
  [que : {"ALTA", "REACTIVA", "BAJA", "CONTACTO", "TIPO_CLIENTE",
          "BAJA_PERSONA", "REACTIVA_PERSONA", "BAJA_TIPO", "REACTIVA_TIPO"},
   clave : Vinculos \cup {Nadie}, persona : Personas \cup {Nadie}, tipo : Tipos \cup {Nadie},
   faltan : Seq(Recursos), tiene : SUBSET Recursos,
   visto : {"NO", "SI", "CONFIRMADO"}]   \* what it read without a lock, and found good

Init ==
  /\ persona = [p \in Personas |-> "NO"]
  /\ tipo = [x \in Tipos |-> TRUE]
  /\ vinculo = [k \in Vinculos |-> "NO"]
  /\ contacto = [s \in Sociedades |-> Nadie]
  /\ tipoDe = [p \in Personas |-> Nadie]
  /\ peticion = [t \in Peticiones |-> Nadie]
  /\ confirmados = {}

-----------------------------------------------------------------------------
(* Row locks *)

LaPersona(p) == <<"PERSONA", p>>
ElTipo(x)    == <<"TIPO", x>>
Usuario(p)   == <<"USUARIO", p>>
Empleado(p)  == <<"EMPLEADO", p>>

PersonaDe(k) == IF k[1] = "SOCIEDAD" THEN contacto[k[2]] ELSE k[2]

Haciendo(t, que) == peticion[t] # Nadie /\ peticion[t].que \in que
\* It has all its locks.
Lista(t, que)    == Haciendo(t, que) /\ peticion[t].faltan = <<>>

Libre(r) == \A t \in Peticiones : peticion[t] # Nadie => r \notin peticion[t].tiene

Empieza(t, que, k, p, x, cerrojos) ==
  /\ peticion[t] = Nadie
  /\ peticion' = [peticion EXCEPT ![t] =
       [que |-> que, clave |-> k, persona |-> p, tipo |-> x,
        faltan |-> cerrojos, tiene |-> {}, visto |-> "NO"]]
  /\ UNCHANGED <<persona, tipo, vinculo, contacto, tipoDe, confirmados>>
Termina(t) == peticion' = [peticion EXCEPT ![t] = Nadie]

\* A request that uses a person or a type needs it active; resolve_persona creates the missing.
Sirve(t, r) ==
  /\ r[1] = "PERSONA" => persona[r[2]] # "BAJA" \/ Haciendo(t, {"BAJA_PERSONA", "REACTIVA_PERSONA"})
  /\ r[1] = "TIPO"    => tipo[r[2]] \/ Haciendo(t, {"BAJA_TIPO", "REACTIVA_TIPO"})

Bloquear(t) ==
  /\ peticion[t] # Nadie /\ peticion[t].faltan # <<>>
  /\ LET r == Head(peticion[t].faltan) IN
       /\ Libre(r) /\ Sirve(t, r)
       /\ peticion' = [peticion EXCEPT ![t] =
            [peticion[t] EXCEPT !.faltan = Tail(peticion[t].faltan), !.tiene = peticion[t].tiene \cup {r}]]
  /\ UNCHANGED <<persona, tipo, vinculo, contacto, tipoDe, confirmados>>

\* A reactivation locks its row first, and reads from it what it locks next.
BloquearFila(t) ==
  /\ Haciendo(t, {"REACTIVA"}) /\ peticion[t].persona = Nadie
  /\ LET k == peticion[t].clave
         p == PersonaDe(k)
         x == IF k[1] = "CLIENTE" THEN tipoDe[p] ELSE Nadie
     IN  /\ Libre(k)
         /\ peticion' = [peticion EXCEPT ![t] =
              [que |-> "REACTIVA", clave |-> k, persona |-> p, tipo |-> x,
               faltan |-> IF k[1] = "CLIENTE" THEN <<LaPersona(p), ElTipo(x)>> ELSE <<LaPersona(p)>>,
               tiene |-> {k}, visto |-> "NO"]]
  /\ UNCHANGED <<persona, tipo, vinculo, contacto, tipoDe, confirmados>>

-----------------------------------------------------------------------------
(* What a request reads besides, and how it ends *)

SinVinculos(p) == \A k \in Vinculos : vinculo[k] = "ACTIVA" => PersonaDe(k) # p
SinClientes(x) == \A p \in Personas :
  <<"CLIENTE", p>> \in Vinculos /\ vinculo[<<"CLIENTE", p>>] = "ACTIVA" => tipoDe[p] # x
EmpleadoDeBaja(p) == Empleado(p) \in Vinculos /\ vinculo[Empleado(p)] = "BAJA"

Mirar(t, c) ==
  /\ Lista(t, {"BAJA_PERSONA", "BAJA_TIPO", "REACTIVA"}) /\ peticion[t].visto = "NO"
  /\ LET s == peticion[t] IN
       /\ s.que = "BAJA_PERSONA" => SinVinculos(s.persona)
       /\ s.que = "BAJA_TIPO" => SinClientes(s.tipo)
       /\ s.que = "REACTIVA" =>
            /\ s.persona # Nadie
            /\ s.clave[1] = "USUARIO" /\ EmpleadoDeBaja(s.persona) => c
       /\ peticion' = [peticion EXCEPT ![t] =
            [s EXCEPT !.visto = IF c /\ s.que = "REACTIVA" THEN "CONFIRMADO" ELSE "SI"]]
  /\ UNCHANGED <<persona, tipo, vinculo, contacto, tipoDe, confirmados>>

\* The client leaves, a check fails, the wait is a deadlock: nothing is written.
Abandonar(t) ==
  /\ peticion[t] # Nadie
  /\ Termina(t)
  /\ UNCHANGED <<persona, tipo, vinculo, contacto, tipoDe, confirmados>>

-----------------------------------------------------------------------------
(* A person becomes a client, a supplier, an employee, a user or a contact. *)
(* The person may be new; so an employee always comes with a new user.      *)

Creadas(k) == IF k[1] = "EMPLEADO" THEN {k, Usuario(k[2])} ELSE {k}

PedirAlta(t, k, p, x) ==
  /\ k[1] # "SOCIEDAD" => p = k[2]
  /\ k[1] = "CLIENTE" <=> x # Nadie
  /\ Empieza(t, "ALTA", k, p, x,
             IF x # Nadie THEN <<LaPersona(p), ElTipo(x)>> ELSE <<LaPersona(p)>>)

\* Not even as an inactive row: that one has to be reactivated.
SinRegistrar(k) == \A j \in Creadas(k) : vinculo[j] = "NO"

DarDeAlta(t) ==
  /\ Lista(t, {"ALTA"})
  /\ LET s == peticion[t] IN
       /\ SinRegistrar(s.clave)
       /\ vinculo' = [k \in Vinculos |-> IF k \in Creadas(s.clave) THEN "ACTIVA" ELSE vinculo[k]]
       /\ persona' = [persona EXCEPT ![s.persona] = "ACTIVA"]
       /\ contacto' = IF s.clave[1] = "SOCIEDAD" THEN [contacto EXCEPT ![s.clave[2]] = s.persona]
                      ELSE contacto
       /\ tipoDe' = IF s.tipo # Nadie THEN [tipoDe EXCEPT ![s.persona] = s.tipo] ELSE tipoDe
  /\ Termina(t)
  /\ UNCHANGED <<tipo, confirmados>>

PedirReactivacion(t, k) ==
  /\ vinculo[k] # "NO"
  /\ Empieza(t, "REACTIVA", k, Nadie, Nadie, <<>>)

Reactivar(t) ==
  /\ Lista(t, {"REACTIVA"}) /\ peticion[t].visto # "NO"
  /\ LET s == peticion[t] IN
       /\ vinculo' = [vinculo EXCEPT ![s.clave] = "ACTIVA"]
       /\ confirmados' = IF s.clave[1] = "USUARIO" /\ s.visto = "CONFIRMADO"
                         THEN confirmados \cup {s.persona} ELSE confirmados
  /\ Termina(t)
  /\ UNCHANGED <<persona, tipo, contacto, tipoDe>>

\* Faulty variant of CerrojosDeBaja: an employee goes without waiting for its user.
CerrojosSinUsuario(k) == <<k>>

CerrojosDeBaja(k) == IF k[1] = "EMPLEADO" THEN <<k, Usuario(k[2])>> ELSE <<k>>

PedirBaja(t, k) ==
  /\ vinculo[k] # "NO"
  /\ Empieza(t, "BAJA", k, Nadie, Nadie, CerrojosDeBaja(k))

\* The user of an employee goes with it.
DarDeBaja(t) ==
  /\ Lista(t, {"BAJA"})
  /\ LET k == peticion[t].clave IN
       /\ vinculo' = [j \in Vinculos |-> IF j \in Creadas(k) THEN "BAJA" ELSE vinculo[j]]
       /\ confirmados' = IF k[1] = "EMPLEADO" THEN confirmados \ {k[2]} ELSE confirmados
  /\ Termina(t)
  /\ UNCHANGED <<persona, tipo, contacto, tipoDe>>

\* The row is read with no lock; its UPDATE locks it at the end.
PedirContacto(t, s, p) ==
  /\ <<"SOCIEDAD", s>> \in Vinculos /\ vinculo[<<"SOCIEDAD", s>>] = "ACTIVA" /\ contacto[s] # p
  /\ Empieza(t, "CONTACTO", <<"SOCIEDAD", s>>, p, Nadie, <<LaPersona(p), <<"SOCIEDAD", s>> >>)

CambiarContacto(t) ==
  /\ Lista(t, {"CONTACTO"})
  /\ LET s == peticion[t] IN
       /\ persona' = [persona EXCEPT ![s.persona] = "ACTIVA"]
       /\ contacto' = [contacto EXCEPT ![s.clave[2]] = s.persona]
  /\ Termina(t)
  /\ UNCHANGED <<tipo, vinculo, tipoDe, confirmados>>

PedirTipo(t, p, x) ==
  /\ <<"CLIENTE", p>> \in Vinculos /\ vinculo[<<"CLIENTE", p>>] = "ACTIVA" /\ tipoDe[p] # x
  /\ Empieza(t, "TIPO_CLIENTE", <<"CLIENTE", p>>, p, x, <<ElTipo(x), <<"CLIENTE", p>> >>)

CambiarTipo(t) ==
  /\ Lista(t, {"TIPO_CLIENTE"})
  /\ tipoDe' = [tipoDe EXCEPT ![peticion[t].persona] = peticion[t].tipo]
  /\ Termina(t)
  /\ UNCHANGED <<persona, tipo, vinculo, contacto, confirmados>>

-----------------------------------------------------------------------------
(* Persons and types of client *)

CrearPersona(p) ==
  /\ persona[p] = "NO" /\ Libre(LaPersona(p))
  /\ persona' = [persona EXCEPT ![p] = "ACTIVA"]
  /\ UNCHANGED <<tipo, vinculo, contacto, tipoDe, peticion, confirmados>>

\* Faulty variant of PedirBajaPersona: it looks for what the person is without locking it.
PedirBajaPersonaSinBloquear(t, p) ==
  persona[p] # "NO" /\ Empieza(t, "BAJA_PERSONA", Nadie, p, Nadie, <<>>)

PedirBajaPersona(t, p) ==
  persona[p] # "NO" /\ Empieza(t, "BAJA_PERSONA", Nadie, p, Nadie, <<LaPersona(p)>>)

DarDeBajaPersona(t) ==
  /\ Lista(t, {"BAJA_PERSONA"}) /\ peticion[t].visto # "NO"
  /\ persona' = [persona EXCEPT ![peticion[t].persona] = "BAJA"]
  /\ Termina(t)
  /\ UNCHANGED <<tipo, vinculo, contacto, tipoDe, confirmados>>

PedirReactivarPersona(t, p) ==
  persona[p] # "NO" /\ Empieza(t, "REACTIVA_PERSONA", Nadie, p, Nadie, <<LaPersona(p)>>)

ReactivarPersona(t) ==
  /\ Lista(t, {"REACTIVA_PERSONA"})
  /\ persona' = [persona EXCEPT ![peticion[t].persona] = "ACTIVA"]
  /\ Termina(t)
  /\ UNCHANGED <<tipo, vinculo, contacto, tipoDe, confirmados>>

PedirBajaTipo(t, x)      == Empieza(t, "BAJA_TIPO", Nadie, Nadie, x, <<ElTipo(x)>>)
PedirReactivarTipo(t, x) == Empieza(t, "REACTIVA_TIPO", Nadie, Nadie, x, <<ElTipo(x)>>)

CambiarEstadoTipo(t) ==
  /\ Lista(t, {"BAJA_TIPO", "REACTIVA_TIPO"})
  /\ peticion[t].que = "BAJA_TIPO" => peticion[t].visto # "NO"
  /\ tipo' = [tipo EXCEPT ![peticion[t].tipo] = peticion[t].que = "REACTIVA_TIPO"]
  /\ Termina(t)
  /\ UNCHANGED <<persona, vinculo, contacto, tipoDe, confirmados>>

Paso(t) ==
  \/ \E k \in Vinculos :
       \/ \E p \in Personas, x \in Tipos \cup {Nadie} : PedirAlta(t, k, p, x)
       \/ PedirReactivacion(t, k) \/ PedirBaja(t, k)
  \/ \E p \in Personas :
       \/ \E s \in Sociedades : PedirContacto(t, s, p)
       \/ \E x \in Tipos : PedirTipo(t, p, x)
       \/ PedirBajaPersona(t, p) \/ PedirReactivarPersona(t, p)
  \/ \E x \in Tipos : PedirBajaTipo(t, x) \/ PedirReactivarTipo(t, x)
  \/ Bloquear(t) \/ BloquearFila(t) \/ \E c \in BOOLEAN : Mirar(t, c)
  \/ DarDeAlta(t) \/ Reactivar(t) \/ DarDeBaja(t) \/ CambiarContacto(t) \/ CambiarTipo(t)
  \/ DarDeBajaPersona(t) \/ ReactivarPersona(t) \/ CambiarEstadoTipo(t)
  \/ Abandonar(t)

Next == (\E t \in Peticiones : Paso(t)) \/ (\E p \in Personas : CrearPersona(p))

Spec == Init /\ [][Next]_vars

-----------------------------------------------------------------------------
(* Properties *)

\* Two requests never hold the lock of one row.
TypeOK ==
  /\ persona \in [Personas -> Estados]
  /\ tipo \in [Tipos -> BOOLEAN]
  /\ vinculo \in [Vinculos -> Estados]
  /\ contacto \in [Sociedades -> Personas \cup {Nadie}]
  /\ tipoDe \in [Personas -> Tipos \cup {Nadie}]
  /\ peticion \in [Peticiones -> Peticion \cup {Nadie}]
  /\ \A t, u \in Peticiones : t # u /\ peticion[t] # Nadie /\ peticion[u] # Nadie =>
       peticion[t].tiene \cap peticion[u].tiene = {}
  /\ confirmados \subseteq Personas

\* resolve_persona, ClienteService._active_type, PersonaService.delete, TipoClienteService.delete:
\* who is a client, supplier, employee, user or contact is an active person, and a client's type
\* is active, whatever deletions cross the operations that bind them.
ReferenciasActivas ==
  /\ \A k \in Vinculos : vinculo[k] = "ACTIVA" => persona[PersonaDe(k)] = "ACTIVA"
  /\ \A p \in Personas : <<"CLIENTE", p>> \in Vinculos /\ vinculo[<<"CLIENTE", p>>] = "ACTIVA" =>
       tipo[tipoDe[p]]

\* EmpleadoService.create and delete, UsuarioService.reactivate: an employee has a user, who is
\* not active while the employee is not, unless somebody confirmed that it should be.
UsuarioSigueAlEmpleado ==
  \A p \in Personas : Empleado(p) \in Vinculos =>
    /\ vinculo[Empleado(p)] # "NO" => vinculo[Usuario(p)] # "NO"
    /\ vinculo[Empleado(p)] = "BAJA" /\ vinculo[Usuario(p)] = "ACTIVA" => p \in confirmados
=============================================================================

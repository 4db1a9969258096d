---------------------------- MODULE MCDirectorio ----------------------------
EXTENDS Directorio, TLC

CONSTANTS per1, per2, soc

MCVinculos == {<<"CLIENTE", per1>>, <<"EMPLEADO", per1>>, <<"USUARIO", per1>>, <<"SOCIEDAD", soc>>}

\* Clients, with their types, and companies, with their contacts, only meet at the deletion
\* of a person, which looks for either: a behaviour has one of the two.
MCPaso == ~(vinculo[<<"CLIENTE", per1>>]' # "NO" /\ vinculo[<<"SOCIEDAD", soc>>]' # "NO")
MCSpec == Init /\ [][Next /\ MCPaso]_vars
MCSimetria == Permutations(Peticiones) \cup Permutations(Tipos)
=============================================================================

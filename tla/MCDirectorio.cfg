\* Two requests over two persons: one may be client, employee and user, both contacts.
CONSTANTS
  per1 = per1
  per2 = per2
  soc = soc
  Personas = {per1, per2}
  Sociedades = {soc}
  Tipos = {x, y}
  Vinculos <- MCVinculos
  Peticiones = {t, u}
  Nadie = Nadie
SPECIFICATION MCSpec
INVARIANTS
  ReferenciasActivas
  UsuarioSigueAlEmpleado
SYMMETRY MCSimetria
CHECK_DEADLOCK FALSE

--------------------------- MODULE MCOrganizacion ---------------------------
(* The instance of Organizacion that TLC checks. *)
EXTENDS Organizacion, TLC

\* A company of the general regime, a popular business and a qualified artisan.
MCAltas ==
  {[activo |-> TRUE, juridico |-> "PERSONA_NATURAL", regimen |-> x[1], artesano |-> x[2],
    modo |-> x[3], agente |-> FALSE, resolucion |-> FALSE] :
   x \in {<<"GENERAL", FALSE, "ELECTRONICO">>,
          <<"RIMPE_NEGOCIO_POPULAR", FALSE, "NOTA_VENTA_FISICA">>,
          <<"GENERAL", TRUE, "NOTA_VENTA_FISICA">>}}

\* Two changes of regime that cross with a change of kind, and the agent's mark put and taken.
MCCambios ==
  {[regimen |-> "RIMPE_NEGOCIO_POPULAR", modo |-> "NOTA_VENTA_FISICA"],
   [artesano |-> TRUE, modo |-> "NOTA_VENTA_FISICA"],
   [juridico |-> "SOCIEDAD"],
   [agente |-> FALSE],
   [agente |-> TRUE, resolucion |-> TRUE]}

MCCodigosSucursal == {"001", "002"}
MCCodigosPunto == {"001"}

\* Two files under one password: the second replaces the first without changing it.
MCClaveDe  == [a \in Archivos |-> "clave"]
MCCaducaEn == [a \in Archivos |-> "fecha"]

MCSimetria ==
  Permutations(Sucursales) \cup Permutations(Puntos) \cup Permutations(Peticiones)
    \cup Permutations(Archivos)
=============================================================================

---------------------------- MODULE Organizacion ----------------------------
(***************************************************************************)
(* A company with its electronic signature, its branches and its points of *)
(* emission, and what a sale takes from them when it is registered,        *)
(* changed and issued.                                                     *)
(*                                                                         *)
(* No request locks what it reads here, save the sale an emission locks.   *)
(* Each one loads a row, decides on that copy, and writes the columns it   *)
(* changed with respect to the copy onto the row as it is by then: the     *)
(* constraints of the tables are all that stands between two requests.     *)
(*                                                                         *)
(* Abstracted: one company, already created, with its head office; of the  *)
(* three pairs of a mark and its resolution, the withholding agent's; the  *)
(* taxes the company selects, which Tributos has; names and coordinates;   *)
(* the counter of a series, the stock and the account of an issued sale,   *)
(* which Emision has; the lines of a sale, of which only whether one is of *)
(* an excluded activity decides anything here.                             *)
(***************************************************************************)
EXTENDS Naturals, FiniteSets

CONSTANTS
  Sucursales, Puntos, Ventas,
  Peticiones,     \* bound: the requests in flight at once
  UltimaPeticion, \* bound: the requests of a behaviour, deletions apart
  CodigosSucursal, CodigosPunto,
  Altas,          \* bound: the profiles a company may be created with
  Cambios,        \* bound: the updates of the company a request may bring
  Archivos,       \* the signature files a company may upload
  ClaveDe, CaducaEn,   \* the password that opens each, and when its certificate ends
  Nada

CodigoMatriz == "001"

VARIABLES
  empresa,        \* Empresa: its fiscal profile and whether it is active
  firma,          \* the columns of its signature
  sucursal,       \* Sucursal
  punto,          \* PuntoEmision
  venta,          \* Venta, with what it was registered as
  peticion,       \* what each request in flight has read
  cuantas         \* bound: how many requests there have been

orgVars == <<empresa, firma, sucursal, punto, venta, peticion, cuantas>>

Regimenes  == {"GENERAL", "RIMPE_EMPRENDEDOR", "RIMPE_NEGOCIO_POPULAR"}
Modos      == {"ELECTRONICO", "NOTA_VENTA_FISICA"}
Tipos      == {"ELECTRONICA", "NOTA_VENTA_FISICA"}
Modalidades == {"ELECTRONICA", "FISICA"}

Perfil == [activo : BOOLEAN, juridico : {"PERSONA_NATURAL", "SOCIEDAD"},
           regimen : Regimenes, artesano : BOOLEAN, modo : Modos,
           agente : BOOLEAN, resolucion : BOOLEAN]
CifradoDe(valores) == [valor : valores, sal : Nat]
Rango(f) == {f[x] : x \in DOMAIN f}
Firma  == [archivo : {Nada} \cup CifradoDe(Archivos), clave : {Nada} \cup CifradoDe(Rango(ClaveDe)),
           caduca : {Nada} \cup Rango(CaducaEn)]
Sucursal == [activo : BOOLEAN, codigo : CodigosSucursal, matriz : BOOLEAN]
Punto  == [activo : BOOLEAN, sucursal : Sucursales, codigo : CodigosPunto,
           modalidad : Modalidades]
Venta  == [estado : {"BORRADOR", "EMITIDA"}, punto : Puntos \cup {Nada}, regimen : Regimenes,
           tipo : Tipos, nacio : Tipos, artesano : BOOLEAN]

\* The assumptions on the constants. A change brings some columns of a profile.
ASSUME OrganizacionSupuestos ==
  /\ Nada \notin Sucursales \cup Puntos \cup Ventas \cup Peticiones
  /\ Nada \notin CifradoDe(Archivos) \cup CifradoDe(Rango(ClaveDe)) \cup Sucursal \cup Punto \cup Venta
  /\ DOMAIN ClaveDe = Archivos /\ DOMAIN CaducaEn = Archivos
  /\ Altas \subseteq Perfil
  /\ \A c \in Cambios : \E e \in Perfil :
       DOMAIN c \subseteq DOMAIN e /\ \A k \in DOMAIN c : c[k] = e[k]
  /\ CodigoMatriz \in CodigosSucursal
  /\ Sucursales # {} /\ UltimaPeticion \in Nat

SinFirma == [archivo |-> Nada, clave |-> Nada, caduca |-> Nada]

NotaDeVenta(e) == e.regimen = "RIMPE_NEGOCIO_POPULAR" \/ e.artesano

\* EmpresaRegimenModoRules, and the CHECKs of the table.
CumpleReglas(e) ==
  /\ NotaDeVenta(e) <=> e.modo = "NOTA_VENTA_FISICA"
  /\ ~(e.juridico = "SOCIEDAD" /\ e.regimen = "RIMPE_NEGOCIO_POPULAR")
  /\ e.agente <=> e.resolucion

\* A company as validate_create lets it in, and the head office on_created adds.
OrgInit ==
  /\ empresa \in {e \in Altas : CumpleReglas(e)}
  /\ firma = SinFirma
  /\ \E s \in Sucursales :
       sucursal = [t \in Sucursales |->
         IF t = s THEN [activo |-> TRUE, codigo |-> CodigoMatriz, matriz |-> TRUE] ELSE Nada]
  /\ punto = [p \in Puntos |-> Nada]
  /\ venta = [v \in Ventas |-> Nada]
  /\ peticion = [r \in Peticiones |-> Nada]
  /\ cuantas = 0

En(r, que)  == peticion[r] # Nada /\ peticion[r].que = que
Toma(r, p)  ==
  /\ peticion[r] = Nada /\ cuantas < UltimaPeticion
  /\ peticion' = [peticion EXCEPT ![r] = p]
  /\ cuantas' = cuantas + 1
Termina(r)  == peticion' = [peticion EXCEPT ![r] = Nada] /\ UNCHANGED cuantas

\* Faulty variant of Escrita: the whole copy goes back to the row.
EscritaEntera(copia, cambios, fila) ==
  [c \in DOMAIN fila |-> IF c \in DOMAIN cambios THEN cambios[c] ELSE copia[c]]

\* The session writes the columns that differ from the copy it loaded, and no other.
Escrita(copia, cambios, fila) ==
  [c \in DOMAIN fila |->
    IF c \in DOMAIN cambios /\ cambios[c] # copia[c] THEN cambios[c] ELSE fila[c]]

Viva(fila) == fila # Nada /\ fila.activo

-----------------------------------------------------------------------------
(* The fiscal profile of the company *)

\* EmpresaUpdate: what is refused by what the request brings, whatever the row says.
CuerpoAdmitido(c) ==
  LET trae(k, x) == k \in DOMAIN c /\ c[k] = x
      puede == trae("regimen", "RIMPE_NEGOCIO_POPULAR") \/ trae("artesano", TRUE)
  IN /\ trae("modo", "NOTA_VENTA_FISICA") => puede
     /\ trae("modo", "ELECTRONICO") => ~puede
     /\ ~(trae("juridico", "SOCIEDAD") /\ trae("regimen", "RIMPE_NEGOCIO_POPULAR"))
     /\ trae("agente", TRUE) => trae("resolucion", TRUE)

\* _normalize_tributary_fields: without the mark there is no resolution.
Normalizado(c) ==
  [k \in DOMAIN c \cup (IF "agente" \in DOMAIN c /\ ~c.agente THEN {"resolucion"} ELSE {}) |->
    IF k = "resolucion" /\ "agente" \in DOMAIN c /\ ~c.agente THEN FALSE ELSE c[k]]

\* _build_validation_payload: the row with the update over it.
Mezclado(e, c) ==
  LET d == [k \in DOMAIN e |-> IF k \in DOMAIN c THEN c[k] ELSE e[k]]
  IN [d EXCEPT !.resolucion = @ /\ d.agente]

\* Faulty variant of AdmiteLaBase: the table has no CHECK, the service has validated it.
AdmiteSinMirar(e) == TRUE

AdmiteLaBase(e) == CumpleReglas(e)

\* EmpresaService.update up to the validation, made on the copy.
PedirCambioEmpresa(r, c) ==
  /\ empresa.activo /\ CuerpoAdmitido(c)
  /\ CumpleReglas(Mezclado(empresa, Normalizado(c)))
  /\ Toma(r, [que |-> "EMPRESA", copia |-> empresa, cambios |-> Normalizado(c)])
  /\ UNCHANGED <<empresa, firma, sucursal, punto, venta>>

GuardarEmpresa(r) ==
  /\ En(r, "EMPRESA")
  /\ LET fila == Escrita(peticion[r].copia, peticion[r].cambios, empresa)
     IN empresa' = IF AdmiteLaBase(fila) THEN fila ELSE empresa
  /\ Termina(r)
  /\ UNCHANGED <<firma, sucursal, punto, venta>>

\* The delete of BaseService: nothing that hangs from the company is looked at.
EliminarEmpresa ==
  /\ empresa.activo
  /\ empresa' = [empresa EXCEPT !.activo = FALSE]
  /\ UNCHANGED <<firma, sucursal, punto, venta, peticion, cuantas>>

-----------------------------------------------------------------------------
(* Its signature *)

\* Faulty variant of Cifrado: the same text always gives the same cipher.
CifradoFijo(x) == [valor |-> x, sal |-> 0]

\* A cipher is new at each encryption, so it always differs from the copy's.
Cifrado(x) == [valor |-> x, sal |-> cuantas]

\* EmpresaSignatureService.save; the file opens with its password and is not out of date.
PedirFirma(r, a) ==
  /\ empresa.activo
  /\ Toma(r, [que |-> "FIRMA", copia |-> firma,
              cambios |-> [archivo |-> Cifrado(a), clave |-> Cifrado(ClaveDe[a]),
                           caduca |-> CaducaEn[a]]])
  /\ UNCHANGED <<empresa, firma, sucursal, punto, venta>>

\* EmpresaSignatureService.delete
PedirSinFirma(r) ==
  /\ empresa.activo
  /\ Toma(r, [que |-> "FIRMA", copia |-> firma, cambios |-> SinFirma])
  /\ UNCHANGED <<empresa, firma, sucursal, punto, venta>>

GuardarFirma(r) ==
  /\ En(r, "FIRMA")
  /\ firma' = Escrita(peticion[r].copia, peticion[r].cambios, firma)
  /\ Termina(r)
  /\ UNCHANGED <<empresa, sucursal, punto, venta>>

-----------------------------------------------------------------------------
(* Its branches and their points: no code changes, and a row out of use keeps *)
(* its own for ever                                                           *)

Creadas(filas) == {x \in DOMAIN filas : filas[x] # Nada}

PedirSucursal(r, codigo, matriz) ==
  /\ empresa.activo
  /\ Toma(r, [que |-> "SUCURSAL", fila |-> [activo |-> TRUE, codigo |-> codigo, matriz |-> matriz]])
  /\ UNCHANGED <<empresa, firma, sucursal, punto, venta>>

\* uq_sucursal_empresa_codigo and ck_sucursal_matriz_codigo
SucursalAdmitida(n) ==
  /\ \A t \in Creadas(sucursal) : sucursal[t].codigo # n.codigo
  /\ n.matriz <=> n.codigo = CodigoMatriz

GuardarSucursal(r) ==
  /\ En(r, "SUCURSAL")
  /\ IF SucursalAdmitida(peticion[r].fila)
     THEN \E s \in Sucursales \ Creadas(sucursal) :
            sucursal' = [sucursal EXCEPT ![s] = peticion[r].fila]
     ELSE UNCHANGED sucursal
  /\ Termina(r)
  /\ UNCHANGED <<empresa, firma, punto, venta>>

PedirPunto(r, s, codigo, modalidad) ==
  /\ Viva(sucursal[s])
  /\ Toma(r, [que |-> "PUNTO", fila |-> [activo |-> TRUE, sucursal |-> s, codigo |-> codigo,
                                         modalidad |-> modalidad]])
  /\ UNCHANGED <<empresa, firma, sucursal, punto, venta>>

\* uq_pe_sucursal_codigo
PuntoAdmitido(n) ==
  \A q \in Creadas(punto) : <<punto[q].sucursal, punto[q].codigo>> # <<n.sucursal, n.codigo>>

GuardarPunto(r) ==
  /\ En(r, "PUNTO")
  /\ IF PuntoAdmitido(peticion[r].fila)
     THEN \E p \in Puntos \ Creadas(punto) : punto' = [punto EXCEPT ![p] = peticion[r].fila]
     ELSE UNCHANGED punto
  /\ Termina(r)
  /\ UNCHANGED <<empresa, firma, sucursal, venta>>

\* An update of a row in use; what it changes besides what is here is left out.
PedirCambioSucursal(r, s, c) ==
  /\ Viva(sucursal[s])
  /\ Toma(r, [que |-> "CAMBIO_SUCURSAL", de |-> s, copia |-> sucursal[s], cambios |-> c])
  /\ UNCHANGED <<empresa, firma, sucursal, punto, venta>>

GuardarCambioSucursal(r) ==
  /\ En(r, "CAMBIO_SUCURSAL")
  /\ LET p == peticion[r]
         fila == Escrita(p.copia, p.cambios, sucursal[p.de])
     IN sucursal' = IF fila.matriz <=> fila.codigo = CodigoMatriz
                    THEN [sucursal EXCEPT ![p.de] = fila] ELSE sucursal
  /\ Termina(r)
  /\ UNCHANGED <<empresa, firma, punto, venta>>

PedirCambioPunto(r, p, c) ==
  /\ Viva(punto[p])
  /\ Toma(r, [que |-> "CAMBIO_PUNTO", de |-> p, copia |-> punto[p], cambios |-> c])
  /\ UNCHANGED <<empresa, firma, sucursal, punto, venta>>

GuardarCambioPunto(r) ==
  /\ En(r, "CAMBIO_PUNTO")
  /\ LET p == peticion[r]
     IN punto' = [punto EXCEPT ![p.de] = Escrita(p.copia, p.cambios, @)]
  /\ Termina(r)
  /\ UNCHANGED <<empresa, firma, sucursal, venta>>

EliminarSucursal(s) ==
  /\ Viva(sucursal[s])
  /\ sucursal' = [sucursal EXCEPT ![s].activo = FALSE]
  /\ UNCHANGED <<empresa, firma, punto, venta, peticion, cuantas>>

EliminarPunto(p) ==
  /\ Viva(punto[p])
  /\ punto' = [punto EXCEPT ![p].activo = FALSE]
  /\ UNCHANGED <<empresa, firma, sucursal, venta, peticion, cuantas>>

-----------------------------------------------------------------------------
(* The sale: as it is registered, changed while it is a draft, and issued *)

\* What a request says of a sale: the regime it claims, the type it asks for, if any.
Cuerpos == [popular : BOOLEAN, tipo : Tipos \cup {Nada}, excluida : BOOLEAN]

TipoDePopular(excluida) == IF excluida THEN "ELECTRONICA" ELSE "NOTA_VENTA_FISICA"

\* VentaCreate, from what the request says alone.
CuerpoDeVentaAdmitido(q) == q.tipo = "NOTA_VENTA_FISICA" => q.popular
TipoDelCuerpo(q) == IF q.tipo = Nada /\ q.popular THEN TipoDePopular(q.excluida) ELSE q.tipo

\* EmisionRimpeStrategy, from the company as it is: the type, or none when it refuses.
TiposResueltos(e, pedido, excluida) ==
  {t \in Tipos :
    IF e.artesano THEN t = "NOTA_VENTA_FISICA" /\ pedido # "ELECTRONICA"
    ELSE IF e.regimen = "RIMPE_NEGOCIO_POPULAR"
    THEN t = IF pedido = Nada THEN TipoDePopular(excluida) ELSE pedido
    ELSE t = "ELECTRONICA" /\ pedido # "NOTA_VENTA_FISICA"}

ModalidadDe(tipo) == IF tipo = "ELECTRONICA" THEN "ELECTRONICA" ELSE "FISICA"

EnUso(p) == Viva(punto[p]) /\ Viva(sucursal[punto[p].sucursal])

\* execute_create up to the row: every check reads what there is, and locks none of it.
PedirVenta(r, p, q) ==
  /\ empresa.activo /\ CuerpoDeVentaAdmitido(q)
  /\ \E t \in TiposResueltos(empresa, TipoDelCuerpo(q), q.excluida) :
       /\ p # Nada => EnUso(p) /\ punto[p].modalidad = ModalidadDe(t)
       /\ Toma(r, [que |-> "VENTA",
                   fila |-> [estado |-> "BORRADOR", punto |-> p, regimen |-> empresa.regimen,
                             tipo |-> t, nacio |-> t, artesano |-> empresa.artesano]])
  /\ UNCHANGED <<empresa, firma, sucursal, punto, venta>>

GuardarVenta(r) ==
  /\ En(r, "VENTA")
  /\ \E v \in Ventas \ Creadas(venta) : venta' = [venta EXCEPT ![v] = peticion[r].fila]
  /\ Termina(r)
  /\ UNCHANGED <<empresa, firma, sucursal, punto>>

\* actualizar_venta reads the sale without a lock; only its regime is looked at.
PedirCambioVenta(r, v, t) ==
  /\ venta[v] # Nada /\ venta[v].estado # "EMITIDA"
  /\ t = "NOTA_VENTA_FISICA" => venta[v].regimen = "RIMPE_NEGOCIO_POPULAR"
  /\ Toma(r, [que |-> "CAMBIO_VENTA", de |-> v, copia |-> venta[v], cambios |-> [tipo |-> t]])
  /\ UNCHANGED <<empresa, firma, sucursal, punto, venta>>

Bloqueada(v) == \E r \in Peticiones : En(r, "EMISION") /\ peticion[r].de = v

GuardarCambioVenta(r) ==
  /\ En(r, "CAMBIO_VENTA") /\ ~Bloqueada(peticion[r].de)
  /\ LET p == peticion[r]
     IN venta' = [venta EXCEPT ![p.de] = Escrita(p.copia, p.cambios, @)]
  /\ Termina(r)
  /\ UNCHANGED <<empresa, firma, sucursal, punto>>

\* Faulty variant of PuntoDeVentaValido: its modality was checked at the registration.
PuntoEnUso(v) == IF v.punto = Nada THEN v.tipo # "ELECTRONICA" ELSE EnUso(v.punto)

\* _validar_punto_venta
PuntoDeVentaValido(v) ==
  IF v.punto = Nada THEN v.tipo # "ELECTRONICA"
  ELSE EnUso(v.punto) /\ punto[v.punto].modalidad = ModalidadDe(v.tipo)

\* emitir_venta: the sale is locked, then its point is read; the objects the session
\* holds serve the second look, when the number is taken.
PedirEmision(r, v) ==
  /\ venta[v] # Nada /\ venta[v].estado = "BORRADOR" /\ ~Bloqueada(v)
  /\ PuntoDeVentaValido(venta[v])
  /\ Toma(r, [que |-> "EMISION", de |-> v])
  /\ UNCHANGED <<empresa, firma, sucursal, punto, venta>>

Emitir(r) ==
  /\ En(r, "EMISION")
  /\ venta' = [venta EXCEPT ![peticion[r].de].estado = "EMITIDA"]
  /\ Termina(r)
  /\ UNCHANGED <<empresa, firma, sucursal, punto>>

\* The stock does not suffice, or the sale has an account: nothing is left behind.
NoEmitir(r) ==
  /\ En(r, "EMISION")
  /\ Termina(r)
  /\ UNCHANGED <<empresa, firma, sucursal, punto, venta>>

-----------------------------------------------------------------------------
CambiosDeSucursal == [activo : BOOLEAN, matriz : BOOLEAN]
CambiosDePunto    == [activo : BOOLEAN]

Pedir(r) ==
  \/ \E c \in Cambios : PedirCambioEmpresa(r, c)
  \/ \E a \in Archivos : PedirFirma(r, a)
  \/ PedirSinFirma(r)
  \/ \E c \in CodigosSucursal, m \in BOOLEAN : PedirSucursal(r, c, m)
  \/ \E s \in Sucursales, c \in CodigosPunto, m \in Modalidades : PedirPunto(r, s, c, m)
  \/ \E s \in Sucursales, c \in CambiosDeSucursal : PedirCambioSucursal(r, s, c)
  \/ \E p \in Puntos, c \in CambiosDePunto : PedirCambioPunto(r, p, c)
  \/ \E p \in Puntos \cup {Nada}, q \in Cuerpos : PedirVenta(r, p, q)
  \/ \E v \in Ventas, t \in Tipos : PedirCambioVenta(r, v, t)
  \/ \E v \in Ventas : PedirEmision(r, v)

Terminar(r) ==
  \/ GuardarEmpresa(r) \/ GuardarFirma(r)
  \/ GuardarSucursal(r) \/ GuardarPunto(r)
  \/ GuardarCambioSucursal(r) \/ GuardarCambioPunto(r)
  \/ GuardarVenta(r) \/ GuardarCambioVenta(r)
  \/ Emitir(r) \/ NoEmitir(r)

OrgNext ==
  \/ EliminarEmpresa
  \/ \E s \in Sucursales : EliminarSucursal(s)
  \/ \E p \in Puntos : EliminarPunto(p)
  \/ \E r \in Peticiones : Pedir(r) \/ Terminar(r)

OrgSpec == OrgInit /\ [][OrgNext]_orgVars

-----------------------------------------------------------------------------
OrgTypeOK ==
  /\ empresa \in Perfil
  /\ firma \in Firma
  /\ sucursal \in [Sucursales -> {Nada} \cup Sucursal]
  /\ punto \in [Puntos -> {Nada} \cup Punto]
  /\ venta \in [Ventas -> {Nada} \cup Venta]

(* The company always has a lawful profile: two updates that were each right *)
(* against the copy they read cannot leave together one that neither made,   *)
(* such as a corporation under the regime of popular businesses.             *)
PerfilLegal == CumpleReglas(empresa)

(* The password stored with a signature opens the file stored with it,       *)
(* however uploads and removals cross.                                       *)
FirmaConSuClave ==
  \/ firma.archivo = Nada /\ firma.clave = Nada
  \/ /\ firma.archivo # Nada /\ firma.clave # Nada
     /\ firma.clave.valor = ClaveDe[firma.archivo.valor]

(* What is deleted stays deleted: no update that read it in use brings it    *)
(* back.                                                                     *)
BajaDefinitiva ==
  [][/\ empresa'.activo => empresa.activo
     /\ \A s \in Creadas(sucursal) : sucursal'[s].activo => sucursal[s].activo
     /\ \A p \in Creadas(punto) : punto'[p].activo => punto[p].activo]_orgVars

Emitida(v) == venta[v].estado # "EMITIDA" /\ venta'[v].estado = "EMITIDA"

(* A sale with a point is issued as what it was registered: the change of    *)
(* type its draft admits never takes it out by a series of the other kind.   *)
EmiteComoSeRegistro ==
  [][\A v \in Creadas(venta) :
       Emitida(v) /\ venta[v].punto # Nada => venta'[v].tipo = venta[v].nacio]_orgVars

(* What was registered while the company was a qualified artisan is never    *)
(* issued as an electronic invoice, whatever was changed in between.         *)
ArtesanoSinFactura ==
  [][\A v \in Creadas(venta) :
       Emitida(v) /\ venta[v].artesano => venta'[v].tipo = "NOTA_VENTA_FISICA"]_orgVars

(* A change of the company, the point or the draft between the registration  *)
(* and the emission never yields a document of another kind.                 *)
EmisionLegal == EmiteComoSeRegistro /\ ArtesanoSinFactura
=============================================================================

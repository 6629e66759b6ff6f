------------------------------ MODULE CaStore ------------------------------
(***************************************************************************)
(* The certificates a TLS context trusts (src/net/asio_ssl.cpp): the       *)
(* sources load_ca_to_ssl_ctx goes through, when it stops, and which of    *)
(* their certificates each lets in.                                        *)
(*                                                                         *)
(* A certificate is what the code asks of it: its common name, whether its *)
(* time is now, whether it is self-issued and a CA, its extended key       *)
(* usage, whether the user added it to the system's, what the user and the *)
(* administrator of a Mac have set for it, and whether the store of the    *)
(* context takes it.  A bundle is a sequence of certificates, of which the *)
(* last may lack the newline behind its end mark; the two in the program   *)
(* grow old like any other.                                                *)
(***************************************************************************)
EXTENDS Naturals, Sequences

CONSTANTS
  Platforms,     \* a subset of {"windows", "mac", "ios", "unix"}
  CommonNames,   \* the common names of certificates
  RequiredRoots, \* common names of the roots that must not be missing
  SystemStores,  \* what the store of the system may hold, each a sequence of certificates
  Bundles,       \* what a file or a directory may hold
  Embedded       \* what the bundles in the program may be worth: pairs of builtin and supplementary

VARIABLE ca

Blacklisted == {"emSign"}

\* The trust settings of a certificate: none, or a sequence of dictionaries.
Absent == [there |-> FALSE, dicts |-> << >>]
Settings(dicts) == [there |-> TRUE, dicts |-> dicts]
Dict(scoped, policy, result) == [scoped |-> scoped, policy |-> policy, result |-> result]
Deny == Settings(<< Dict(FALSE, "ssl", "deny") >>)

Certificate(cn) ==
  [cn |-> cn, active |-> TRUE, self |-> TRUE, is_ca |-> TRUE, eku |-> "none",
   added |-> FALSE, user |-> Absent, admin |-> Absent, adds |-> TRUE]

\* The user of a Mac trusts it, its administrator denies it.
Overruled == [Certificate("overruled") EXCEPT !.added = TRUE, !.user = Settings(<< Dict(FALSE, "any", "root") >>),
                                           !.admin = Deny]

Bundle(certs, newline) == [certs |-> certs, newline |-> newline]

\* What a certificate may be.
TrustSettings ==
  [there : BOOLEAN, dicts : Seq([scoped : BOOLEAN, policy : {"any", "ssl", "other"},
                                 result : {"deny", "asroot", "root", "other"}])]
Certificates ==
  [cn : CommonNames, active : BOOLEAN, self : BOOLEAN, is_ca : BOOLEAN,
   eku : {"none", "server", "any", "other"}, added : BOOLEAN,
   user : TrustSettings, admin : TrustSettings, adds : BOOLEAN]
AnyBundle == [certs : Seq(Certificates), newline : BOOLEAN]

ASSUME PlatformsAssumption == Platforms \subseteq {"windows", "mac", "ios", "unix"}

\* None of the required roots is on the list of the skipped ones.
ASSUME RootsAssumption == RequiredRoots \subseteq CommonNames \ Blacklisted
ASSUME NamesAssumption == "overruled" \in CommonNames
ASSUME StoresAssumption == SystemStores \subseteq Seq(Certificates)
ASSUME BundlesAssumption == Bundles \subseteq AnyBundle
ASSUME EmbeddedAssumption ==
  /\ Embedded \subseteq [builtin : AnyBundle, supplementary : AnyBundle]
  /\ \A own \in Embedded : own.supplementary.newline

CaInit == ca \in
  [ platform : Platforms, phase : {"ca_native"}, store : {{}}, found : {{}}, refused : {{}}, loaded : {FALSE},
    ca_native : BOOLEAN, given : SUBSET {"cacert", "capath"},
    system : SystemStores, cacert : Bundles, capath : Bundles, yass_ca_bundle : Bundles, own : Embedded ]

-----------------------------------------------------------------------------
(* One certificate, and the sources. *)

\* load_ca_to_x509_store_from_cert: a certificate out of its time, or with one
\* of the names, gets no further than this.
Reaches(cert) == cert.active /\ cert.cn \notin Blacklisted

\* The loops over the certificates of a source, whose order is of no account.  A
\* root is marked as found ahead of X509_STORE_add_cert, which may refuse it;
\* that is only logged.
LoadAll(c, certs, from) ==
  LET reach == {cert \in certs : Reaches(cert)}
  IN [c EXCEPT !.store = @ \cup {<<cert, from>> : cert \in {k \in reach : k.adds}},
               !.refused = @ \cup {cert.cn : cert \in {k \in reach : ~k.adds}},
               !.found = @ \cup ({cert.cn : cert \in reach} \cap RequiredRoots)]

\* What is behind the last end mark is not a certificate.
load_ca_to_ssl_ctx_from_mem(c, bundle, from) ==
  LET n == Len(bundle.certs)
  IN LoadAll(c, {bundle.certs[i] : i \in 1 .. IF bundle.newline \/ n = 0 THEN n ELSE n - 1}, from)

\* Windows: the usages of the certificate and of its properties.
IsCertTrustedForServerAuth(cert) == cert.eku \in {"none", "server", "any"}

\* Mac: the settings for a certificate, by the user and then by the administrator.
IsTrustDictionaryTrustedForPolicy(dict, is_self_issued) ==
  CASE dict.scoped \/ dict.policy \notin {"any", "ssl"} -> "UNSPECIFIED"
    [] OTHER ->
       CASE dict.result = "deny" -> "DISTRUSTED"
         [] dict.result = "asroot" -> "TRUSTED"
         [] dict.result = "root" -> IF is_self_issued THEN "TRUSTED" ELSE "UNSPECIFIED"
         [] OTHER -> "UNSPECIFIED"

FirstSpecified(statuses) ==
  LET some == {i \in DOMAIN statuses : statuses[i] # "UNSPECIFIED"}
  IN IF some = {} THEN "UNSPECIFIED"
     ELSE statuses[CHOOSE i \in some : \A j \in some : i <= j]

IsTrustSettingsTrustedForPolicy(settings, is_self_issued) ==
  CASE ~settings.there -> "UNSPECIFIED"
    [] settings.there /\ settings.dicts = << >> -> IF is_self_issued THEN "TRUSTED" ELSE "UNSPECIFIED"
    [] OTHER -> FirstSpecified([i \in DOMAIN settings.dicts |->
                  IsTrustDictionaryTrustedForPolicy(settings.dicts[i], is_self_issued)])

IsCertificateTrustedForPolicy(cert) ==
  FirstSpecified(<< IsTrustSettingsTrustedForPolicy(cert.user, cert.self),
                    IsTrustSettingsTrustedForPolicy(cert.admin, cert.self) >>)

IsNotAcceptableIntermediate(cert) ==
  ~cert.is_ca \/ cert.eku \notin {"none", "server", "any"}

\* The certificates of the system's store, or of it what the user added.
All(c) == {c.system[i] : i \in DOMAIN c.system}
Added(c) == {cert \in All(c) : cert.added}

FromSchannelStore(c, certs) ==
  LoadAll(c, {cert \in certs : IsCertTrustedForServerAuth(cert)}, "system")

FromSecTrustDomains(c, certs) ==
  LoadAll(c, {cert \in certs : /\ IsCertificateTrustedForPolicy(cert) # "DISTRUSTED"
                               /\ ~IsNotAcceptableIntermediate(cert)}, "system")

FromUnixStore(c) == LoadAll(c, All(c), "system")

load_ca_to_ssl_ctx_from_system(c, certs) ==
  CASE c.platform = "windows" -> FromSchannelStore(c, certs)
    [] c.platform = "mac" -> FromSecTrustDomains(c, certs)
    [] c.platform = "ios" -> c
    [] c.platform = "unix" -> FromUnixStore(c)

\* load_ca_to_ssl_ctx_from_system_extra: where the system tells them apart,
\* only what the user added.
load_ca_to_ssl_ctx_from_system_extra(c) == load_ca_to_ssl_ctx_from_system(c, Added(c))

-----------------------------------------------------------------------------
(* The sequence of load_ca_to_ssl_ctx. *)

\* load_ca_to_ssl_ctx_cacert: a source that was asked for counts as loaded,
\* whether it gave anything or not.
CaNative ==
  /\ ca.phase = "ca_native"
  /\ ca' = [(IF ca.ca_native THEN load_ca_to_ssl_ctx_from_system(ca, All(ca)) ELSE ca)
              EXCEPT !.loaded = ca.ca_native, !.phase = "cacert"]

CaCert ==
  /\ ca.phase = "cacert"
  /\ ca' = [(IF "cacert" \in ca.given THEN load_ca_to_ssl_ctx_from_mem(ca, ca.cacert, "cacert") ELSE ca)
              EXCEPT !.loaded = @ \/ "cacert" \in ca.given, !.phase = "capath"]

CaPath ==
  /\ ca.phase = "capath"
  /\ LET loaded == ca.loaded \/ "capath" \in ca.given
         c == IF "capath" \in ca.given THEN load_ca_to_ssl_ctx_from_mem(ca, ca.capath, "capath") ELSE ca
     IN ca' = [c EXCEPT !.loaded = loaded, !.phase = IF loaded THEN "done" ELSE "yass_ca_bundle"]

\* load_ca_to_ssl_ctx_yass_ca_bundle: a file beside the program, with something in it.
YassCaBundle ==
  /\ ca.phase = "yass_ca_bundle"
  /\ LET c == IF ca.platform = "windows"
                THEN load_ca_to_ssl_ctx_from_mem(ca, ca.yass_ca_bundle, "yass_ca_bundle") ELSE ca
     IN ca' = [c EXCEPT !.phase = IF c.store # ca.store THEN "done" ELSE "system_extra"]

SystemExtra ==
  /\ ca.phase = "system_extra"
  /\ ca' = [load_ca_to_ssl_ctx_from_system_extra(ca) EXCEPT !.phase = "builtin"]

BuiltinBundle ==
  /\ ca.phase = "builtin"
  /\ ca' = [load_ca_to_ssl_ctx_from_mem(ca, ca.own.builtin, "builtin") EXCEPT !.phase = "done"]

\* Mutant: only a store with none of the roots is completed.
Supplement_none ==
  /\ ca.phase = "done"
  /\ LET c == IF ca.found = {} THEN load_ca_to_ssl_ctx_from_mem(ca, ca.own.supplementary, "supplementary") ELSE ca
     IN ca' = [c EXCEPT !.phase = "end"]

\* The supplementary bundle is loaded like any other, where a root was not found.
Supplement ==
  /\ ca.phase = "done"
  /\ LET c == IF ca.found # RequiredRoots
              THEN load_ca_to_ssl_ctx_from_mem(ca, ca.own.supplementary, "supplementary") ELSE ca
     IN ca' = [c EXCEPT !.phase = "end"]

CaNext ==
  CaNative \/ CaCert \/ CaPath \/ YassCaBundle \/ SystemExtra \/ BuiltinBundle \/ Supplement

-----------------------------------------------------------------------------
(* Properties. *)

\* Whatever the sources hold, no certificate gets in that is not valid now,
\* that is on the list of the skipped ones, or that the system's own store
\* has for something else than servers; and of a Mac none that its user
\* denies, nor one its administrator denies unless the user trusts it.
StoreSound == \A entry \in ca.store :
  LET cert == entry[1] IN
  /\ cert.active /\ cert.cn \notin Blacklisted
  /\ entry[2] = "system" /\ ca.platform \in {"windows", "mac"} => cert.eku # "other"
  /\ entry[2] = "system" /\ ca.platform = "mac" =>
       cert.is_ca /\ cert.user # Deny /\ (cert.admin = Deny => cert.user.there)

HasInTime(bundle, cn) == \E i \in DOMAIN bundle.certs : bundle.certs[i].cn = cn /\ bundle.certs[i].active

\* However it was configured, the context ends up with every required root that
\* the program itself has in its time, unless the store refused one of that
\* name; and when the stores of a Mac were looked at, with the root its user trusts
\* against the administrator ("User settings can override admin").
RootsThere == ca.phase = "end" =>
  LET from == {entry[2] : entry \in ca.store} IN
  /\ \A cn \in RequiredRoots : \/ cn \in ca.refused
                                \/ ~HasInTime(ca.own.supplementary, cn)
                                \/ \E entry \in ca.store : entry[1].cn = cn
  /\ /\ ca.platform = "mac" /\ (ca.ca_native \/ "builtin" \in from)
     /\ \E i \in DOMAIN ca.system : ca.system[i] = Overruled
     => <<Overruled, "system">> \in ca.store

\* No certificate is trusted that is out of its time, skipped by name, or kept
\* by the system for something else; and the required roots that are in their
\* time are there, however the sources end.
StoreRight == StoreSound /\ RootsThere

CaSpec == CaInit /\ [][CaNext]_ca
=============================================================================

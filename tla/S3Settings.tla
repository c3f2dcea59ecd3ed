------------------------------ MODULE S3Settings ------------------------------
(***************************************************************************)
(* From the AWS variables and shared files to two S3 clients: xdu resolves *)
(* the settings once, its writer builds an HTTP client from them, and its  *)
(* readers hand them to DuckDB's httpfs statement by statement.            *)
(*                                                                         *)
(* A credential is known by where it comes from, a URL by what the parser  *)
(* judges it on, and a CA file by the certificates and other blocks it     *)
(* holds; httpfs, OpenSSL and the writer's TLS stack are external.         *)
(***************************************************************************)
EXTENDS Ini, Integers

CONSTANTS
  Worlds,        \* what the variables, the shared files and the CA files can hold
  Regional,      \* an AWS region's endpoint: region -> host
  Url,           \* what a URL is made of: text -> [scheme, tail, user, host, port]
  Faults         \* the steps to the first request that may fail

Var == {"profile", "id", "secret", "token", "region", "default_region",
        "endpoint_s3", "endpoint", "ca_bundle", "duckdb_endpoint"}

\* A variable or value that is not there; one that is set and empty is as good.
None == ""
Undecodable == "not UTF-8"

\* A file that is not there, or there is no path to; one that cannot be read.
Absent == [state |-> "absent"]
Unreadable == [state |-> "unreadable"]
Holding(it) == [state |-> "read", holds |-> it]

\* A host with a character that URL parsers read apart, a port that is no number.
OddHost == "host\\odd"
OddPort == ":odd"

DefaultRegion == "us-east-1"
RegionName(r) == r \in DOMAIN Regional

ASSUME SettingsOK ==
  /\ \A w \in Worlds : DOMAIN w.env = Var
  /\ \A u \in DOMAIN Url : DOMAIN Url[u] = {"scheme", "tail", "user", "host", "port"}
  /\ DefaultRegion \in DOMAIN Regional
  /\ Faults \subseteq {"load", "tls", "secret"}

VARIABLES
  env, credentials, config,  \* the variables, and the two shared files
  bundles,     \* the CA files: what AWS_CA_BUNDLE names, and the platform's in order
  pc, cause,   \* where resolve is, and why it failed
  settings,    \* what is resolved so far
  conn         \* what the reader's connection has been told, in order
vars == <<env, credentials, config, bundles, pc, cause, settings, conn>>
sources == <<env, credentials, config, bundles>>

Go(label) == pc' = label /\ UNCHANGED cause
Fail(why) == pc' = "failed" /\ cause' = why

\* env_text
Text(v) == env[v]
Bad(V)  == \E v \in V : Text(v) = Undecodable

\* The first of these that is not None, or None.
FirstOf(s) ==
  LET known == {i \in DOMAIN s : s[i] # None} IN IF known = {} THEN None ELSE s[Min(known)]

-----------------------------------------------------------------------------
(* Profile and credentials.                                                *)

DEFAULT_PROFILE == "default"
Profile == IF Text("profile") = None THEN DEFAULT_PROFILE ELSE Text("profile")

\* load_ini: an absent file is an empty one.
Load(file) == IF file.state = "absent" THEN EmptyIni ELSE Parse(file.holds)

CredentialsSection ==
  IF <<"", Profile>> \in Load(credentials).names THEN <<"", Profile>> ELSE NoName

\* config_profile
ConfigSection ==
  LET names == Load(config).names IN
  IF <<"profile", Profile>> \in names THEN <<"profile", Profile>>
  ELSE IF Profile = DEFAULT_PROFILE /\ <<"", Profile>> \in names THEN <<"", Profile>>
  ELSE NoName

ResolveProfile ==
  /\ pc = "profile"
  /\ IF Bad({"profile"}) THEN Fail("encoding")
     ELSE IF "unreadable" \in {credentials.state, config.state} THEN Fail("unreadable file")
     ELSE IF Text("profile") # None /\ CredentialsSection = NoName /\ ConfigSection = NoName
          THEN Fail("no such profile")
     ELSE Go("credentials")
  /\ UNCHANGED <<sources, settings, conn>>

NoKeys == [id |-> None, secret |-> None, token |-> None]
Half(keys) == (keys.id = None) # (keys.secret = None)

EnvKeys == [id |-> Text("id"), secret |-> Text("secret"), token |-> Text("token")]

\* file_credentials; the token alone makes no keys.
FileKeys(file, section) ==
  LET Key(k) == Value(Load(file), section, k)
      keys   == [id |-> Key("id"), secret |-> Key("secret"), token |-> Key("token")]
  IN IF section = NoName \/ (keys.id = None /\ keys.secret = None) THEN NoKeys ELSE keys

\* What one source says of the keys bears its name.
OneSource(said) == \A a, b \in said \ {None} : a = b

ASSUME KeysAreNamed ==
  \A w \in Worlds :
    /\ LET said == {w.env["id"], w.env["secret"], w.env["token"]}
       IN Undecodable \notin said => OneSource(said)
    /\ \A file \in {w.credentials, w.config} : file.state # "unreadable" =>
         \A section \in Load(file).names :
           LET keys == FileKeys(file, section) IN OneSource({keys.id, keys.secret, keys.token})

TakeKeys(keys) ==
  /\ settings' = [settings EXCEPT !.keys = keys]
  /\ Go("region")
KeysFail(why) == Fail(why) /\ UNCHANGED settings

\* Both files are judged, the second one even when the first has the keys.
ResolveFileKeys ==
  LET first  == FileKeys(credentials, CredentialsSection)
      second == FileKeys(config, ConfigSection)
  IN IF Half(first) \/ Half(second) THEN KeysFail("half a pair in a profile")
     ELSE IF first # NoKeys THEN TakeKeys(first)
     ELSE IF second # NoKeys THEN TakeKeys(second)
     ELSE KeysFail("no credentials")

\* A slip: a token of the environment goes with any keys.
ResolveKeys_AnyToken ==
  /\ pc = "credentials"
  /\ IF Bad({"id", "secret", "token"}) THEN KeysFail("encoding")
     ELSE IF Half(EnvKeys) THEN KeysFail("half a pair in the environment")
     ELSE IF EnvKeys.id # None THEN TakeKeys(EnvKeys)
     ELSE \/ /\ Text("token") # None
             /\ FileKeys(credentials, CredentialsSection) # NoKeys
             /\ TakeKeys([FileKeys(credentials, CredentialsSection) EXCEPT !.token = Text("token")])
          \/ Text("token") = None /\ ResolveFileKeys
  /\ UNCHANGED <<sources, conn>>

ResolveKeys ==
  /\ pc = "credentials"
  /\ IF Bad({"id", "secret", "token"}) THEN KeysFail("encoding")
     ELSE IF Half(EnvKeys) THEN KeysFail("half a pair in the environment")
     ELSE IF EnvKeys.id # None THEN TakeKeys(EnvKeys)
     ELSE IF EnvKeys.token # None THEN KeysFail("a token alone")
     ELSE ResolveFileKeys
  /\ UNCHANGED <<sources, conn>>

-----------------------------------------------------------------------------
(* Region and endpoint.                                                    *)

ResolveRegion ==
  /\ pc = "region"
  /\ IF Bad({"region"}) \/ (Text("region") = None /\ Bad({"default_region"}))
     THEN Fail("encoding") /\ UNCHANGED settings
     ELSE /\ settings' = [settings EXCEPT !.region =
               FirstOf(<<Text("region"), Text("default_region"),
                         Value(Load(config), ConfigSection, "region"), DefaultRegion>>)]
          /\ Go("endpoint")
  /\ UNCHANGED <<sources, conn>>

\* S3Endpoint::parse: scheme, host and port, and nothing else.
BareUrl(u) ==
  /\ u.scheme \in {"http", "https"}
  /\ u.tail \in {"", "/"}
  /\ ~u.user
  /\ u.host \notin {"", OddHost}
  /\ u.port # OddPort

\* The first source that names one; the profile's section comes after its services'.
EndpointText ==
  LET ini      == Load(config)
      services == Value(ini, ConfigSection, "services")
  IN FirstOf(<<Text("endpoint_s3"), Text("endpoint"),
       IF services = None THEN None
       ELSE Nested(ini, <<"services", services>>, "s3", "endpoint_url"),
       Value(ini, ConfigSection, "endpoint_url")>>)

ResolveEndpoint ==
  /\ pc = "endpoint"
  /\ IF Bad({"endpoint_s3"}) \/ (Text("endpoint_s3") = None /\ Bad({"endpoint"}))
     THEN Fail("encoding") /\ UNCHANGED settings
     ELSE IF EndpointText # None /\ ~BareUrl(Url[EndpointText])
     THEN Fail("not a bare URL") /\ UNCHANGED settings
     ELSE IF EndpointText = None /\ ~RegionName(settings.region)
     THEN Fail("not a region") /\ UNCHANGED settings
     ELSE settings' = [settings EXCEPT !.endpoint = EndpointText] /\ Go("trust")
  /\ UNCHANGED <<sources, conn>>

PathStyle == settings.endpoint # None
UseSsl    == settings.endpoint = None \/ Url[settings.endpoint].scheme = "https"

\* endpoint_authority: host and port.
Authority ==
  IF settings.endpoint = None THEN <<Regional[settings.region], "">>
  ELSE <<Url[settings.endpoint].host, Url[settings.endpoint].port>>

\* client_endpoint_url of the bucket
ClientEndpoint == [ssl |-> UseSsl, authority |-> Authority, vhost |-> ~PathStyle]

-----------------------------------------------------------------------------
(* Trust.                                                                  *)

\* What a CA file can hold: certificates, and blocks a TLS stack chokes on, reads
\* alone, or skips.  An intermediate is issued by a root; a weak root signs itself
\* with an algorithm the writer does not verify; an odd certificate is none that
\* webpki will anchor at.
Roots         == {"root", "other root"}
Intermediates == {"intermediate"}
Anchors       == Roots \cup Intermediates \cup {"weak root"}
Certificates  == Anchors \cup {"odd certificate"}
Choking       == {"TRUSTED CERTIFICATE", "not PEM", "not DER"}
Blocks        == Certificates \cup Choking \cup {"private key"}

\* A slip: any certificate is enough.
Usable_AnyAnchor(blocks) == blocks \cap Choking = {} /\ blocks \cap Anchors # {}

\* bundle_certificates
Usable(blocks) == blocks \cap Choking = {} /\ blocks \cap Roots # {}

\* resolve_trust: the file that is named, or the first of the platform's that is
\* there; one that will not do is not passed over.
FirstThere(files) ==
  LET there == SelectSeq(files, LAMBDA f : f.state # "absent")
  IN IF there = <<>> THEN Absent ELSE there[1]
TrustFile == IF Text("ca_bundle") # None THEN bundles.named ELSE FirstThere(bundles.platform)

ResolveTrust ==
  /\ pc = "trust"
  /\ IF ~UseSsl THEN Go("load") /\ UNCHANGED settings
     ELSE IF Bad({"ca_bundle"}) THEN Fail("encoding") /\ UNCHANGED settings
     ELSE IF TrustFile.state = "read" /\ Usable(TrustFile.holds)
     THEN settings' = [settings EXCEPT !.trust = TrustFile.holds \cap Anchors] /\ Go("load")
     ELSE Fail("no usable trust") /\ UNCHANGED settings
  /\ UNCHANGED <<sources, conn>>

-----------------------------------------------------------------------------
(* The reader's connection: open_s3_connection_from, then a request.       *)

Tell(statement, next, step) ==
  \/ conn' = Append(conn, statement) /\ Go(next)
  \/ step \in Faults /\ Fail(step) /\ UNCHANGED conn

LoadExtension ==
  /\ pc = "load" /\ Tell("LOAD httpfs", "tls", "load")
  /\ UNCHANGED <<sources, settings>>

\* duckdb_tls_statements
TlsStatements ==
  LET always == <<"client httplib", "verify", "verify curl">>
  IN IF UseSsl THEN Append(always, "CA file") ELSE always

\* A slip: the secret before the statements about TLS.
PinTls_Later ==
  /\ pc = "tls"
  /\ Tell("CREATE SECRET", "secret", "secret")
  /\ UNCHANGED <<sources, settings>>

PinTls ==
  /\ pc = "tls"
  /\ LET told == Len(conn) - 1 IN
     Tell(TlsStatements[told + 1], IF told + 1 = Len(TlsStatements) THEN "secret" ELSE "tls", "tls")
  /\ UNCHANGED <<sources, settings>>

\* A slip: the endpoint of AWS is left to httpfs.
SecretStatement_OverrideOnly ==
  [URL_STYLE |-> IF PathStyle THEN "path" ELSE "vhost",
   USE_SSL |-> UseSsl, SESSION_TOKEN |-> settings.keys.token]
  @@ IF settings.endpoint = None THEN <<>> ELSE [ENDPOINT |-> Authority]

\* duckdb_secret_statement, the keys httpfs would else take from its settings.
SecretStatement ==
  [ENDPOINT |-> Authority, URL_STYLE |-> IF PathStyle THEN "path" ELSE "vhost",
   USE_SSL |-> UseSsl, SESSION_TOKEN |-> settings.keys.token]

CreateSecret ==
  /\ pc = "secret" /\ Tell("CREATE SECRET", "request", "secret")
  /\ UNCHANGED <<sources, settings>>

Request ==
  /\ pc = "request" /\ conn' = Append(conn, "request") /\ Go("done")
  /\ UNCHANGED <<sources, settings>>

\* Where httpfs sends it: for a key the secret lacks it falls back on a variable.
ReaderEndpoint ==
  LET secret == SecretStatement IN
  [ssl       |-> secret.USE_SSL,
   authority |-> IF "ENDPOINT" \in DOMAIN secret THEN secret.ENDPOINT
                 ELSE <<Text("duckdb_endpoint"), "">>,
   vhost     |-> secret.URL_STYLE = "vhost"]

-----------------------------------------------------------------------------

Init ==
  /\ \E w \in Worlds :
       /\ env = w.env /\ credentials = w.credentials /\ config = w.config
       /\ bundles = [named |-> w.named, platform |-> w.platform]
  /\ pc = "profile" /\ cause = ""
  /\ settings = [keys |-> NoKeys, region |-> None, endpoint |-> None, trust |-> {}]
  /\ conn = <<>>

Next ==
  \/ ResolveProfile \/ ResolveKeys \/ ResolveRegion \/ ResolveEndpoint \/ ResolveTrust
  \/ LoadExtension \/ PinTls \/ CreateSecret \/ Request

Spec == Init /\ [][Next]_vars

-----------------------------------------------------------------------------
(* Properties.                                                             *)

Resolved == pc \in {"load", "tls", "secret", "request", "done"}

\* "AWS_ACCESS_KEY_ID with AWS_SECRET_ACCESS_KEY (and AWS_SESSION_TOKEN if set), else
\* the profile in the shared credentials file, else the same profile in the config
\* file": key, secret and token are all of one source, the first to have a pair.  "It
\* fails closed": nothing is resolved over a half pair that the keys could have come
\* from, a token alone, or a profile that is named and nowhere defined.
OneKeyPair ==
  Resolved =>
    LET keys  == settings.keys
        first == FileKeys(credentials, CredentialsSection)
    IN /\ keys.id # None /\ keys.secret = keys.id /\ keys.token \in {None, keys.id}
       /\ keys.id = FirstOf(<<Text("id"), first.id, FileKeys(config, ConfigSection).id>>)
       /\ ~Half(EnvKeys) /\ (EnvKeys.id = None => EnvKeys.token = None)
       /\ EnvKeys.id = None =>
            \A file \in {<<credentials, CredentialsSection>>, <<config, ConfigSection>>} :
              ~Half(FileKeys(file[1], file[2]))
       /\ Text("profile") # None => NoName \notin {CredentialsSection} \cap {ConfigSection}

\* "so both reach the same host": the requests of the readers' engine go where the
\* writer's went, whatever variables the engine reads of its own.
SameEndpoint == pc = "done" => ReaderEndpoint = ClientEndpoint

\* "Each statement runs before the secret and before any request": no connection
\* holds the credentials unless it verifies every server, against the file chosen
\* when there is TLS.
VerifiedFirst ==
  \A i \in 1 .. Len(conn) : conn[i] \in {"CREATE SECRET", "request"} =>
    LET told == {conn[j] : j \in 1 .. i - 1} IN
    /\ {"client httplib", "verify", "verify curl"} \subseteq told
    /\ UseSsl => "CA file" \in told /\ settings.trust # {}

\* A server's chain, by the CA certificates on it, up to a root.  The writer stops
\* at any it knows; OpenSSL goes on to the root, and loads the file only whole.
Chains == {{r} : r \in Roots \cup {"weak root"}} \cup {{"intermediate", "root"}}
WriterAccepts(chain) == chain \cap settings.trust # {}
ReaderAccepts(chain, blocks) == blocks \cap Choking = {} /\ chain \ Intermediates \subseteq blocks

\* "would let the writer build an index the readers then refuse": a server that the
\* writer sends an index to, the readers with the same settings will read it from, as
\* long as "an intermediate [ships] with its own root": not with a CA file that has
\* the root of another authority and lacks its own.  One with no root is refused.
WriterIsReadable ==
  /\ Resolved /\ UseSsl
  /\ TrustFile.holds \cap (Intermediates \cup Roots) # {"intermediate", "other root"}
  =>
    \A chain \in Chains : WriterAccepts(chain) => ReaderAccepts(chain, TrustFile.holds)
===============================================================================

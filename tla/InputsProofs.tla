------------------------------- MODULE InputsProofs -------------------------------
(***************************************************************************)
(* What xdu makes of what it is given (the parts MCInputs puts together).  *)
(*                                                                         *)
(* The settings, for any variables, shared files, CA files, regions and    *)
(* URLs: the keys are all of the first source that has any, the connection *)
(* that holds them verifies every server and asks where the writer wrote,  *)
(* and what the writer trusts the readers do.                              *)
(*                                                                         *)
(* The time, for every day from the epoch on: the stamp of a log record is *)
(* what a calendar shows.                                                  *)
(*                                                                         *)
(* The day filters, for any counts of days, rows and seconds: they list by *)
(* age.  The shared files, for any lines: a value is that of the last line *)
(* that gives it.                                                          *)
(***************************************************************************)
EXTENDS S3Settings, MCIni, MCClock, MCFilters, TLAPS

-----------------------------------------------------------------------------
(* The settings                                                            *)

Steps  == {"profile", "credentials", "region", "endpoint", "trust"}
Told   == {"load", "tls", "secret", "request", "done"}
Pins       == {"client httplib", "verify", "verify curl", "CA file"}
Statements == Pins \cup {"LOAD httpfs", "CREATE SECRET", "request"}

Labels == Steps \cup Told \cup {"failed"}

Past(before) == pc \notin before \cup {"failed"}

-----------------------------------------------------------------------------
(* What is resolved, and stays so.                                         *)

TypeOK ==
  /\ pc \in Labels
  /\ settings = [keys |-> settings.keys, region |-> settings.region,
                 endpoint |-> settings.endpoint, trust |-> settings.trust]
  /\ conn \in Seq(Statements)

First  == FileKeys(credentials, CredentialsSection)
Second == FileKeys(config, ConfigSection)

\* The whole keys of the first source that has an id.
ChosenKeys ==
  IF EnvKeys.id # None THEN EnvKeys ELSE IF First # NoKeys THEN First ELSE Second

FromAWorld ==
  \E w \in Worlds : env = w.env /\ credentials = w.credentials /\ config = w.config

ProfileIsDefined ==
  Past({"profile"}) =>
    /\ "unreadable" \notin {credentials.state, config.state}
    /\ Text("profile") = None \/ CredentialsSection # NoName \/ ConfigSection # NoName

KeysAreChosen ==
  Past({"profile", "credentials"}) =>
    /\ settings.keys = ChosenKeys /\ ChosenKeys.id # None
    /\ ~Bad({"id", "secret", "token"}) /\ ~Half(EnvKeys)
    /\ EnvKeys.id = None => EnvKeys.token = None /\ ~Half(First) /\ ~Half(Second)

\* The endpoint is a bare URL, or that of a region of AWS.
EndpointIsBare ==
  Past({"profile", "credentials", "region", "endpoint"}) =>
    IF settings.endpoint = None
    THEN RegionName(settings.region) ELSE BareUrl(Url[settings.endpoint])

TrustIsUsable ==
  Past(Steps) /\ UseSsl => Usable(TrustFile.holds) /\ settings.trust = TrustFile.holds \cap Anchors

-----------------------------------------------------------------------------
(* What the connection is told, in order.                                  *)

Script(i) ==
  IF i = 1 THEN "LOAD httpfs"
  ELSE IF i <= 1 + Len(TlsStatements) THEN TlsStatements[i - 1]
  ELSE IF i = 2 + Len(TlsStatements) THEN "CREATE SECRET" ELSE "request"

ConnFollows ==
  /\ \A i \in 1 .. Len(conn) : conn[i] = Script(i)
  /\ conn # <<>> /\ UseSsl => settings.trust # {}
  /\ pc \in Steps \cup {"load"} => conn = <<>>
  /\ pc = "tls" => Len(conn) \in 1 .. Len(TlsStatements)
  /\ pc = "secret" => Len(conn) = 1 + Len(TlsStatements)
  /\ pc = "request" => Len(conn) = 2 + Len(TlsStatements)

SettingsInv ==
  /\ TypeOK
  /\ FromAWorld /\ ProfileIsDefined /\ KeysAreChosen /\ EndpointIsBare /\ TrustIsUsable
  /\ ConnFollows


-----------------------------------------------------------------------------

LEMMA FirstOfThree ==
  ASSUME NEW a, NEW b, NEW c
  PROVE  FirstOf(<<a, b, c>>) = IF a # None THEN a ELSE IF b # None THEN b ELSE c
<1> DEFINE s == <<a, b, c>>
           known == {i \in DOMAIN s : s[i] # None}
<1>1. DOMAIN s = {1, 2, 3} /\ s[1] = a /\ s[2] = b /\ s[3] = c
  OBVIOUS
<1>2. \A x \in known : (\A y \in known : x <= y) => Min(known) = x
  <2> SUFFICES ASSUME NEW x \in known, \A y \in known : x <= y PROVE Min(known) = x
    OBVIOUS
  <2>1. \A z \in known : (\A y \in known : z <= y) => z = x
    BY <1>1
  <2>2. QED
    BY <2>1 DEF Min
<1>3. CASE a # None
  <2>1. 1 \in known /\ \A y \in known : 1 <= y
    BY <1>1, <1>3
  <2>2. QED
    BY <1>1, <1>2, <1>3, <2>1 DEF FirstOf
<1>4. CASE a = None /\ b # None
  <2>1. 2 \in known /\ \A y \in known : 2 <= y
    BY <1>1, <1>4
  <2>2. QED
    BY <1>1, <1>2, <1>4, <2>1 DEF FirstOf
<1>5. CASE a = None /\ b = None /\ c # None
  <2>1. 3 \in known /\ \A y \in known : 3 <= y
    BY <1>1, <1>5
  <2>2. QED
    BY <1>1, <1>2, <1>5, <2>1 DEF FirstOf
<1>6. CASE a = None /\ b = None /\ c = None
  <2>1. known = {}
    BY <1>1, <1>6
  <2>2. QED
    BY <1>6, <2>1 DEF FirstOf
<1>7. QED
  BY <1>3, <1>4, <1>5, <1>6

Always   == <<"client httplib", "verify", "verify curl">>
OverTls  == Append(Always, "CA file")

LEMMA TlsStatementsCases ==
  (UseSsl /\ TlsStatements = OverTls) \/ (~UseSsl /\ TlsStatements = Always)
  BY DEF TlsStatements, OverTls, Always

LEMMA TlsStatementsCount ==
  /\ Len(TlsStatements) \in 3 .. 4
  /\ UseSsl => Len(TlsStatements) = 4
<1>1. Len(Always) = 3 /\ Len(OverTls) = 4
  BY DEF Always, OverTls
<1>2. QED
  BY <1>1, TlsStatementsCases

LEMMA TlsStatementIsPin == \A i \in 1 .. Len(TlsStatements) : TlsStatements[i] \in Pins
<1>1. Always \in Seq(Pins) /\ OverTls \in Seq(Pins)
  BY DEF Pins, Always, OverTls
<1>2. TlsStatements \in Seq(Pins)
  BY <1>1, TlsStatementsCases
<1>3. QED
  BY <1>2

LEMMA TlsStatementsAre ==
  /\ TlsStatements[1] = "client httplib" /\ TlsStatements[2] = "verify"
  /\ TlsStatements[3] = "verify curl" /\ (UseSsl => TlsStatements[4] = "CA file")
<1>1. /\ Always[1] = "client httplib" /\ Always[2] = "verify" /\ Always[3] = "verify curl"
      /\ OverTls[1] = "client httplib" /\ OverTls[2] = "verify" /\ OverTls[3] = "verify curl"
      /\ OverTls[4] = "CA file"
  BY DEF Always, OverTls
<1>2. QED
  BY <1>1, TlsStatementsCases

-----------------------------------------------------------------------------

\* The sources are read only.
LEMMA SourcesKeep ==
  ASSUME UNCHANGED sources
  PROVE  /\ UNCHANGED <<CredentialsSection, ConfigSection, TrustFile>>
         /\ UNCHANGED <<First, Second, EnvKeys, ChosenKeys>>
         /\ \A v : Text(v)' = Text(v)
         /\ FromAWorld => FromAWorld'
<1>1. env' = env /\ credentials' = credentials /\ config' = config /\ bundles' = bundles
  BY DEF sources
<1>2. \A v : Text(v)' = Text(v)
  BY <1>1 DEF Text
<1>3. CredentialsSection' = CredentialsSection
  BY <1>1 DEF CredentialsSection, Profile, Text
<1>4. ConfigSection' = ConfigSection
  BY <1>1 DEF ConfigSection, Profile, Text
<1>5. First' = First /\ Second' = Second
  BY <1>1, <1>3, <1>4 DEF First, Second
<1>6. EnvKeys' = EnvKeys
  BY <1>1 DEF EnvKeys, Text
<1>7. ChosenKeys' = ChosenKeys
  BY <1>5, <1>6 DEF ChosenKeys
<1>8. TrustFile' = TrustFile
  BY <1>1 DEF TrustFile, Text
<1>9. FromAWorld => FromAWorld'
  BY <1>1 DEF FromAWorld
<1>10. QED
  BY <1>2, <1>3, <1>4, <1>5, <1>6, <1>7, <1>8, <1>9

LEMMA InitInv == Init => SettingsInv
<1> SUFFICES ASSUME Init PROVE SettingsInv
  OBVIOUS
<1>1. TypeOK
  <2>1. settings = [keys |-> NoKeys, region |-> None, endpoint |-> None, trust |-> {}]
    BY DEF Init
  <2>2. settings = [keys |-> settings.keys, region |-> settings.region,
                    endpoint |-> settings.endpoint, trust |-> settings.trust]
    BY <2>1
  <2>3. conn = <<>> /\ pc = "profile"
    BY DEF Init
  <2>4. QED
    BY <2>2, <2>3 DEF TypeOK, Labels, Steps
<1>2. FromAWorld
  BY DEF Init, FromAWorld
<1>3. pc = "profile" /\ conn = <<>>
  BY DEF Init
<1>4. ProfileIsDefined /\ KeysAreChosen /\ EndpointIsBare /\ TrustIsUsable
  BY <1>3 DEF ProfileIsDefined, KeysAreChosen, EndpointIsBare, TrustIsUsable, Past, Steps
<1>5. ConnFollows
  BY <1>3 DEF ConnFollows
<1>6. QED
  BY <1>1, <1>2, <1>4, <1>5 DEF SettingsInv

\* What a step of resolve owes to those before it and to the connection.
LEMMA ResolveKeeps ==
  ASSUME SettingsInv, UNCHANGED <<sources, conn>>,
         pc \in Steps, pc' \in Steps \cup {"load", "failed"}
  PROVE  FromAWorld' /\ ConnFollows' /\ conn' \in Seq(Statements) /\ pc' \in Labels
<1>1. conn = <<>> /\ conn' = <<>>
  BY DEF SettingsInv, ConnFollows
<1>2. ConnFollows'
  BY <1>1 DEF ConnFollows, Steps
<1>3. FromAWorld'
  BY SourcesKeep DEF SettingsInv
<1>4. QED
  BY <1>1, <1>2, <1>3 DEF Labels, Told

\* A step that fails owes nothing else.
LEMMA FailKeeps ==
  ASSUME SettingsInv, UNCHANGED <<sources, conn, settings>>, pc \in Steps, pc' = "failed"
  PROVE  SettingsInv'
<1>1. FromAWorld' /\ ConnFollows' /\ conn' \in Seq(Statements) /\ pc' \in Labels
  BY ResolveKeeps
<1>2. TypeOK'
  BY <1>1 DEF TypeOK, SettingsInv
<1>3. ProfileIsDefined' /\ KeysAreChosen' /\ EndpointIsBare' /\ TrustIsUsable'
  BY DEF ProfileIsDefined, KeysAreChosen, EndpointIsBare, TrustIsUsable, Past
<1>4. QED
  BY <1>1, <1>2, <1>3 DEF SettingsInv

LEMMA ProfileInv ==
  ASSUME SettingsInv, ResolveProfile
  PROVE  SettingsInv'
<1>1. pc = "profile" /\ UNCHANGED <<sources, conn, settings>>
  BY DEF ResolveProfile
<1>2. CASE pc' = "failed"
  BY <1>1, <1>2, FailKeeps DEF Steps
<1>3. CASE pc' = "credentials"
  <2>1. FromAWorld' /\ ConnFollows' /\ conn' \in Seq(Statements) /\ pc' \in Labels
    BY <1>1, <1>3, ResolveKeeps DEF Steps
  <2>2. TypeOK'
    BY <1>1, <2>1 DEF TypeOK, SettingsInv
  <2>3. /\ "unreadable" \notin {credentials.state, config.state}
        /\ Text("profile") = None \/ CredentialsSection # NoName \/ ConfigSection # NoName
    BY <1>3 DEF ResolveProfile, Go, Fail
  <2>4. ProfileIsDefined'
    BY <1>1, <2>3, SourcesKeep DEF ProfileIsDefined, sources
  <2>5. KeysAreChosen' /\ EndpointIsBare' /\ TrustIsUsable'
    BY <1>3 DEF KeysAreChosen, EndpointIsBare, TrustIsUsable, Past, Steps
  <2>6. QED
    BY <2>1, <2>2, <2>4, <2>5 DEF SettingsInv
<1>4. QED
  BY <1>2, <1>3 DEF ResolveProfile, Go, Fail

\* Keys of a file that are kept have an id: a file that has neither has no keys.
LEMMA FileKeysHaveId ==
  ASSUME NEW file, NEW section, FileKeys(file, section) # NoKeys, ~Half(FileKeys(file, section))
  PROVE  FileKeys(file, section).id # None
  BY DEF FileKeys, Half, NoKeys

LEMMA KeysInv ==
  ASSUME SettingsInv, ResolveKeys
  PROVE  SettingsInv'
<1> USE DEF SettingsInv
<1>1. pc = "credentials" /\ UNCHANGED <<sources, conn>>
  BY DEF ResolveKeys
<1>2. \/ pc' = "failed" /\ UNCHANGED settings
      \/ /\ pc' = "region" /\ settings' = [settings EXCEPT !.keys = ChosenKeys]
         /\ ChosenKeys.id # None
         /\ ~Bad({"id", "secret", "token"}) /\ ~Half(EnvKeys)
         /\ EnvKeys.id = None => EnvKeys.token = None /\ ~Half(First) /\ ~Half(Second)
  <2>1. \A why : KeysFail(why) => pc' = "failed" /\ UNCHANGED settings
    BY DEF KeysFail, Fail
  <2>2. \A keys : TakeKeys(keys) => pc' = "region" /\ settings' = [settings EXCEPT !.keys = keys]
    BY DEF TakeKeys, Go
  <2>3. CASE Bad({"id", "secret", "token"}) \/ Half(EnvKeys)
    BY <2>1, <2>3 DEF ResolveKeys
  <2>4. CASE ~Bad({"id", "secret", "token"}) /\ ~Half(EnvKeys) /\ EnvKeys.id # None
    BY <2>2, <2>4 DEF ResolveKeys, ChosenKeys
  <2>5. CASE /\ ~Bad({"id", "secret", "token"}) /\ ~Half(EnvKeys)
             /\ EnvKeys.id = None /\ EnvKeys.token # None
    BY <2>1, <2>5 DEF ResolveKeys
  <2>6. CASE /\ ~Bad({"id", "secret", "token"}) /\ ~Half(EnvKeys)
             /\ EnvKeys.id = None /\ EnvKeys.token = None
    <3>1. ResolveFileKeys
      BY <2>6 DEF ResolveKeys
    <3>2. CASE Half(First) \/ Half(Second)
      BY <2>1, <3>1, <3>2 DEF ResolveFileKeys, First, Second
    <3>3. CASE ~Half(First) /\ ~Half(Second) /\ First # NoKeys
      <4>1. TakeKeys(First) /\ First.id # None
        BY <3>1, <3>3, FileKeysHaveId DEF ResolveFileKeys, First, Second
      <4>2. QED
        BY <2>2, <2>6, <3>3, <4>1 DEF ChosenKeys
    <3>4. CASE ~Half(First) /\ ~Half(Second) /\ First = NoKeys /\ Second # NoKeys
      <4>1. TakeKeys(Second) /\ Second.id # None
        BY <3>1, <3>4, FileKeysHaveId DEF ResolveFileKeys, First, Second
      <4>2. QED
        BY <2>2, <2>6, <3>4, <4>1 DEF ChosenKeys
    <3>5. CASE ~Half(First) /\ ~Half(Second) /\ First = NoKeys /\ Second = NoKeys
      BY <2>1, <3>1, <3>5 DEF ResolveFileKeys, First, Second
    <3>6. QED
      BY <3>2, <3>3, <3>4, <3>5
  <2>7. QED
    BY <2>3, <2>4, <2>5, <2>6
<1>3. CASE pc' = "failed" /\ UNCHANGED settings
  BY <1>1, <1>3, FailKeeps DEF Steps
<1>4. CASE ~(pc' = "failed" /\ UNCHANGED settings)
  <2>1. /\ pc' = "region" /\ settings' = [settings EXCEPT !.keys = ChosenKeys]
        /\ ChosenKeys.id # None
        /\ ~Bad({"id", "secret", "token"}) /\ ~Half(EnvKeys)
        /\ EnvKeys.id = None => EnvKeys.token = None /\ ~Half(First) /\ ~Half(Second)
    BY <1>2, <1>4
  <2>2. FromAWorld' /\ ConnFollows' /\ conn' \in Seq(Statements) /\ pc' \in Labels
    BY <1>1, <2>1, ResolveKeeps DEF Steps
  <2>3. settings' = [keys |-> ChosenKeys, region |-> settings.region,
                     endpoint |-> settings.endpoint, trust |-> settings.trust]
    BY <2>1 DEF TypeOK
  <2>4. TypeOK' /\ settings'.keys = ChosenKeys
    BY <2>2, <2>3 DEF TypeOK
  <2>5. ProfileIsDefined'
    BY <1>1, SourcesKeep DEF ProfileIsDefined, Past, sources
  <2>6. Bad({"id", "secret", "token"})' = Bad({"id", "secret", "token"})
    BY <1>1, SourcesKeep DEF Bad
  <2>7. KeysAreChosen'
    BY <1>1, <2>1, <2>4, <2>6, SourcesKeep DEF KeysAreChosen
  <2>8. EndpointIsBare' /\ TrustIsUsable'
    BY <2>1 DEF EndpointIsBare, TrustIsUsable, Past, Steps
  <2>9. QED
    BY <2>2, <2>4, <2>5, <2>7, <2>8
<1>5. QED
  BY <1>3, <1>4

\* Keys that are chosen stay so.
LEMMA KeysKeep ==
  ASSUME SettingsInv, UNCHANGED sources, settings'.keys = settings.keys,
         pc \notin {"profile", "credentials", "failed"}
  PROVE  ProfileIsDefined' /\ KeysAreChosen'
<1>1. ProfileIsDefined'
  BY SourcesKeep DEF SettingsInv, ProfileIsDefined, Past, sources
<1>2. Bad({"id", "secret", "token"})' = Bad({"id", "secret", "token"})
  BY SourcesKeep DEF Bad
<1>3. KeysAreChosen'
  BY <1>2, SourcesKeep DEF SettingsInv, KeysAreChosen, Past
<1>4. QED
  BY <1>1, <1>3

LEMMA RegionInv ==
  ASSUME SettingsInv, ResolveRegion
  PROVE  SettingsInv'
<1> USE DEF SettingsInv
<1>1. pc = "region" /\ UNCHANGED <<sources, conn>>
  BY DEF ResolveRegion
<1>2. CASE pc' = "failed" /\ UNCHANGED settings
  BY <1>1, <1>2, FailKeeps DEF Steps
<1>3. ASSUME NEW region, settings' = [settings EXCEPT !.region = region], pc' = "endpoint"
      PROVE  SettingsInv'
  <2>1. FromAWorld' /\ ConnFollows' /\ conn' \in Seq(Statements) /\ pc' \in Labels
    BY <1>1, <1>3, ResolveKeeps DEF Steps
  <2>2. settings' = [keys |-> settings.keys, region |-> region,
                     endpoint |-> settings.endpoint, trust |-> settings.trust]
    BY <1>3 DEF TypeOK
  <2>3. TypeOK' /\ settings'.keys = settings.keys
    BY <2>1, <2>2 DEF TypeOK
  <2>4. ProfileIsDefined' /\ KeysAreChosen'
    BY <1>1, <2>3, KeysKeep
  <2>5. EndpointIsBare' /\ TrustIsUsable'
    BY <1>3 DEF EndpointIsBare, TrustIsUsable, Past, Steps
  <2>6. QED
    BY <2>1, <2>3, <2>4, <2>5
<1>4. QED
  BY <1>2, <1>3 DEF ResolveRegion, Fail, Go

LEMMA EndpointInv ==
  ASSUME SettingsInv, ResolveEndpoint
  PROVE  SettingsInv'
<1> USE DEF SettingsInv
<1>1. pc = "endpoint" /\ UNCHANGED <<sources, conn>>
  BY DEF ResolveEndpoint
<1>2. CASE pc' = "failed" /\ UNCHANGED settings
  BY <1>1, <1>2, FailKeeps DEF Steps
<1>3. CASE /\ pc' = "trust" /\ settings' = [settings EXCEPT !.endpoint = EndpointText]
           /\ EndpointText # None => BareUrl(Url[EndpointText])
           /\ EndpointText = None => RegionName(settings.region)
  <2>1. FromAWorld' /\ ConnFollows' /\ conn' \in Seq(Statements) /\ pc' \in Labels
    BY <1>1, <1>3, ResolveKeeps DEF Steps
  <2>2. settings' = [keys |-> settings.keys, region |-> settings.region,
                     endpoint |-> EndpointText, trust |-> settings.trust]
    BY <1>3 DEF TypeOK
  <2>3. /\ TypeOK' /\ settings'.keys = settings.keys
        /\ settings'.region = settings.region /\ settings'.endpoint = EndpointText
    BY <2>1, <2>2 DEF TypeOK
  <2>4. ProfileIsDefined' /\ KeysAreChosen'
    BY <1>1, <2>3, KeysKeep
  <2>5. EndpointIsBare'
    BY <1>3, <2>3 DEF EndpointIsBare
  <2>6. TrustIsUsable'
    BY <1>3 DEF TrustIsUsable, Past, Steps
  <2>7. QED
    BY <2>1, <2>3, <2>4, <2>5, <2>6
<1>4. QED
  BY <1>2, <1>3 DEF ResolveEndpoint, Fail, Go

LEMMA TrustInv ==
  ASSUME SettingsInv, ResolveTrust
  PROVE  SettingsInv'
<1> USE DEF SettingsInv
<1>1. pc = "trust" /\ UNCHANGED <<sources, conn>>
  BY DEF ResolveTrust
<1>2. CASE pc' = "failed" /\ UNCHANGED settings
  BY <1>1, <1>2, FailKeeps DEF Steps
<1>3. ASSUME NEW trust, settings' = [settings EXCEPT !.trust = trust], pc' = "load",
             UseSsl => Usable(TrustFile.holds) /\ trust = TrustFile.holds \cap Anchors
      PROVE  SettingsInv'
  <2>1. FromAWorld' /\ ConnFollows' /\ conn' \in Seq(Statements) /\ pc' \in Labels
    BY <1>1, <1>3, ResolveKeeps DEF Steps
  <2>2. settings' = [keys |-> settings.keys, region |-> settings.region,
                     endpoint |-> settings.endpoint, trust |-> trust]
    BY <1>3 DEF TypeOK
  <2>3. /\ TypeOK' /\ settings'.keys = settings.keys /\ settings'.trust = trust
        /\ settings'.region = settings.region /\ settings'.endpoint = settings.endpoint
    BY <2>1, <2>2 DEF TypeOK
  <2>4. ProfileIsDefined' /\ KeysAreChosen'
    BY <1>1, <2>3, KeysKeep
  <2>5. EndpointIsBare'
    BY <1>1, <2>3 DEF EndpointIsBare, Past
  <2>6. UseSsl' = UseSsl
    BY <2>3 DEF UseSsl
  <2>7. TrustIsUsable'
    BY <1>1, <1>3, <2>3, <2>6, SourcesKeep DEF TrustIsUsable
  <2>8. QED
    BY <2>1, <2>3, <2>4, <2>5, <2>7
<1>4. CASE pc' = "load" /\ ~UseSsl /\ UNCHANGED settings
  <2>1. settings' = [settings EXCEPT !.trust = settings.trust]
    BY <1>4 DEF TypeOK
  <2>2. QED
    BY <1>3, <1>4, <2>1
<1>5. QED
  BY <1>2, <1>3, <1>4 DEF ResolveTrust, Fail, Go

-----------------------------------------------------------------------------

\* A CA file that is usable leaves something to trust.
LEMMA TrustHasRoot ==
  ASSUME SettingsInv, pc \in Told, UseSsl
  PROVE  settings.trust # {}
<1>1. Usable(TrustFile.holds) /\ settings.trust = TrustFile.holds \cap Anchors
  BY DEF SettingsInv, TrustIsUsable, Past, Told, Steps
<1>2. QED
  BY <1>1 DEF Usable, Anchors

\* A statement that is next in the script.
LEMMA TellKeeps ==
  ASSUME SettingsInv, UNCHANGED <<sources, settings>>, pc \in Told, pc' \in Told,
         NEW statement \in Statements, conn' = Append(conn, statement),
         statement = Script(Len(conn) + 1),
         pc' # "load",
         pc' = "tls" => Len(conn) + 1 \in 1 .. Len(TlsStatements),
         pc' = "secret" => Len(conn) = Len(TlsStatements),
         pc' = "request" => Len(conn) = 1 + Len(TlsStatements)
  PROVE  SettingsInv'
<1> USE DEF SettingsInv
<1>1. conn \in Seq(Statements)
  BY DEF TypeOK
<1>2. /\ conn' \in Seq(Statements) /\ Len(conn') = Len(conn) + 1 /\ Len(conn) \in Nat
      /\ conn'[Len(conn) + 1] = statement
      /\ \A i \in 1 .. Len(conn) : conn'[i] = conn[i]
  BY <1>1
<1>3. TypeOK'
  BY <1>2 DEF TypeOK, Labels
<1>4. UseSsl' = UseSsl /\ TlsStatements' = TlsStatements
  BY DEF UseSsl, TlsStatements
<1>5. \A i : Script(i)' = Script(i)
  BY <1>4 DEF Script
<1>6. \A i \in 1 .. Len(conn') : conn'[i] = Script(i)'
  <2> SUFFICES ASSUME NEW i \in 1 .. Len(conn') PROVE conn'[i] = Script(i)
    BY <1>5
  <2>1. i \in 1 .. Len(conn) \/ i = Len(conn) + 1
    BY <1>2
  <2>2. QED
    BY <1>2, <2>1 DEF ConnFollows
<1>7. ConnFollows'
  BY <1>2, <1>4, <1>6, TrustHasRoot DEF ConnFollows, Told, Steps
<1>8. ProfileIsDefined' /\ KeysAreChosen'
  BY KeysKeep DEF Told
<1>9. EndpointIsBare' /\ TrustIsUsable'
  BY <1>4, SourcesKeep DEF EndpointIsBare, TrustIsUsable, Past, Told, Steps
<1>10. QED
  BY <1>3, <1>7, <1>8, <1>9, SourcesKeep

LEMMA TellFailKeeps ==
  ASSUME SettingsInv, UNCHANGED <<sources, settings, conn>>, pc \in Told, pc' = "failed"
  PROVE  SettingsInv'
<1> USE DEF SettingsInv
<1>1. TypeOK'
  BY DEF TypeOK, Labels
<1>2. UseSsl' = UseSsl /\ TlsStatements' = TlsStatements
  BY DEF UseSsl, TlsStatements
<1>3. \A i : Script(i)' = Script(i)
  BY <1>2 DEF Script
<1>4. ConnFollows'
  BY <1>2, <1>3 DEF ConnFollows, Steps
<1>5. ProfileIsDefined' /\ KeysAreChosen' /\ EndpointIsBare' /\ TrustIsUsable'
  BY DEF ProfileIsDefined, KeysAreChosen, EndpointIsBare, TrustIsUsable, Past
<1>6. QED
  BY <1>1, <1>4, <1>5, SourcesKeep

LEMMA LoadInv ==
  ASSUME SettingsInv, LoadExtension
  PROVE  SettingsInv'
<1>1. pc = "load" /\ UNCHANGED <<sources, settings>>
  BY DEF LoadExtension
<1>2. CASE conn' = Append(conn, "LOAD httpfs") /\ pc' = "tls"
  <2>1. conn = <<>> /\ Len(conn) + 1 = 1
    BY <1>1 DEF SettingsInv, ConnFollows
  <2>2. Script(Len(conn) + 1) = "LOAD httpfs"
    BY <2>1 DEF Script
  <2>3. Len(conn) + 1 \in 1 .. Len(TlsStatements)
    BY <2>1, TlsStatementsCount
  <2>4. QED
    BY <1>1, <1>2, <2>2, <2>3, TellKeeps DEF Told, Statements
<1>3. CASE UNCHANGED conn /\ pc' = "failed"
  BY <1>1, <1>3, TellFailKeeps DEF Told
<1>4. QED
  BY <1>2, <1>3 DEF LoadExtension, Tell, Go, Fail

LEMMA PinInv ==
  ASSUME SettingsInv, PinTls
  PROVE  SettingsInv'
<1> DEFINE told == Len(conn) - 1
           last == told + 1 = Len(TlsStatements)
<1>1. pc = "tls" /\ UNCHANGED <<sources, settings>>
  BY DEF PinTls
<1>2. Len(TlsStatements) \in Nat
  BY TlsStatementsCount
<1>3. Len(conn) \in 1 .. Len(TlsStatements)
  BY <1>1 DEF SettingsInv, ConnFollows
<1>4. CASE conn' = Append(conn, TlsStatements[told + 1]) /\ pc' = IF last THEN "secret" ELSE "tls"
  <2>1. told + 1 = Len(conn) /\ Len(conn) + 1 # 1 /\ Len(conn) + 1 - 1 = Len(conn)
    BY <1>2, <1>3
  <2>2. Script(Len(conn) + 1) = TlsStatements[told + 1]
    BY <1>2, <1>3, <2>1 DEF Script
  <2>3. TlsStatements[told + 1] \in Statements
    BY <1>3, <2>1, TlsStatementIsPin DEF Statements
  <2>4. pc' = "tls" => Len(conn) + 1 \in 1 .. Len(TlsStatements)
    BY <1>2, <1>3, <1>4, <2>1
  <2>5. pc' = "secret" => Len(conn) = Len(TlsStatements)
    BY <1>4, <2>1
  <2>6. QED
    BY <1>1, <1>4, <2>2, <2>3, <2>4, <2>5, TellKeeps DEF Told
<1>5. CASE UNCHANGED conn /\ pc' = "failed"
  BY <1>1, <1>5, TellFailKeeps DEF Told
<1>6. QED
  BY <1>4, <1>5 DEF PinTls, Tell, Go, Fail

LEMMA SecretInv ==
  ASSUME SettingsInv, CreateSecret
  PROVE  SettingsInv'
<1>1. pc = "secret" /\ UNCHANGED <<sources, settings>>
  BY DEF CreateSecret
<1>2. Len(TlsStatements) \in Nat
  BY TlsStatementsCount
<1>3. Len(conn) = 1 + Len(TlsStatements)
  BY <1>1 DEF SettingsInv, ConnFollows
<1>4. CASE conn' = Append(conn, "CREATE SECRET") /\ pc' = "request"
  <2>1. Script(Len(conn) + 1) = "CREATE SECRET"
    BY <1>2, <1>3 DEF Script
  <2>2. QED
    BY <1>1, <1>3, <1>4, <2>1, TellKeeps DEF Told, Statements
<1>5. CASE UNCHANGED conn /\ pc' = "failed"
  BY <1>1, <1>5, TellFailKeeps DEF Told
<1>6. QED
  BY <1>4, <1>5 DEF CreateSecret, Tell, Go, Fail

LEMMA RequestInv ==
  ASSUME SettingsInv, Request
  PROVE  SettingsInv'
<1>1. /\ pc = "request" /\ UNCHANGED <<sources, settings>>
      /\ conn' = Append(conn, "request") /\ pc' = "done"
  BY DEF Request, Go
<1>2. Len(TlsStatements) \in Nat
  BY TlsStatementsCount
<1>3. Len(conn) = 2 + Len(TlsStatements)
  BY <1>1 DEF SettingsInv, ConnFollows
<1>4. Script(Len(conn) + 1) = "request"
  BY <1>2, <1>3 DEF Script
<1>5. QED
  BY <1>1, <1>4, TellKeeps DEF Told, Statements

LEMMA StepInv == SettingsInv /\ [Next]_vars => SettingsInv'
<1> SUFFICES ASSUME SettingsInv, [Next]_vars PROVE SettingsInv'
  OBVIOUS
<1>1. CASE Next
  BY <1>1, ProfileInv, KeysInv, RegionInv, EndpointInv, TrustInv, LoadInv, PinInv, SecretInv,
     RequestInv DEF Next
<1>2. CASE UNCHANGED vars
  <2>1. UNCHANGED <<sources, pc, settings, conn>>
    BY <1>2 DEF vars, sources
  <2>2. TypeOK'
    BY <2>1 DEF TypeOK, SettingsInv
  <2>3. FromAWorld' /\ ProfileIsDefined' /\ KeysAreChosen'
    BY <2>1, SourcesKeep DEF SettingsInv, ProfileIsDefined, KeysAreChosen, Past, Bad, sources
  <2>4. UseSsl' = UseSsl /\ TlsStatements' = TlsStatements
    BY <2>1 DEF UseSsl, TlsStatements
  <2>5. EndpointIsBare' /\ TrustIsUsable'
    BY <2>1, <2>4, SourcesKeep DEF SettingsInv, EndpointIsBare, TrustIsUsable, Past
  <2>6. \A i : Script(i)' = Script(i)
    BY <2>4 DEF Script
  <2>7. ConnFollows'
    BY <2>1, <2>4, <2>6 DEF SettingsInv, ConnFollows
  <2>8. QED
    BY <2>2, <2>3, <2>5, <2>7 DEF SettingsInv
<1>3. QED
  BY <1>1, <1>2

-----------------------------------------------------------------------------

\* The invariant of resolve and of the connection: each setting is of the source that
\* its step chose, and the connection has been told a prefix of one script.
THEOREM SettingsInvariant == Spec => []SettingsInv
<1>1. QED
  BY InitInv, StepInv, PTL DEF Spec

\* "fails closed": the keys a run goes on with are those of the first source that has
\* any, whole, whatever the sources after it say.
THEOREM KeysAreOfOneSource == Spec => []OneKeyPair
<1>1. ASSUME SettingsInv, Resolved PROVE OneKeyPair
  <2> USE <1>1 DEF SettingsInv
  <2>1. Past({"profile"}) /\ Past({"profile", "credentials"})
    BY DEF Resolved, Past
  <2>2. /\ settings.keys = ChosenKeys /\ ChosenKeys.id # None
        /\ ~Bad({"id", "secret", "token"}) /\ ~Half(EnvKeys)
        /\ EnvKeys.id = None => EnvKeys.token = None /\ ~Half(First) /\ ~Half(Second)
    BY <2>1 DEF KeysAreChosen
  <2>3. ChosenKeys.id = FirstOf(<<Text("id"), First.id, Second.id>>)
    <3>1. EnvKeys.id = Text("id")
      BY DEF EnvKeys
    <3>2. EnvKeys.id = None => (First.id = None <=> First = NoKeys)
      BY <2>2, FileKeysHaveId DEF First, NoKeys
    <3>3. QED
      BY <2>2, <3>1, <3>2, FirstOfThree DEF ChosenKeys
  <2>4. OneSource({ChosenKeys.id, ChosenKeys.secret, ChosenKeys.token})
    <3>1. PICK w \in Worlds : env = w.env /\ credentials = w.credentials /\ config = w.config
      BY DEF FromAWorld
    <3>2. credentials.state # "unreadable" /\ config.state # "unreadable"
      BY <2>1 DEF ProfileIsDefined
    <3>3. CASE EnvKeys.id # None
      <4>1. Undecodable \notin {env["id"], env["secret"], env["token"]}
        BY <2>2 DEF Bad, Text
      <4>2. OneSource({env["id"], env["secret"], env["token"]})
        BY <3>1, <4>1, KeysAreNamed
      <4>3. ChosenKeys = EnvKeys
        BY <3>3 DEF ChosenKeys
      <4>4. EnvKeys.id = env["id"] /\ EnvKeys.secret = env["secret"] /\ EnvKeys.token = env["token"]
        BY DEF EnvKeys, Text
      <4>5. QED
        BY <4>2, <4>3, <4>4
    <3>4. CASE EnvKeys.id = None /\ First # NoKeys
      <4>1. CredentialsSection \in Load(credentials).names
        BY <3>4 DEF First, FileKeys, CredentialsSection
      <4>2. OneSource({First.id, First.secret, First.token})
        BY <3>1, <3>2, <4>1, KeysAreNamed DEF First
      <4>3. QED
        BY <3>4, <4>2 DEF ChosenKeys
    <3>5. CASE EnvKeys.id = None /\ First = NoKeys
      <4>1. ChosenKeys = Second /\ Second # NoKeys
        BY <2>2, <3>5 DEF ChosenKeys, NoKeys
      <4>2. ConfigSection \in Load(config).names
        BY <4>1 DEF Second, FileKeys, ConfigSection
      <4>3. OneSource({Second.id, Second.secret, Second.token})
        BY <3>1, <3>2, <4>2, KeysAreNamed DEF Second
      <4>4. QED
        BY <4>1, <4>3
    <3>6. QED
      BY <3>3, <3>4, <3>5
  <2>5. ~Half(ChosenKeys)
    BY <2>2 DEF ChosenKeys
  <2>6. ChosenKeys.secret = ChosenKeys.id /\ ChosenKeys.token \in {None, ChosenKeys.id}
    BY <2>2, <2>4, <2>5 DEF OneSource, Half
  <2>7. Text("profile") # None => NoName \notin {CredentialsSection} \cap {ConfigSection}
    BY <2>1 DEF ProfileIsDefined
  <2>8. QED
    BY <2>2, <2>3, <2>6, <2>7 DEF OneKeyPair, First, Second
<1>2. SettingsInv => OneKeyPair
  BY <1>1 DEF OneKeyPair
<1>3. QED
  BY <1>2, SettingsInvariant, PTL

\* "so both reach the same host": that host is of a bare URL or of a region of AWS, the
\* authority that both clients are given is the whole of it, and no variable of the
\* engine's own stands in for a part.
THEOREM ReadersFollowWriter == Spec => [](SameEndpoint /\ EndpointIsBare)
<1>1. SettingsInv => EndpointIsBare
  BY DEF SettingsInv
<1>2. SameEndpoint
  <2>1. "ENDPOINT" \in DOMAIN SecretStatement
    BY DEF SecretStatement
  <2>2. SecretStatement.ENDPOINT = Authority /\ SecretStatement.USE_SSL = UseSsl
    BY DEF SecretStatement
  <2>3. SecretStatement.URL_STYLE = "vhost" <=> ~PathStyle
    BY DEF SecretStatement
  <2>4. QED
    BY <2>1, <2>2, <2>3 DEF SameEndpoint, ReaderEndpoint, ClientEndpoint
<1>3. QED
  BY <1>1, <1>2, SettingsInvariant, PTL

\* The secret and the requests come after every statement about TLS.
AfterPins(statement) == statement \in {"CREATE SECRET", "request"}

LEMMA PinsComeFirst ==
  ASSUME SettingsInv, NEW i \in 1 .. Len(conn), AfterPins(conn[i])
  PROVE  /\ conn # <<>>
         /\ \A j \in 1 .. Len(TlsStatements) : TlsStatements[j] \in {conn[k] : k \in 1 .. i - 1}
<1>1. conn \in Seq(Statements)
  BY DEF SettingsInv, TypeOK
<1>2. Len(conn) \in Nat /\ i \in Nat
  BY <1>1
<1>3. \A k \in 1 .. Len(conn) : conn[k] = Script(k)
  BY DEF SettingsInv, ConnFollows
<1>4. AfterPins(Script(i))
  BY <1>3
<1>5. i # 1
  BY <1>4 DEF Script, AfterPins
<1>6. ASSUME i <= 1 + Len(TlsStatements) PROVE FALSE
  <2>1. i - 1 \in 1 .. Len(TlsStatements)
    BY <1>2, <1>5, <1>6, TlsStatementsCount
  <2>2. Script(i) = TlsStatements[i - 1]
    BY <1>5, <1>6 DEF Script
  <2>3. Script(i) \in Pins
    BY <2>1, <2>2, TlsStatementIsPin
  <2>4. QED
    BY <1>4, <2>3 DEF AfterPins, Pins
<1>7. ASSUME NEW j \in 1 .. Len(TlsStatements)
      PROVE  TlsStatements[j] \in {conn[k] : k \in 1 .. i - 1}
  <2>1. j + 1 \in 1 .. i - 1 /\ j + 1 \in 1 .. Len(conn)
    BY <1>2, <1>6, TlsStatementsCount
  <2>2. j + 1 # 1 /\ j + 1 <= 1 + Len(TlsStatements) /\ (j + 1) - 1 = j
    BY TlsStatementsCount
  <2>3. Script(j + 1) = TlsStatements[j]
    BY <2>2 DEF Script
  <2>4. QED
    BY <1>3, <2>1, <2>3
<1>8. conn # <<>>
  <2>1. i \in 1 .. Len(conn)
    OBVIOUS
  <2>2. Len(conn) # 0
    BY <1>2, <2>1
  <2>3. QED
    BY <2>2
<1>9. QED
  BY <1>7, <1>8

\* "Each statement runs before the secret and before any request".
THEOREM NoSecretUnverified == Spec => []VerifiedFirst
<1>1. ASSUME SettingsInv, NEW i \in 1 .. Len(conn), conn[i] \in {"CREATE SECRET", "request"}
      PROVE  LET told == {conn[j] : j \in 1 .. i - 1} IN
             /\ {"client httplib", "verify", "verify curl"} \subseteq told
             /\ UseSsl => "CA file" \in told /\ settings.trust # {}
  <2> DEFINE told == {conn[j] : j \in 1 .. i - 1}
  <2>1. \A j \in 1 .. Len(TlsStatements) : TlsStatements[j] \in told
    BY <1>1, PinsComeFirst DEF AfterPins
  <2>2. {"client httplib", "verify", "verify curl"} \subseteq told
    <3>1. {1, 2, 3} \subseteq 1 .. Len(TlsStatements)
      BY TlsStatementsCount
    <3>2. QED
      BY <2>1, <3>1, TlsStatementsAre
  <2>3. ASSUME UseSsl PROVE "CA file" \in told /\ settings.trust # {}
    <3>1. 4 \in 1 .. Len(TlsStatements)
      BY <2>3, TlsStatementsCount
    <3>2. "CA file" \in told
      BY <2>1, <2>3, <3>1, TlsStatementsAre
    <3>3. conn # <<>>
      BY <1>1, PinsComeFirst DEF AfterPins
    <3>4. QED
      BY <1>1, <2>3, <3>2, <3>3 DEF SettingsInv, ConnFollows
  <2>4. QED
    BY <2>2, <2>3
<1>2. SettingsInv => VerifiedFirst
  BY <1>1 DEF VerifiedFirst
<1>3. QED
  BY <1>2, SettingsInvariant, PTL

\* "would let the writer build an index the readers then refuse": it does not, but
\* for a CA file with the root of another authority in the place of an intermediate's.
THEOREM TrustIsShared == Spec => []WriterIsReadable
<1>1. SettingsInv => WriterIsReadable
  <2> SUFFICES ASSUME SettingsInv, Resolved, UseSsl,
                      TrustFile.holds \cap (Intermediates \cup Roots) # {"intermediate", "other root"},
                      NEW chain \in Chains, WriterAccepts(chain)
               PROVE  ReaderAccepts(chain, TrustFile.holds)
    BY DEF WriterIsReadable
  <2>1. Usable(TrustFile.holds) /\ settings.trust = TrustFile.holds \cap Anchors
    BY DEF SettingsInv, TrustIsUsable, Resolved, Past, Steps
  <2>2. CASE chain = {"intermediate", "root"}
    <3>1. SUFFICES ASSUME "root" \notin TrustFile.holds
                   PROVE  FALSE
      BY <2>1, <2>2 DEF ReaderAccepts, Usable, Intermediates
    <3>2. "intermediate" \in TrustFile.holds
      BY <2>1, <2>2, <3>1 DEF WriterAccepts
    <3>3. "other root" \in TrustFile.holds
      BY <2>1, <3>1 DEF Usable, Roots
    <3>4. QED
      BY <3>1, <3>2, <3>3 DEF Intermediates, Roots
  <2>3. CASE \E r \in Roots \cup {"weak root"} : chain = {r}
    BY <2>1, <2>3 DEF WriterAccepts, ReaderAccepts, Usable, Intermediates
  <2>4. QED
    BY <2>2, <2>3 DEF Chains
<1>2. QED
  BY <1>1, SettingsInvariant, PTL

-----------------------------------------------------------------------------
(* Quotients                                                               *)

\* A quotient is the number of whole divisors below.
LEMMA Quotient ==
  ASSUME NEW a \in Int, NEW n \in Nat \ {0}
  PROVE  a \div n \in Int /\ n * (a \div n) <= a /\ a < n * (a \div n) + n
BY SMT

LEMMA Rest ==
  ASSUME NEW a \in Int, NEW n \in Nat \ {0}
  PROVE  a % n = a - n * (a \div n) /\ a % n \in 0 .. n - 1
BY SMT

\* And there is one such number.
LEMMA TheQuotient ==
  ASSUME NEW a \in Int, NEW n \in Nat \ {0}, NEW q \in Int, n * q <= a, a < n * q + n
  PROVE  a \div n = q /\ a % n = a - n * q
BY SMT

\* Kept folded in what follows: the provers are slow with quotients.
Quarter(y) == y \div 4
Century(y) == y \div 100
FourCenturies(y) == y \div 400

Quotients(y) ==
  /\ Quarter(y) \in Int /\ 4 * Quarter(y) <= y /\ y < 4 * Quarter(y) + 4
  /\ Century(y) \in Int /\ 100 * Century(y) <= y /\ y < 100 * Century(y) + 100
  /\ FourCenturies(y) \in Int
  /\ 400 * FourCenturies(y) <= y /\ y < 400 * FourCenturies(y) + 400

LEMMA YearQuotients == ASSUME NEW y \in Int PROVE Quotients(y)
  BY Quotient DEF Quotients, Quarter, Century, FourCenturies

\* Days of an era before the year y of it.
Before(y) == 365 * y + Quarter(y) - Century(y)

\* The days of the year y of an era: it ends with the February of the next.
LeapAfter(y) == Leap(y + 1)
Days(y) == IF LeapAfter(y) THEN 366 ELSE 365

\* The day doe of an era is one of its year y.
InYear(y, doe) == y \in 0 .. 399 /\ Before(y) <= doe /\ doe < Before(y) + Days(y)

LEMMA LeapYears ==
  ASSUME NEW y \in Int
  PROVE  Leap(y) <=> (y = 4 * Quarter(y) /\ (y = 100 * Century(y) => y = 400 * FourCenturies(y)))
<1>1. /\ y % 4 = y - 4 * Quarter(y) /\ y % 100 = y - 100 * Century(y)
      /\ y % 400 = y - 400 * FourCenturies(y)
  BY Rest DEF Quarter, Century, FourCenturies
<1>2. Quotients(y)
  BY YearQuotients
<1>3. /\ y % 4 = 0 <=> y = 4 * Quarter(y)
      /\ y % 100 = 0 <=> y = 100 * Century(y)
      /\ y % 400 = 0 <=> y = 400 * FourCenturies(y)
  BY <1>1, <1>2 DEF Quotients
<1>4. QED
  BY <1>3, Zenon DEF Leap

\* The leap years of an era are those of every other.
Apart(y, era, v) == v = y + 400 * era

LEMMA LeapAgain ==
  ASSUME NEW y \in Int, NEW era \in Int, NEW v \in Int, Apart(y, era, v)
  PROVE  Leap(v) <=> Leap(y)
<1>1. Quotients(y) /\ Quotients(v)
  BY YearQuotients
<1>2. /\ Leap(y) <=> (y = 4 * Quarter(y) /\ (y = 100 * Century(y) => y = 400 * FourCenturies(y)))
      /\ Leap(v) <=> (v = 4 * Quarter(v) /\ (v = 100 * Century(v) => v = 400 * FourCenturies(v)))
  BY LeapYears
<1> DEFINE q == Quarter(y)
           r == Quarter(v)
           c == Century(y)
           e == Century(v)
           f == FourCenturies(y)
           g == FourCenturies(v)
<1>3. /\ q \in Int /\ 4 * q <= y /\ y < 4 * q + 4 /\ r \in Int /\ 4 * r <= v /\ v < 4 * r + 4
      /\ c \in Int /\ 100 * c <= y /\ y < 100 * c + 100
      /\ e \in Int /\ 100 * e <= v /\ v < 100 * e + 100
      /\ f \in Int /\ 400 * f <= y /\ y < 400 * f + 400
      /\ g \in Int /\ 400 * g <= v /\ v < 400 * g + 400
  BY <1>1 DEF Quotients
<1>4. Leap(y) <=> (y = 4 * q /\ (y = 100 * c => y = 400 * f))
  BY <1>2
<1>5. Leap(v) <=> (v = 4 * r /\ (v = 100 * e => v = 400 * g))
  BY <1>2
<1> HIDE DEF q, r, c, e, f, g
<1>6. r = q + 100 * era /\ e = c + 4 * era /\ g = f + era
  BY <1>3, SMT DEF Apart
<1>7. QED
  BY <1>3, <1>4, <1>5, <1>6, SMT DEF Apart

LEMMA LeapInEra ==
  ASSUME NEW y \in Int, NEW era \in Int, NEW yr \in Int, Apart(y, era, yr)
  PROVE  LeapAfter(yr) <=> LeapAfter(y)
<1>1. PICK u \in Int : u = y + 1
  OBVIOUS
<1>2. PICK v \in Int : v = yr + 1
  OBVIOUS
<1>3. Apart(u, era, v)
  BY <1>1, <1>2 DEF Apart
<1>4. Leap(v) <=> Leap(u)
  BY <1>3, LeapAgain
<1>5. QED
  BY <1>1, <1>2, <1>4 DEF LeapAfter

\* One year after another.
LEMMA YearAfterYear ==
  ASSUME NEW y \in Int, 0 <= y, y <= 398, NEW v \in Int, v = y + 1
  PROVE  Before(v) = Before(y) + Days(y)
<1>1. Quotients(y) /\ Quotients(v)
  BY YearQuotients
<1>2. Leap(v) <=> (v = 4 * Quarter(v) /\ (v = 100 * Century(v) => v = 400 * FourCenturies(v)))
  BY LeapYears
<1>3. Days(y) = IF Leap(v) THEN 366 ELSE 365
  BY DEF Days, LeapAfter
<1> DEFINE q == Quarter(y)
           r == Quarter(v)
           c == Century(y)
           e == Century(v)
           g == FourCenturies(v)
<1>4. /\ q \in Int /\ 4 * q <= y /\ y < 4 * q + 4 /\ r \in Int /\ 4 * r <= v /\ v < 4 * r + 4
      /\ c \in Int /\ 100 * c <= y /\ y < 100 * c + 100
      /\ e \in Int /\ 100 * e <= v /\ v < 100 * e + 100
      /\ g \in Int /\ 400 * g <= v /\ v < 400 * g + 400
  BY <1>1 DEF Quotients
<1>5. Leap(v) <=> (v = 4 * r /\ (v = 100 * e => v = 400 * g))
  BY <1>2
<1>6. Before(y) = 365 * y + q - c /\ Before(v) = 365 * v + r - e
  BY DEF Before
<1> HIDE DEF q, r, c, e, g
<1>7. CASE Leap(v)
  <2>1. r = q + 1 /\ e = c
    BY <1>4, <1>5, <1>7, SMT
  <2>2. QED
    BY <1>3, <1>4, <1>6, <1>7, <2>1, SMT
<1>8. CASE ~Leap(v)
  <2>1. r - e = q - c
    BY <1>4, <1>5, <1>8, SMT
  <2>2. QED
    BY <1>3, <1>4, <1>6, <1>8, <2>1, SMT
<1>9. QED
  BY <1>7, <1>8

LEMMA LastYearOfEra == Before(399) = 145731 /\ Days(399) = 366
<1>1. /\ 399 \div 4 = 99 /\ 399 \div 100 = 3
      /\ (399 + 1) % 4 = 0 /\ (399 + 1) % 400 = 0
  OBVIOUS
<1>2. QED
  BY <1>1 DEF Before, Days, LeapAfter, Leap, Quarter, Century

\* The day d of an era, the quotients the year's formula takes of it, and that year.
EraDay(d) == d \in Int /\ 0 <= d /\ d <= 146096
YearFrom(d, q1, q2, q3, y) ==
  /\ q1 \in Int /\ 1460 * q1 <= d /\ d < 1460 * q1 + 1460
  /\ q2 \in Int /\ 36524 * q2 <= d /\ d < 36524 * q2 + 36524
  /\ q3 \in Int /\ 146096 * q3 <= d /\ d < 146096 * q3 + 146096
  /\ y \in Int /\ 365 * y <= d - q1 + q2 - q3 /\ d - q1 + q2 - q3 < 365 * y + 365

LEMMA YearOfEraBounds ==
  ASSUME NEW d, NEW q1, NEW q2, NEW q3, NEW y, EraDay(d), YearFrom(d, q1, q2, q3, y)
  PROVE  0 <= y /\ y <= 399
BY SMT DEF EraDay, YearFrom

LEMMA YearHasBegun ==
  ASSUME NEW d, NEW q1, NEW q2, NEW q3, NEW y, EraDay(d), YearFrom(d, q1, q2, q3, y)
  PROVE  Before(y) <= d
<1>1. Quotients(y)
  BY YearQuotients DEF YearFrom
<1> DEFINE f == Quarter(y)
           c == Century(y)
<1>2. /\ f \in Int /\ 4 * f <= y /\ y < 4 * f + 4
      /\ c \in Int /\ 100 * c <= y /\ y < 100 * c + 100
  BY <1>1 DEF Quotients
<1> HIDE DEF f, c
<1>3. 365 * y + f - c <= d
  BY <1>2, SMT DEF EraDay, YearFrom
<1>4. QED
  BY <1>3 DEF Before, f, c

LEMMA NextYearHasNot ==
  ASSUME NEW d, NEW q1, NEW q2, NEW q3, NEW y, EraDay(d), YearFrom(d, q1, q2, q3, y),
         0 <= y, y <= 399, d # 146096, NEW v \in Int, v = y + 1
  PROVE  d < Before(v)
<1>1. Quotients(v)
  BY YearQuotients
<1> DEFINE g == Quarter(v)
           e == Century(v)
<1>2. /\ g \in Int /\ 4 * g <= v /\ v < 4 * g + 4
      /\ e \in Int /\ 100 * e <= v /\ v < 100 * e + 100
  BY <1>1 DEF Quotients
<1> HIDE DEF g, e
<1>3. d < 365 * v + g - e
  BY <1>2, SMT DEF EraDay, YearFrom
<1>4. QED
  BY <1>3 DEF Before, g, e

LEMMA LastDayOfEra ==
  ASSUME NEW q1, NEW q2, NEW q3, NEW y, YearFrom(146096, q1, q2, q3, y)
  PROVE  y = 399
BY SMT DEF YearFrom

\* yoe is the year that doe is in.
LEMMA YearOfEraIsRight ==
  ASSUME NEW d, EraDay(d)
  PROVE  InYear(YearOfEra(d), d)
<1>1. PICK q1 \in Int : q1 = d \div 1460 /\ 1460 * q1 <= d /\ d < 1460 * q1 + 1460
  BY Quotient DEF EraDay
<1>2. PICK q2 \in Int : q2 = d \div 36524 /\ 36524 * q2 <= d /\ d < 36524 * q2 + 36524
  BY Quotient DEF EraDay
<1>3. PICK q3 \in Int : q3 = d \div 146096 /\ 146096 * q3 <= d /\ d < 146096 * q3 + 146096
  BY Quotient DEF EraDay
<1>4. PICK x \in Int : x = d - q1 + q2 - q3
  BY DEF EraDay
<1>5. PICK y \in Int : y = x \div 365 /\ 365 * y <= x /\ x < 365 * y + 365
  BY Quotient
<1>6. PICK v \in Int : v = y + 1
  OBVIOUS
<1>7. YearOfEra(d) = y
  BY <1>1, <1>2, <1>3, <1>4, <1>5, SMT DEF YearOfEra
<1>8. YearFrom(d, q1, q2, q3, y)
  BY <1>1, <1>2, <1>3, <1>4, <1>5, SMT DEF YearFrom
<1> HIDE <1>1, <1>2, <1>3, <1>4, <1>5
<1>9. 0 <= y /\ y <= 399
  BY <1>8, YearOfEraBounds
<1>10. Before(y) <= d
  BY <1>8, YearHasBegun
<1>11. CASE d = 146096
  <2>1. y = 399
    BY <1>8, <1>11, LastDayOfEra, SMT
  <2>2. InYear(399, 146096)
    BY LastYearOfEra, SMT DEF InYear
  <2>3. QED
    BY <1>7, <1>11, <2>1, <2>2, SMT
<1>12. CASE d # 146096
  <2>1. d < Before(v)
    BY <1>6, <1>8, <1>9, <1>12, NextYearHasNot, SMT
  <2>2. CASE y = 399
    <3>1. d \in Int /\ d <= 146096
      BY DEF EraDay
    <3>2. QED
      BY <1>7, <1>10, <2>2, <3>1, LastYearOfEra, SMT DEF InYear
  <2>3. CASE y # 399
    <3>1. y <= 398
      BY <1>9, <2>3
    <3>2. Before(v) = Before(y) + Days(y)
      BY <1>6, <1>9, <3>1, YearAfterYear
    <3>3. QED
      BY <1>7, <1>9, <1>10, <2>1, <3>2, SMT DEF InYear
  <2>4. QED
    BY <2>2, <2>3
<1>13. QED
  BY <1>11, <1>12

-----------------------------------------------------------------------------
(* The months *)

\* Days of a year, from March on, before the month mp of it.
Off(mp) == (153 * mp + 2) \div 5

LEMMA MonthTable ==
  /\ Off(0) = 0 /\ Off(1) = 31 /\ Off(2) = 61 /\ Off(3) = 92 /\ Off(4) = 122 /\ Off(5) = 153
  /\ Off(6) = 184 /\ Off(7) = 214 /\ Off(8) = 245 /\ Off(9) = 275 /\ Off(10) = 306
  /\ Off(11) = 337 /\ Off(12) = 367
BY DEF Off

\* The months by their numbers in the calendar.
Civil(mp) == IF mp < 10 THEN mp + 3 ELSE mp - 9

InMonth(mp, doy) == mp \in 0 .. 11 /\ doy \in Int /\ Off(mp) <= doy /\ doy < Off(mp + 1)

LEMMA MonthOfYear ==
  ASSUME NEW doy \in Int, 0 <= doy, doy <= 365
  PROVE  \E mp \in 0 .. 11 : InMonth(mp, doy)
<1>1. /\ 0 + 1 = 1 /\ 1 + 1 = 2 /\ 2 + 1 = 3 /\ 3 + 1 = 4 /\ 4 + 1 = 5 /\ 5 + 1 = 6
      /\ 6 + 1 = 7 /\ 7 + 1 = 8 /\ 8 + 1 = 9 /\ 9 + 1 = 10 /\ 10 + 1 = 11 /\ 11 + 1 = 12
  OBVIOUS
<1>2. CASE doy < 31 BY <1>1, <1>2, MonthTable DEF InMonth
<1>3. CASE 31 <= doy /\ doy < 61 BY <1>1, <1>3, MonthTable DEF InMonth
<1>4. CASE 61 <= doy /\ doy < 92 BY <1>1, <1>4, MonthTable DEF InMonth
<1>5. CASE 92 <= doy /\ doy < 122 BY <1>1, <1>5, MonthTable DEF InMonth
<1>6. CASE 122 <= doy /\ doy < 153 BY <1>1, <1>6, MonthTable DEF InMonth
<1>7. CASE 153 <= doy /\ doy < 184 BY <1>1, <1>7, MonthTable DEF InMonth
<1>8. CASE 184 <= doy /\ doy < 214 BY <1>1, <1>8, MonthTable DEF InMonth
<1>9. CASE 214 <= doy /\ doy < 245 BY <1>1, <1>9, MonthTable DEF InMonth
<1>10. CASE 245 <= doy /\ doy < 275 BY <1>1, <1>10, MonthTable DEF InMonth
<1>11. CASE 275 <= doy /\ doy < 306 BY <1>1, <1>11, MonthTable DEF InMonth
<1>12. CASE 306 <= doy /\ doy < 337 BY <1>1, <1>12, MonthTable DEF InMonth
<1>13. CASE 337 <= doy BY <1>1, <1>13, MonthTable DEF InMonth
<1>14. QED
  BY <1>2, <1>3, <1>4, <1>5, <1>6, <1>7, <1>8, <1>9, <1>10, <1>11, <1>12, <1>13

\* Every month but February has the days the formula leaves it.
LEMMA MonthLength ==
  ASSUME NEW year, NEW mp \in 0 .. 10
  PROVE  Length(year, Civil(mp)) = Off(mp + 1) - Off(mp)
<1>1. /\ 0 + 1 = 1 /\ 1 + 1 = 2 /\ 2 + 1 = 3 /\ 3 + 1 = 4 /\ 4 + 1 = 5 /\ 5 + 1 = 6
      /\ 6 + 1 = 7 /\ 7 + 1 = 8 /\ 8 + 1 = 9 /\ 9 + 1 = 10 /\ 10 + 1 = 11
  OBVIOUS
<1>2. \/ mp = 0 \/ mp = 1 \/ mp = 2 \/ mp = 3 \/ mp = 4 \/ mp = 5 \/ mp = 6 \/ mp = 7
      \/ mp = 8 \/ mp = 9 \/ mp = 10
  OBVIOUS
<1>3. QED
  BY <1>1, <1>2, MonthTable DEF Length, Civil

\* The formula for the month finds it.
LEMMA MonthFormula ==
  ASSUME NEW mp, NEW doy, InMonth(mp, doy)
  PROVE  (5 * doy + 2) \div 153 = mp
<1>1. mp \in Int /\ doy \in Int
  BY DEF InMonth
<1> DEFINE o == Off(mp)
           n == Off(mp + 1)
           a == 5 * doy + 2
<1>2. o \in Int /\ 5 * o <= 153 * mp + 2 /\ 153 * mp + 2 < 5 * o + 5
  <2>1. 153 * mp + 2 \in Int
    BY <1>1
  <2>2. QED
    BY <2>1, Quotient DEF Off
<1>3. n \in Int /\ 5 * n <= 153 * (mp + 1) + 2 /\ 153 * (mp + 1) + 2 < 5 * n + 5
  <2>1. 153 * (mp + 1) + 2 \in Int
    BY <1>1
  <2>2. QED
    BY <2>1, Quotient DEF Off
<1>4. o <= doy /\ doy < n
  BY DEF InMonth
<1> HIDE DEF o, n
<1>5. a \in Int /\ 153 * mp <= a /\ a < 153 * mp + 153
  BY <1>1, <1>2, <1>3, <1>4, SMT
<1> HIDE DEF a
<1>6. a \div 153 = mp
  BY <1>1, <1>5, TheQuotient
<1>7. QED
  BY <1>6 DEF a

\* The date of the day doy of the year y of an era.
DateIn(era, y, doy) ==
  LET mp == (5 * doy + 2) \div 153
      m  == IF mp < 10 THEN mp + 3 ELSE mp - 9
      yr == y + era * 400
  IN [year |-> IF m <= 2 THEN yr + 1 ELSE yr, month |-> m, day |-> doy - (153 * mp + 2) \div 5 + 1]

LEMMA DateByMonth ==
  ASSUME NEW era \in Int, NEW y \in Int, NEW mp, NEW doy, InMonth(mp, doy)
  PROVE  DateIn(era, y, doy) =
           [year |-> IF mp < 10 THEN y + era * 400 ELSE y + era * 400 + 1, month |-> Civil(mp),
            day |-> doy - Off(mp) + 1]
<1>1. (5 * doy + 2) \div 153 = mp
  BY MonthFormula
<1>2. mp \in 0 .. 11
  BY DEF InMonth
<1>3. (IF mp < 10 THEN mp + 3 ELSE mp - 9) <= 2 <=> ~(mp < 10)
  BY <1>2
<1> DEFINE yr == y + era * 400
<1>4. DateIn(era, y, doy) =
        [year |-> IF (IF mp < 10 THEN mp + 3 ELSE mp - 9) <= 2 THEN yr + 1 ELSE yr,
         month |-> IF mp < 10 THEN mp + 3 ELSE mp - 9, day |-> doy - (153 * mp + 2) \div 5 + 1]
  BY <1>1 DEF DateIn
<1> HIDE DEF yr
<1>5. QED
  BY <1>3, <1>4 DEF Civil, Off, yr

\* A day that is not the last of its year.
LEMMA WithinYear ==
  ASSUME NEW era \in Int, NEW y \in Int, NEW doy \in Int, 0 <= doy, doy + 1 < Days(y)
  PROVE  DateIn(era, y, doy + 1) = NextDay(DateIn(era, y, doy))
<1> DEFINE yr == y + era * 400
           date == DateIn(era, y, doy)
           next == doy + 1
<1>1. doy <= 364 /\ (doy = 364 => LeapAfter(y))
  BY DEF Days
<1>2. PICK mp \in 0 .. 11 : InMonth(mp, doy)
  BY <1>1, MonthOfYear
<1>3. /\ date = [year |-> IF mp < 10 THEN yr ELSE yr + 1, month |-> Civil(mp),
                 day |-> doy - Off(mp) + 1]
      /\ yr \in Int
  BY <1>2, DateByMonth
<1>4. next \in Int /\ next = doy + 1
  OBVIOUS
<1>5. Off(mp) \in Int /\ Off(mp + 1) \in Int
  BY MonthTable, Quotient DEF Off
<1>y. Apart(y, era, yr)
  BY DEF Apart
<1> HIDE DEF yr, date, next
<1>6. CASE next < Off(mp + 1)
  <2>1. InMonth(mp, next)
    BY <1>2, <1>4, <1>5, <1>6 DEF InMonth
  <2>2. DateIn(era, y, next) =
          [year |-> IF mp < 10 THEN yr ELSE yr + 1, month |-> Civil(mp), day |-> next - Off(mp) + 1]
    BY <2>1, DateByMonth DEF yr
  <2>3. date.day < Length(date.year, date.month)
    <3>1. CASE mp # 11
      <4>1. Length(date.year, date.month) = Off(mp + 1) - Off(mp)
        BY <1>3, <3>1, MonthLength
      <4>2. date.day = doy - Off(mp) + 1
        BY <1>3
      <4>3. QED
        BY <1>4, <1>5, <1>6, <4>1, <4>2, SMT
    <3>2. CASE mp = 11
      <4>1. date.month = 2 /\ date.year = yr + 1 /\ date.day = doy - 337 + 1
        BY <1>3, <3>2, MonthTable DEF Civil
      <4>2. LeapAfter(yr) <=> LeapAfter(y)
        BY <1>3, <1>y, LeapInEra
      <4>3. Length(date.year, date.month) = IF LeapAfter(y) THEN 29 ELSE 28
        BY <4>1, <4>2 DEF Length, LeapAfter
      <4>4. CASE LeapAfter(y)
        <5>1. Length(date.year, date.month) = 29
          BY <4>3, <4>4
        <5>2. QED
          BY <1>1, <4>1, <5>1
      <4>5. CASE ~LeapAfter(y)
        <5>1. Length(date.year, date.month) = 28
          BY <4>3, <4>5
        <5>2. QED
          BY <1>1, <4>1, <4>5, <5>1
      <4>6. QED
        BY <4>4, <4>5
    <3>3. QED
      BY <3>1, <3>2
  <2>4. NextDay(date) = [date EXCEPT !.day = @ + 1]
    BY <2>3 DEF NextDay
  <2>5. next - Off(mp) + 1 = (doy - Off(mp) + 1) + 1
    BY <1>4, <1>5
  <2>6. NextDay(date) = [year |-> IF mp < 10 THEN yr ELSE yr + 1, month |-> Civil(mp),
                         day |-> (doy - Off(mp) + 1) + 1]
    BY <1>3, <2>4
  <2>7. QED
    BY <2>2, <2>5, <2>6 DEF date, next
<1>7. CASE ~(next < Off(mp + 1))
  <2>1. next = Off(mp + 1)
    BY <1>2, <1>4, <1>5, <1>7 DEF InMonth
  <2>2. mp \in 0 .. 10
    BY <1>1, <1>2, <1>4, <2>1, MonthTable, SMT
  <2>3. Length(date.year, date.month) = Off(mp + 1) - Off(mp)
    BY <1>3, <2>2, MonthLength
  <2>4. ~(date.day < Length(date.year, date.month))
    <3>1. date.day = doy - Off(mp) + 1
      BY <1>3
    <3>2. QED
      BY <1>4, <1>5, <2>1, <2>3, <3>1, SMT
  <2>5. NextDay(date) = IF date.month < 12 THEN [date EXCEPT !.day = 1, !.month = @ + 1]
                        ELSE [year |-> date.year + 1, month |-> 1, day |-> 1]
    BY <2>4 DEF NextDay
  <2>6. InMonth(mp + 1, next)
    <3>1. Off(mp + 1) < Off(mp + 1 + 1)
      <4>1. \/ mp = 0 \/ mp = 1 \/ mp = 2 \/ mp = 3 \/ mp = 4 \/ mp = 5 \/ mp = 6 \/ mp = 7
            \/ mp = 8 \/ mp = 9 \/ mp = 10
        BY <2>2
      <4>2. QED
        BY <4>1, MonthTable
    <3>2. QED
      BY <1>4, <2>1, <2>2, <3>1 DEF InMonth
  <2>7. DateIn(era, y, next) =
          [year |-> IF mp + 1 < 10 THEN yr ELSE yr + 1, month |-> Civil(mp + 1),
           day |-> next - Off(mp + 1) + 1]
    BY <2>6, DateByMonth DEF yr
  <2>8. next - Off(mp + 1) + 1 = 1
    BY <1>4, <1>5, <2>1
  <2>9. CASE mp = 9
    <3>1. date.month = 12 /\ date.year = yr
      BY <1>3, <2>9 DEF Civil
    <3>2. NextDay(date) = [year |-> yr + 1, month |-> 1, day |-> 1]
      BY <2>5, <3>1
    <3>3. DateIn(era, y, next) = [year |-> yr + 1, month |-> 1, day |-> 1]
      BY <2>7, <2>8, <2>9 DEF Civil
    <3>4. QED
      BY <3>2, <3>3 DEF date, next
  <2>10. CASE mp # 9
    <3>1. Civil(mp) < 12 /\ Civil(mp + 1) = Civil(mp) + 1 /\ (mp < 10 <=> mp + 1 < 10)
      BY <2>2, <2>10 DEF Civil
    <3>2. date.month = Civil(mp)
      BY <1>3
    <3>3. NextDay(date) = [date EXCEPT !.day = 1, !.month = @ + 1]
      BY <2>5, <3>1, <3>2
    <3>4. NextDay(date) = [year |-> IF mp < 10 THEN yr ELSE yr + 1, month |-> Civil(mp) + 1,
                           day |-> 1]
      BY <1>3, <3>3
    <3>5. QED
      BY <2>7, <2>8, <3>1, <3>4 DEF date, next
  <2>11. QED
    BY <2>9, <2>10
<1>8. QED
  BY <1>6, <1>7

LEMMA FirstOfMarch ==
  ASSUME NEW y, NEW d, NEW r, r = [year |-> y, month |-> 2, day |-> d]
  PROVE  [r EXCEPT !.day = 1, !.month = 3] = [year |-> y, month |-> 3, day |-> 1]
<1>1. PICK t : t = [r EXCEPT !.day = 1]
  OBVIOUS
<1>2. t = [year |-> y, month |-> 2, day |-> 1]
  BY <1>1
<1>3. [t EXCEPT !.month = 3] = [year |-> y, month |-> 3, day |-> 1]
  BY <1>2
<1>4. QED
  BY <1>1, <1>3

\* The last day of a year: the end of a February.
LEMMA EndOfYear ==
  ASSUME NEW era \in Int, NEW y \in Int, NEW doy \in Int, doy + 1 = Days(y)
  PROVE  NextDay(DateIn(era, y, doy)) = [year |-> y + era * 400 + 1, month |-> 3, day |-> 1]
<1> DEFINE yr == y + era * 400
           date == DateIn(era, y, doy)
<1>1. IF LeapAfter(y) THEN doy = 365 ELSE doy = 364
  BY DEF Days
<1>2. InMonth(11, doy)
  <2>1. 11 + 1 = 12
    OBVIOUS
  <2>2. QED
    BY <1>1, <2>1, MonthTable DEF InMonth
<1>3. /\ date = [year |-> yr + 1, month |-> 2, day |-> doy - 337 + 1]
      /\ yr \in Int
  BY <1>2, DateByMonth, MonthTable DEF Civil
<1>y. Apart(y, era, yr)
  BY DEF Apart
<1> HIDE DEF yr, date
<1>4. LeapAfter(yr) <=> LeapAfter(y)
  BY <1>3, <1>y, LeapInEra
<1>5. Length(date.year, date.month) = IF LeapAfter(y) THEN 29 ELSE 28
  BY <1>3, <1>4 DEF Length, LeapAfter
<1>6. date.day = doy - 337 + 1
  BY <1>3
<1>7. ~(date.day < Length(date.year, date.month))
  <2>1. CASE LeapAfter(y)
    <3>1. doy = 365
      BY <1>1, <2>1
    <3>2. Length(date.year, date.month) = 29
      BY <1>5, <2>1
    <3>3. QED
      BY <1>6, <3>1, <3>2
  <2>2. CASE ~LeapAfter(y)
    <3>1. doy = 364
      BY <1>1, <2>2
    <3>2. Length(date.year, date.month) = 28
      BY <1>5, <2>2
    <3>3. QED
      BY <1>6, <3>1, <3>2
  <2>3. QED
    BY <2>1, <2>2
<1>8. date.month = 2 /\ 2 < 12 /\ 2 + 1 = 3
  BY <1>3
<1>9. NextDay(date) = [date EXCEPT !.day = 1, !.month = 3]
  BY <1>7, <1>8 DEF NextDay
<1>10. NextDay(date) = [year |-> yr + 1, month |-> 3, day |-> 1]
  <2>1. PICK dd, ny : date = [year |-> ny, month |-> 2, day |-> dd] /\ ny = yr + 1
    BY <1>3
  <2>2. [date EXCEPT !.day = 1, !.month = 3] = [year |-> ny, month |-> 3, day |-> 1]
    BY <2>1, FirstOfMarch, Zenon
  <2>3. QED
    BY <1>9, <2>1, <2>2, Zenon
<1>11. QED
  BY <1>10 DEF date, yr

-----------------------------------------------------------------------------
(* One day after another *)

LEMMA BeforeType ==
  ASSUME NEW y \in Int
  PROVE  Before(y) \in Int /\ Days(y) \in {365, 366}
<1>1. Quotients(y)
  BY YearQuotients
<1>2. Quarter(y) \in Int /\ Century(y) \in Int
  BY <1>1 DEF Quotients
<1>3. QED
  BY <1>2 DEF Before, Days

LEMMA BeforeMonotone ==
  ASSUME NEW y \in Int, NEW v \in Int, y <= v
  PROVE  Before(y) <= Before(v)
<1>1. Quotients(y) /\ Quotients(v)
  BY YearQuotients
<1> DEFINE q == Quarter(y)
           r == Quarter(v)
           c == Century(y)
           e == Century(v)
<1>2. /\ q \in Int /\ 4 * q <= y /\ y < 4 * q + 4 /\ r \in Int /\ 4 * r <= v /\ v < 4 * r + 4
      /\ c \in Int /\ 100 * c <= y /\ y < 100 * c + 100
      /\ e \in Int /\ 100 * e <= v /\ v < 100 * e + 100
  BY <1>1 DEF Quotients
<1>3. Before(y) = 365 * y + q - c /\ Before(v) = 365 * v + r - e
  BY DEF Before
<1> HIDE DEF q, r, c, e
<1>4. 365 * y + q - c <= 365 * v + r - e
  BY <1>2, SMT
<1>5. QED
  BY <1>3, <1>4

\* A day of an era is a day of one year.
LEMMA NotTwoYears ==
  ASSUME NEW y, NEW v, NEW d \in Int, InYear(y, d), InYear(v, d)
  PROVE  ~(y < v)
<1>1. /\ y \in Int /\ 0 <= y /\ y <= 399 /\ v \in Int /\ 0 <= v /\ v <= 399
      /\ Before(v) <= d /\ d < Before(y) + Days(y)
  BY DEF InYear
<1>2. PICK u \in Int : u = y + 1
  BY <1>1
<1>3. ASSUME y < v PROVE FALSE
  <2>1. y <= 398 /\ u <= v
    BY <1>1, <1>2, <1>3
  <2>2. Before(u) = Before(y) + Days(y)
    BY <1>1, <1>2, <2>1, YearAfterYear
  <2>3. Before(u) <= Before(v)
    BY <1>1, <2>1, BeforeMonotone
  <2>4. Before(u) \in Int /\ Before(v) \in Int
    BY <1>1, BeforeType
  <2>5. QED
    BY <1>1, <2>2, <2>3, <2>4, SMT
<1>4. QED
  BY <1>3

LEMMA OneYear ==
  ASSUME NEW d, EraDay(d), NEW y, InYear(y, d)
  PROVE  YearOfEra(d) = y
<1>1. InYear(YearOfEra(d), d)
  BY YearOfEraIsRight
<1>2. d \in Int
  BY DEF EraDay
<1> DEFINE x == YearOfEra(d)
<1>3. ~(x < y) /\ ~(y < x)
  BY <1>1, <1>2, NotTwoYears
<1>4. x \in Int /\ y \in Int
  BY <1>1 DEF InYear
<1> HIDE DEF x
<1>5. x = y
  BY <1>3, <1>4
<1>6. QED
  BY <1>5 DEF x

\* The day doe of an era is this many days after the epoch.
InEra(days_, era, doe) ==
  EraDay(doe) /\ era \in Int /\ days_ \in Int /\ days_ + EpochDays = EraDays * era + doe

LEMMA EraOf == ASSUME NEW n \in Int PROVE \E era, doe \in Int : InEra(n, era, doe)
<1>1. PICK z \in Int : z = n + EpochDays
  BY DEF EpochDays
<1>2. PICK era \in Int : EraDays * era <= z /\ z < EraDays * era + EraDays
  <2>1. EraDays \in Nat \ {0}
    BY SMT DEF EraDays
  <2>2. QED
    BY <2>1, Quotient
<1>3. PICK doe \in Int : doe = z - EraDays * era
  BY DEF EraDays
<1>4. InEra(n, era, doe)
  BY <1>1, <1>2, <1>3, SMT DEF InEra, EraDay, EraDays, EpochDays
<1>5. QED
  BY <1>4

LEMMA DateOf ==
  ASSUME NEW n, NEW era, NEW doe, NEW y, InEra(n, era, doe), InYear(y, doe)
  PROVE  CivilDate(n) = DateIn(era, y, doe - Before(y))
<1>1. PICK z \in Int : z = n + EpochDays
  BY DEF EpochDays, InEra
<1>2. z = EraDays * era + doe /\ era \in Int /\ EraDay(doe)
  BY <1>1 DEF InEra
<1>3. EraDays \in Nat \ {0} /\ EraDays * era <= z /\ z < EraDays * era + EraDays
  BY <1>1, <1>2, SMT DEF EraDays, EraDay
<1>4. z \div EraDays = era /\ z % EraDays = z - EraDays * era
  BY <1>1, <1>2, <1>3, TheQuotient
<1>5. z - EraDays * era = doe
  BY <1>1, <1>2, SMT DEF EraDay, EraDays
<1>6. YearOfEra(doe) = y
  BY <1>2, OneYear
<1>7. z \div EraDays = era /\ z % EraDays = doe
  BY <1>4, <1>5
<1>8. QED
  BY <1>1, <1>6, <1>7, SMT DEF CivilDate, DateIn, Before, Quarter, Century

LEMMA FirstOfYear ==
  ASSUME NEW era \in Int, NEW y \in Int
  PROVE  DateIn(era, y, 0) = [year |-> y + era * 400, month |-> 3, day |-> 1]
<1>1. 0 + 1 = 1 /\ 0 - 0 + 1 = 1 /\ 0 < 10 /\ 0 + 3 = 3
  OBVIOUS
<1>2. InMonth(0, 0)
  BY <1>1, MonthTable DEF InMonth
<1>3. QED
  BY <1>1, <1>2, DateByMonth, MonthTable, SMT DEF Civil

\* The date of the next day is the next date.
LEMMA DayAfterDay ==
  ASSUME NEW n \in Int
  PROVE  CivilDate(n + 1) = NextDay(CivilDate(n))
<1>1. PICK era, doe \in Int : InEra(n, era, doe)
  BY EraOf
<1>2. EraDay(doe) /\ doe \in Int /\ 0 <= doe /\ doe <= 146096
  BY <1>1 DEF InEra, EraDay
<1>3. PICK y : y = YearOfEra(doe)
  OBVIOUS
<1>4. InYear(y, doe)
  BY <1>2, <1>3, YearOfEraIsRight
<1>5. y \in Int /\ 0 <= y /\ y <= 399 /\ Before(y) <= doe /\ doe < Before(y) + Days(y)
  BY <1>4 DEF InYear
<1>6. Before(y) \in Int /\ Days(y) \in {365, 366}
  BY <1>5, BeforeType
<1>7. PICK doy \in Int : doy = doe - Before(y) /\ 0 <= doy /\ doy < Days(y)
  BY <1>5, <1>6
<1>8. CivilDate(n) = DateIn(era, y, doy)
  BY <1>1, <1>4, <1>7, DateOf
<1>9. PICK m \in Int : m = n + 1
  OBVIOUS
<1>10. PICK next \in Int : next = doe + 1
  OBVIOUS
<1>11. CASE doe < 146096
  <2>1. InEra(m, era, next)
    BY <1>1, <1>2, <1>9, <1>10, <1>11, SMT DEF InEra, EraDay, EraDays, EpochDays
  <2>2. CASE doy + 1 < Days(y)
    <3>1. InYear(y, next)
      BY <1>5, <1>6, <1>7, <1>10, <2>2 DEF InYear
    <3>2. next - Before(y) = doy + 1
      BY <1>6, <1>7, <1>10
    <3>3. CivilDate(m) = DateIn(era, y, doy + 1)
      BY <2>1, <3>1, <3>2, DateOf
    <3>4. QED
      BY <1>5, <1>7, <1>8, <1>9, <2>2, <3>3, WithinYear
  <2>3. CASE ~(doy + 1 < Days(y))
    <3>1. doy + 1 = Days(y) /\ next = Before(y) + Days(y)
      BY <1>6, <1>7, <1>10, <2>3
    <3>2. y # 399
      BY <1>2, <1>10, <1>11, <3>1, LastYearOfEra
    <3>3. PICK v \in Int : v = y + 1
      BY <1>5
    <3>4. 0 <= v /\ v <= 399 /\ y <= 398
      BY <1>5, <3>2, <3>3
    <3>5. Before(v) = next
      BY <1>5, <3>1, <3>3, <3>4, YearAfterYear
    <3>6. Days(v) \in {365, 366}
      BY BeforeType
    <3>7. InYear(v, next)
      BY <1>10, <3>4, <3>5, <3>6, SMT DEF InYear
    <3>8. next - Before(v) = 0
      BY <1>10, <3>5
    <3>9. CivilDate(m) = DateIn(era, v, 0)
      BY <2>1, <3>7, <3>8, DateOf
    <3>10. CivilDate(m) = [year |-> v + era * 400, month |-> 3, day |-> 1]
      BY <3>9, FirstOfYear
    <3>11. NextDay(CivilDate(n)) = [year |-> y + era * 400 + 1, month |-> 3, day |-> 1]
      BY <1>5, <1>8, <3>1, EndOfYear
    <3>12. v + era * 400 = y + era * 400 + 1
      BY <1>5, <3>3
    <3>13. QED
      BY <1>9, <3>10, <3>11, <3>12
  <2>4. QED
    BY <2>2, <2>3
<1>12. CASE ~(doe < 146096)
  <2>1. doe = 146096
    BY <1>2, <1>12
  <2>2. InYear(399, doe)
    BY <2>1, LastYearOfEra, SMT DEF InYear
  <2>3. y = 399
    BY <1>2, <1>3, <2>2, OneYear
  <2>4. doy + 1 = Days(y)
    BY <1>7, <2>1, <2>3, LastYearOfEra
  <2>5. NextDay(CivilDate(n)) = [year |-> y + era * 400 + 1, month |-> 3, day |-> 1]
    BY <1>5, <1>8, <2>4, EndOfYear
  <2>6. PICK x \in Int : x = era + 1
    OBVIOUS
  <2>7. InEra(m, x, 0)
    BY <1>1, <1>9, <2>1, <2>6, SMT DEF InEra, EraDay, EraDays, EpochDays
  <2>8. InYear(0, 0) /\ 0 - Before(0) = 0
    <3>1. 0 \div 4 = 0 /\ 0 \div 100 = 0
      OBVIOUS
    <3>2. Before(0) = 0
      BY <3>1 DEF Before, Quarter, Century
    <3>3. Days(0) \in {365, 366}
      BY BeforeType
    <3>4. QED
      BY <3>2, <3>3 DEF InYear
  <2>9. CivilDate(m) = [year |-> 0 + x * 400, month |-> 3, day |-> 1]
    BY <2>7, <2>8, DateOf, FirstOfYear
  <2>10. 0 + x * 400 = y + era * 400 + 1
    BY <2>3, <2>6
  <2>11. QED
    BY <1>9, <2>5, <2>9, <2>10
<1>13. QED
  BY <1>11, <1>12

-----------------------------------------------------------------------------
(* The time of day *)

\* A number of seconds in hours, minutes and seconds.
Parts(t, h, m, s) ==
  t = 3600 * h + 60 * m + s /\ 0 <= m /\ m <= 59 /\ 0 <= s /\ s <= 59

LEMMA TimeFacts ==
  ASSUME NEW t \in Int, NEW h \in Int, NEW m \in Int, NEW s \in Int, Parts(t, h, m, s)
  PROVE  TimeOfDay(t) = [h |-> h, m |-> m, s |-> s]
<1> USE DEF Parts
<1>1. PICK u \in Int : u = 60 * m + s
  OBVIOUS
<1>2. 0 <= u /\ u < 3600 /\ t = 3600 * h + u
  BY <1>1
<1>3. t \div 3600 = h /\ t % 3600 = u
  <2>1. 3600 \in Nat \ {0} /\ 3600 * h <= t /\ t < 3600 * h + 3600 /\ t - 3600 * h = u
    BY <1>2
  <2>2. QED
    BY <2>1, TheQuotient, SMT
<1>4. u \div 60 = m
  <2>1. 60 \in Nat \ {0} /\ 60 * m <= u /\ u < 60 * m + 60
    BY <1>1
  <2>2. QED
    BY <2>1, TheQuotient, SMT
<1>5. t % 60 = s
  <2>1. PICK q \in Int : q = 60 * h + m
    OBVIOUS
  <2>2. 60 \in Nat \ {0} /\ 60 * q <= t /\ t < 60 * q + 60 /\ t - 60 * q = s
    BY <2>1
  <2>3. QED
    BY <2>2, TheQuotient, SMT
<1>6. QED
  BY <1>3, <1>4, <1>5 DEF TimeOfDay

LEMMA TimeSplit ==
  ASSUME NEW t \in Int
  PROVE  \E h, m, s \in Int : Parts(t, h, m, s)
<1>1. PICK h \in Int : 3600 * h <= t /\ t < 3600 * h + 3600
  <2>1. t \div 3600 \in Int /\ 3600 * (t \div 3600) <= t /\ t < 3600 * (t \div 3600) + 3600
    BY Quotient, SMT
  <2>2. PICK h \in Int : h = t \div 3600
    BY <2>1
  <2>3. 3600 * h <= t /\ t < 3600 * h + 3600
    BY <2>1, <2>2, SMT
  <2>4. QED
    BY <2>3
<1>2. PICK u \in Int : u = t - 3600 * h
  OBVIOUS
<1>3. PICK m \in Int : 60 * m <= u /\ u < 60 * m + 60
  <2>1. u \div 60 \in Int /\ 60 * (u \div 60) <= u /\ u < 60 * (u \div 60) + 60
    BY Quotient, SMT
  <2>2. PICK m \in Int : m = u \div 60
    BY <2>1
  <2>3. 60 * m <= u /\ u < 60 * m + 60
    BY <2>1, <2>2, SMT
  <2>4. QED
    BY <2>3
<1>4. PICK s \in Int : s = u - 60 * m
  OBVIOUS
<1>5. Parts(t, h, m, s)
  BY <1>1, <1>2, <1>3, <1>4, SMT DEF Parts
<1>6. QED
  BY <1>5

SecondOfDay(t) == t \in Nat /\ t < 86400

\* The calendar and the clock are at a second of the day days.
ClockInv == days \in Nat /\ SecondOfDay(rest) /\ StampIsCivil

LEMMA ClockStep == ClockInv /\ [ClockTick]_clockVars => ClockInv'
<1> SUFFICES ASSUME ClockInv, [ClockTick]_clockVars PROVE ClockInv'
  OBVIOUS
<1>1. CASE UNCHANGED clockVars
  BY <1>1, Zenon DEF ClockInv, StampIsCivil, clockVars
<1>2. CASE ClockTick
  <2>0. days \in Nat /\ SecondOfDay(rest) /\ StampIsCivil
    BY Zenon DEF ClockInv
  <2>1. rest \in Int /\ 0 <= rest /\ rest <= 86399 /\ days \in Int /\ 0 <= days
    BY <2>0, SMT DEF SecondOfDay
  <2>2. Step \in Int /\ 1 <= Step /\ Step <= 86400
    BY ClockOK, SMT
  <2>3. PICK r \in Int : r = rest + Step
    BY <2>1, <2>2
  <2>4. 0 <= r /\ r < 172800
    BY <2>1, <2>2, <2>3
  <2>5. PICK h, m, s \in Int : Parts(rest, h, m, s)
    BY <2>1, TimeSplit
  <2>6. TimeOfDay(rest) = [h |-> h, m |-> m, s |-> s]
    BY <2>1, <2>5, TimeFacts
  <2>7. wall = [date |-> CivilDate(days), time |-> TimeOfDay(rest)]
    BY <2>0, Zenon DEF StampIsCivil, Stamp
  <2>8. Later(wall.time) = TimeOfDay(r)
    <3>1. wall.time.h * 3600 + wall.time.m * 60 + wall.time.s + Step = r
      BY <2>2, <2>3, <2>5, <2>6, <2>7 DEF Parts
    <3>2. QED
      BY <3>1 DEF Later, TimeOfDay
  <2>9. PICK a, b, c \in Int : Parts(r, a, b, c)
    BY <2>4, TimeSplit
  <2>10. TimeOfDay(r) = [h |-> a, m |-> b, s |-> c]
    BY <2>9, TimeFacts
  <2>u. PICK u, v : u = r \div 86400 /\ v = r % 86400
    OBVIOUS
  <2>d. days' = days + u /\ rest' = v
    BY <1>2, <2>3, <2>u, SMT DEF ClockTick
  <2>11. wall' = IF a < 24 THEN [wall EXCEPT !.time = TimeOfDay(r)]
                 ELSE [date |-> NextDay(wall.date), time |-> [TimeOfDay(r) EXCEPT !.h = @ - 24]]
    BY <1>2, <2>3, <2>8, <2>10 DEF ClockTick
  <2>12. CASE r < 86400
    <3>1. u = 0 /\ v = r
      <4>1. PICK k \in Int : k = 0
        OBVIOUS
      <4>2. 86400 \in Nat \ {0} /\ 86400 * k <= r /\ r < 86400 * k + 86400 /\ r - 86400 * k = r
        BY <2>4, <2>12, <4>1, SMT
      <4>3. QED
        BY <2>u, <4>1, <4>2, TheQuotient, SMT
    <3>2. a < 24
      BY <2>9, <2>12, SMT DEF Parts
    <3>3. wall' = [date |-> CivilDate(days), time |-> TimeOfDay(r)]
      BY <2>7, <2>11, <3>2
    <3>4. days' = days /\ rest' = r
      BY <2>1, <2>d, <3>1
    <3>5. SecondOfDay(rest') /\ days' \in Nat
      <4>1. SecondOfDay(r)
        BY <2>4, <2>12, SMT DEF SecondOfDay
      <4>2. QED
        BY <2>0, <3>4, <4>1
    <3>6. wall' = Stamp(days', rest')
      BY <3>3, <3>4 DEF Stamp
    <3>7. QED
      BY <3>5, <3>6, Zenon DEF ClockInv, StampIsCivil
  <2>13. CASE ~(r < 86400)
    <3>1. PICK w \in Int : w = r - 86400
      OBVIOUS
    <3>2. 0 <= w /\ w <= 86399 /\ r = 86400 * 1 + w
      BY <2>4, <2>13, <3>1, SMT
    <3>3. u = 1 /\ v = w
      <4>1. PICK k \in Int : k = 1
        OBVIOUS
      <4>2. 86400 \in Nat \ {0} /\ 86400 * k <= r /\ r < 86400 * k + 86400 /\ r - 86400 * k = w
        BY <3>1, <3>2, <4>1, SMT
      <4>3. QED
        BY <2>u, <4>1, <4>2, TheQuotient, SMT
    <3>4. ~(a < 24)
      BY <2>9, <2>13, SMT DEF Parts
    <3>5. PICK e \in Int : e = a - 24
      OBVIOUS
    <3>6. TimeOfDay(w) = [h |-> e, m |-> b, s |-> c]
      <4>1. Parts(w, e, b, c)
        BY <2>9, <3>1, <3>5, SMT DEF Parts
      <4>2. QED
        BY <4>1, TimeFacts
    <3>7. [TimeOfDay(r) EXCEPT !.h = @ - 24] = [h |-> e, m |-> b, s |-> c]
      BY <2>10, <3>5, SMT
    <3>8. wall' = [date |-> NextDay(CivilDate(days)), time |-> TimeOfDay(w)]
      BY <2>7, <2>11, <3>4, <3>6, <3>7
    <3>9. CivilDate(days + 1) = NextDay(CivilDate(days))
      BY <2>1, DayAfterDay
    <3>10. days' = days + 1 /\ rest' = w /\ days' \in Nat
      BY <2>0, <2>d, <3>3
    <3>11. SecondOfDay(rest')
      <4>1. SecondOfDay(w)
        BY <3>2, SMT DEF SecondOfDay
      <4>2. QED
        BY <3>10, <4>1
    <3>12. wall' = Stamp(days', rest')
      BY <3>8, <3>9, <3>10 DEF Stamp
    <3>13. QED
      BY <3>10, <3>11, <3>12, Zenon DEF ClockInv, StampIsCivil
  <2>14. QED
    BY <2>12, <2>13
<1>3. QED
  BY <1>1, <1>2

LEMMA EpochIsCivil == ClockInit => ClockInv
<1> SUFFICES ASSUME ClockInit PROVE ClockInv
  OBVIOUS
<1>1. InEra(0, 4, 135080)
  BY SMT DEF InEra, EraDay, EraDays, EpochDays
<1>2. Before(369) = 134774 /\ Days(369) \in {365, 366}
  <2>1. 369 \div 4 = 92 /\ 369 \div 100 = 3
    OBVIOUS
  <2>2. QED
    BY <2>1, BeforeType, SMT DEF Before, Quarter, Century
<1>3. InYear(369, 135080) /\ 135080 - Before(369) = 306
  BY <1>2, SMT DEF InYear
<1>4. CivilDate(0) = DateIn(4, 369, 306)
  BY <1>1, <1>3, DateOf, SMT
<1>5. InMonth(10, 306)
  <2>1. 10 + 1 = 11
    OBVIOUS
  <2>2. QED
    BY <2>1, MonthTable, SMT DEF InMonth
<1>6. DateIn(4, 369, 306) =
        [year |-> 369 + 4 * 400 + 1, month |-> Civil(10), day |-> 306 - Off(10) + 1]
  BY <1>5, DateByMonth, SMT
<1>7. CivilDate(0) = [year |-> 1970, month |-> 1, day |-> 1]
  BY <1>4, <1>6, MonthTable, SMT DEF Civil
<1>8. TimeOfDay(0) = [h |-> 0, m |-> 0, s |-> 0]
  <2>1. Parts(0, 0, 0, 0)
    BY SMT DEF Parts
  <2>2. QED
    BY <2>1, TimeFacts, SMT
<1>9. Stamp(days, rest) = wall /\ SecondOfDay(rest) /\ days \in Nat
  BY <1>7, <1>8, SMT DEF ClockInit, Stamp, SecondOfDay
<1>10. QED
  BY <1>9, Zenon DEF ClockInv, StampIsCivil

\* Of every day from the epoch on, and of every second of it, the stamp is what a
\* calendar and a clock show: the arithmetic without a table of months or of leap
\* years (days_to_date's quotients) has no day on which it is off by one.
THEOREM StampsAreCivil == ClockSpec => []StampIsCivil
<1>1. ClockInv => StampIsCivil
  BY Zenon DEF ClockInv
<1>2. QED
  BY EpochIsCivil, ClockStep, <1>1, PTL DEF ClockSpec
-----------------------------------------------------------------------------
(* Ages                                                                    *)

LEMMA SmallRest ==
  ASSUME NEW a \in Int, NEW n \in Nat \ {0}, 0 <= a, a < n
  PROVE  a % n = a
BY SMT

LEMMA NegativeRest ==
  ASSUME NEW a \in Int, NEW n \in Nat \ {0}, -n <= a, a < 0
  PROVE  a % n = a + n
BY SMT

LEMMA WholeQuotient ==
  ASSUME NEW a \in Int, NEW n \in Nat \ {0}, NEW q \in Int, a = n * q
  PROVE  a \div n = q
<1>1. n * q <= a /\ a < n * q + n
  OBVIOUS
<1>2. QED
  BY ONLY <1>1, a \in Int, q \in Int, n \in Nat \ {0}, SMT

\* What fits an i64 is itself; what does not is less.
LEMMA FitsI64 ==
  ASSUME NEW n \in Int, -SignBit <= n, n < SignBit
  PROVE  AsI64(n) = n
<1>1. SignBit \in Nat \ {0} /\ 2 * SignBit \in Nat \ {0}
  BY AgesOK DEF AgesOK, WordsOK
<1>2. CASE 0 <= n
  <2>1. n % (2 * SignBit) = n
    BY <1>1, <1>2, SmallRest
  <2>2. QED
    BY <1>1, <1>2, <2>1 DEF AsI64
<1>3. CASE n < 0
  <2>1. n % (2 * SignBit) = n + 2 * SignBit
    BY <1>1, <1>3, NegativeRest
  <2>2. QED
    BY <1>1, <1>3, <2>1 DEF AsI64
<1>4. QED
  BY <1>2, <1>3

LEMMA AtMostI64 ==
  ASSUME NEW n \in Nat
  PROVE  AsI64(n) \in Int /\ AsI64(n) <= n
<1>1. SignBit \in Nat \ {0} /\ 2 * SignBit \in Nat \ {0}
  BY AgesOK DEF AgesOK, WordsOK
<1>2. n % (2 * SignBit) \in 0 .. 2 * SignBit - 1
  BY <1>1, Rest
<1>3. n % (2 * SignBit) <= n
  <2>1. CASE n < 2 * SignBit
    <3>1. n % (2 * SignBit) = n
      BY <1>1, <2>1, SmallRest
    <3>2. QED
      BY <3>1
  <2>2. CASE n >= 2 * SignBit
    BY <1>1, <1>2, <2>2
  <2>3. QED
    BY <1>1, <2>1, <2>2
<1>4. QED
  BY <1>1, <1>2, <1>3 DEF AsI64

LEMMA DaysAreI64 ==
  ASSUME NEW d \in DayCounts
  PROVE  /\ d \in Nat /\ d * Day \in Nat /\ d <= d * Day
         /\ d < SignBit /\ d * Day < SignBit
<1>1. d \in Nat /\ d * Day < SignBit /\ Day \in Nat \ {0} /\ SignBit \in Nat
  BY AgesOK DEF AgesOK, WordsOK
<1>2. d * Day = d + d * (Day - 1) /\ d * (Day - 1) \in Nat
  BY <1>1, SMT
<1>3. QED
  BY <1>1, <1>2

\* The threshold of d days is d days before the command.
LEMMA ThresholdIs ==
  ASSUME NEW d \in DayCounts
  PROVE  DaysAgoEpoch(d, Start) = Start - d * Day
<1>1. Start \in Nat /\ Start < SignBit /\ SignBit \in Nat
  BY AgesOK DEF AgesOK, WordsOK
<1>2. AsI64(d) = d /\ AsI64(d * Day) = d * Day
  BY <1>1, DaysAreI64, FitsI64
<1>3. AsI64(Start - d * Day) = Start - d * Day
  BY <1>1, DaysAreI64, FitsI64
<1>4. QED
  BY <1>2, <1>3 DEF DaysAgoEpoch

\* The days since a second in the past are whole and are over.
LEMMA DaysAreOver ==
  ASSUME NEW n \in Nat, NEW t \in Int, NEW time \in Int, n = time - t
  PROVE  DaysSinceEpoch(t, time) \in Int /\ DaysSinceEpoch(t, time) * Day <= n
<1>1. Day \in Nat \ {0}
  BY AgesOK DEF AgesOK, WordsOK
<1> DEFINE s == AsI64(n)
<1>2. s \in Int /\ s <= n
  BY AtMostI64
<1>3. DaysSinceEpoch(t, time) = IF s >= 0 THEN s \div Day ELSE -((-s) \div Day)
  BY DEF DaysSinceEpoch
<1> HIDE DEF s
<1>4. CASE s >= 0
  <2>1. s \div Day \in Int /\ Day * (s \div Day) <= s
    BY <1>1, <1>2, Quotient
  <2>2. QED
    BY <1>1, <1>2, <1>3, <1>4, <2>1
<1>5. CASE s < 0
  <2>1. PICK q \in Int : q = (-s) \div Day
    BY <1>1, <1>2, Quotient
  <2>2. Day * q <= -s /\ -s < Day * q + Day
    BY <1>1, <1>2, <2>1, Quotient
  <2>3. q >= 0
    <3>1. SUFFICES ASSUME q <= -1 PROVE FALSE
      BY <2>1
    <3>2. Day * q <= Day * (-1)
      BY <1>1, <3>1, SMT
    <3>3. QED
      BY <1>1, <1>2, <1>5, <2>2, <3>2
  <2>4. Day * q >= 0
    BY <1>1, <2>3, SMT
  <2>5. PICK p \in Int : p = Day * q /\ (-q) * Day = -p
    BY <1>1, SMT
  <2>6. QED
    BY <1>2, <1>3, <1>5, <2>1, <2>4, <2>5
<1>6. QED
  BY <1>2, <1>4, <1>5

-----------------------------------------------------------------------------

\* What was asked is days of the command line, and what stands in its place is their
\* thresholds at the command.
ThresholdsStand ==
  /\ {asked.older, asked.newer, asked.mtime_older} \subseteq Optional
  /\ filters.older_than = {DaysAgoEpoch(d, started) : d \in asked.older}
  /\ filters.newer_than = {DaysAgoEpoch(d, started) : d \in asked.newer}
  /\ filters.mtime_older_than = {DaysAgoEpoch(d, started) : d \in asked.mtime_older}
  /\ filters.mtime_newer_than = NotGiven

AgesInv ==
  /\ started = Start /\ now \in Nat /\ started <= now
  /\ rows \subseteq Rows
  /\ ThresholdsStand

LEMMA AgesStart == AgesInit => AgesInv
<1> SUFFICES ASSUME AgesInit PROVE AgesInv
  OBVIOUS
<1>1. now = Start /\ started = Start /\ rows = Rows /\ Start \in Nat
  BY AgesOK DEF AgesInit, AgesOK
<1>2. PICK o, n, m \in Optional, few \in BOOLEAN : Ask(o, n, m, few)
  BY DEF AgesInit
<1>3. /\ asked.older = o /\ asked.newer = n /\ asked.mtime_older = m
      /\ filters.older_than = Threshold(o) /\ filters.newer_than = Threshold(n)
      /\ filters.mtime_older_than = Threshold(m) /\ filters.mtime_newer_than = NotGiven
  BY <1>2 DEF Ask
<1>4. QED
  BY <1>1, <1>3 DEF AgesInv, ThresholdsStand, Threshold

LEMMA AgesStep == AgesInv /\ [AgesTick]_ageVars => AgesInv'
<1> SUFFICES ASSUME AgesInv, [AgesTick]_ageVars PROVE AgesInv'
  OBVIOUS
<1>1. UNCHANGED <<asked, filters, rows, started>>
  BY DEF AgesTick, ageVars
<1>2. now' = now + 1 \/ now' = now
  BY DEF AgesTick, ageVars
<1>3. started \in Nat
  BY AgesOK DEF AgesInv, AgesOK
<1>4. now' \in Nat /\ started <= now'
  BY <1>2, <1>3 DEF AgesInv
<1>5. QED
  BY <1>1, <1>4 DEF AgesInv, ThresholdsStand

\* A threshold decides as the age does.
LEMMA AgeIsThreshold ==
  ASSUME NEW given \in Optional, NEW time \in Int, started = Start,
         NEW thresholds, thresholds = {DaysAgoEpoch(d, started) : d \in given}
  PROVE  /\ (\A t \in thresholds : time < t) <=> (\A d \in given : started - time > d * Day)
         /\ (\A t \in thresholds : time >= t) <=> (\A d \in given : started - time <= d * Day)
<1>1. Start \in Nat
  BY AgesOK DEF AgesOK
<1>2. given \subseteq DayCounts
  BY DEF Optional, NotGiven, Some
<1>3. ASSUME NEW d \in given
      PROVE  /\ time < DaysAgoEpoch(d, started) <=> started - time > d * Day
             /\ time >= DaysAgoEpoch(d, started) <=> started - time <= d * Day
  <2>1. DaysAgoEpoch(d, started) = Start - d * Day /\ d * Day \in Nat
    BY <1>2, ThresholdIs, DaysAreI64
  <2>2. QED
    BY <1>1, <2>1
<1>4. QED
  BY <1>3, Zenon

LEMMA AgesList == AgesInv => ListedByAge
<1> SUFFICES ASSUME AgesInv, NEW row \in rows
             PROVE  Selected(filters, row) <=>
                      /\ FitsOtherwise(filters, row)
                      /\ \A d \in asked.older : started - row.atime > d * Day
                      /\ \A d \in asked.newer : started - row.atime <= d * Day
                      /\ \A d \in asked.mtime_older : started - row.mtime > d * Day
  BY DEF ListedByAge
<1>1. row.atime \in Int /\ row.mtime \in Int
  BY AgesOK DEF AgesInv, AgesOK
<1>2. (\A t \in filters.older_than : row.atime < t)
        <=> (\A d \in asked.older : started - row.atime > d * Day)
  BY <1>1, AgeIsThreshold DEF AgesInv, ThresholdsStand
<1>3. (\A t \in filters.newer_than : row.atime >= t)
        <=> (\A d \in asked.newer : started - row.atime <= d * Day)
  BY <1>1, AgeIsThreshold DEF AgesInv, ThresholdsStand
<1>4. (\A t \in filters.mtime_older_than : row.mtime < t)
        <=> (\A d \in asked.mtime_older : started - row.mtime > d * Day)
  BY <1>1, AgeIsThreshold DEF AgesInv, ThresholdsStand
<1>5. \A t \in filters.mtime_newer_than : row.mtime >= t
  BY DEF AgesInv, ThresholdsStand, NotGiven
<1>6. QED
  BY <1>2, <1>3, <1>4, <1>5, Zenon DEF Selected

LEMMA FooterHolds == AgesInv => FooterIsTrue
<1> SUFFICES ASSUME AgesInv, NEW t \in filters.older_than
             PROVE  /\ now = started => asked.older = {DaysSinceEpoch(t, now)}
                    /\ \A row \in rows :
                         Selected(filters, row) => now - row.atime > DaysSinceEpoch(t, now) * Day
  BY DEF FooterIsTrue
<1>1. started \in Nat /\ Start = started /\ now \in Nat /\ started <= now
  BY AgesOK DEF AgesInv, AgesOK
<1>2. PICK d \in DayCounts : asked.older = {d} /\ t = DaysAgoEpoch(d, started)
  <2>1. PICK d \in asked.older : t = DaysAgoEpoch(d, started)
    BY DEF AgesInv, ThresholdsStand
  <2>2. asked.older \in Optional
    BY DEF AgesInv, ThresholdsStand
  <2>3. QED
    BY <2>1, <2>2 DEF Optional, NotGiven, Some
<1>3. /\ t = started - d * Day /\ t \in Int /\ d \in Nat /\ d * Day \in Nat
      /\ d * Day < SignBit
  BY <1>1, <1>2, ThresholdIs, DaysAreI64
<1>4. Day \in Nat \ {0} /\ SignBit \in Nat
  BY AgesOK DEF AgesOK, WordsOK
<1>5. ASSUME now = started PROVE DaysSinceEpoch(t, now) = d
  <2>1. AsI64(now - t) = d * Day
    <3>1. now - t = d * Day
      BY <1>1, <1>3, <1>5
    <3>2. AsI64(d * Day) = d * Day
      BY <1>3, <1>4, FitsI64
    <3>3. QED
      BY <3>1, <3>2
  <2>2. (d * Day) \div Day = d
    <3>1. PICK n : n = d * Day
      OBVIOUS
    <3>2. Day * d = n /\ n \in Int
      BY <1>3, <1>4, <3>1, SMT
    <3>3. n \div Day = d
      BY <1>3, <1>4, <3>2, WholeQuotient
    <3>4. QED
      BY <3>1, <3>3
  <2>3. QED
    BY <1>3, <2>1, <2>2 DEF DaysSinceEpoch
<1>6. ASSUME NEW row \in rows, Selected(filters, row)
      PROVE  now - row.atime > DaysSinceEpoch(t, now) * Day
  <2>1. row.atime \in Int
    BY AgesOK DEF AgesInv, AgesOK
  <2>2. row.atime < t
    BY <1>6 DEF Selected
  <2>3. PICK n \in Nat : n = now - t
    BY <1>1, <1>3
  <2>4. PICK k : k = DaysSinceEpoch(t, now) * Day
    OBVIOUS
  <2>5. k \in Int /\ k <= n
    <3>1. DaysSinceEpoch(t, now) \in Int /\ DaysSinceEpoch(t, now) * Day <= n
      BY <1>1, <1>3, <2>3, DaysAreOver
    <3>2. QED
      BY <1>4, <2>4, <3>1
  <2>6. QED
    BY <1>1, <1>3, <2>1, <2>2, <2>3, <2>4, <2>5
<1>7. QED
  BY <1>2, <1>5, <1>6

\* "Files not accessed in N days": N days are N times a day's seconds before the
\* command, whatever the word they are computed in, and a view that is left open never
\* shows a row for older than it is.
THEOREM AgesDecide == AgesSpec => []AgeDecides
<1>1. AgesInv => AgeDecides
  BY AgesList, FooterHolds DEF AgeDecides
<1>2. QED
  BY AgesStart, AgesStep, <1>1, PTL DEF AgesSpec
-----------------------------------------------------------------------------
(* Shared files                                                            *)

\* Sets of line numbers that have a last, or a first, where they have any.
HasLast(I)  == I = {} \/ \E m \in I : \A j \in I : j <= m
HasFirst(I) == I = {} \/ \E m \in I : \A j \in I : m <= j

LEMMA TheLast ==
  ASSUME NEW I \in SUBSET Int, NEW m \in I, \A j \in I : j <= m
  PROVE  LastOf(I) = m
<1>1. LastOf(I) \in I /\ \A j \in I : j <= LastOf(I)
  BY DEF LastOf
<1>2. LastOf(I) <= m /\ m <= LastOf(I) /\ LastOf(I) \in Int /\ m \in Int
  BY <1>1
<1>3. QED
  BY <1>2

LEMMA TheFirst ==
  ASSUME NEW I \in SUBSET Int, NEW m \in I, \A j \in I : m <= j
  PROVE  FirstAt(I) = m
<1>1. FirstAt(I) \in I /\ \A j \in I : FirstAt(I) <= j
  BY DEF FirstAt
<1>2. FirstAt(I) <= m /\ m <= FirstAt(I) /\ FirstAt(I) \in Int /\ m \in Int
  BY <1>1
<1>3. QED
  BY <1>2

\* What the parser has read stands for the lines so far: the section and the block it is
\* in are those of the next line, and its values are those of the lines.
LinesFind == \A i \in 1 .. Len(text) + 1 : HasLast(Above(i)) /\ HasFirst(Openers(i))

IniShape ==
  /\ st = [ini |-> st.ini, current |-> st.current, block |-> st.block]
  /\ st.ini = [names |-> st.ini.names, values |-> st.ini.values]

IniInv ==
  /\ text \in Seq(Alphabet)
  /\ LinesFind
  /\ IniShape
  /\ st.current = SectionAt(Len(text) + 1)
  /\ st.current # NoName => st.block = OpenAt(Len(text) + 1)
  /\ IniMeaning

LEMMA IniStarts == IniInit => IniInv
<1> SUFFICES ASSUME IniInit PROVE IniInv
  OBVIOUS
<1>1. text = <<>> /\ Len(text) = 0 /\ st = IniStart
  BY DEF IniInit
<1>2. text \in Seq(Alphabet)
  BY <1>1
<1>3. ASSUME NEW i \in 1 .. Len(text) + 1 PROVE Above(i) = {} /\ Openers(i) = {}
  <2>1. 1 .. i - 1 = {}
    BY <1>1
  <2>2. QED
    BY <2>1 DEF Above, Openers
<1>4. SectionAt(Len(text) + 1) = NoName /\ OpenAt(Len(text) + 1) = {}
  BY <1>1, <1>3 DEF SectionAt, OpenAt
<1>5. IniShape /\ st.current = NoName /\ st.ini.values = <<>>
  BY <1>1 DEF IniShape, IniStart, EmptyIni
<1>6. Given = {}
  BY <1>1 DEF Given
<1>7. IniMeaning
  BY <1>5, <1>6 DEF IniMeaning
<1>8. QED
  BY <1>2, <1>3, <1>4, <1>5, <1>7 DEF IniInv, LinesFind, HasLast, HasFirst

-----------------------------------------------------------------------------

\* A line more, and what it leaves of the lines before.
Grows(l) == text \in Seq(Alphabet) /\ l \in Alphabet /\ text' = Append(text, l)

LEMMA TextGrows ==
  ASSUME NEW l, Grows(l)
  PROVE  /\ Len(text) \in Nat /\ Len(text') = Len(text) + 1 /\ text' \in Seq(Alphabet)
         /\ \A i \in 1 .. Len(text) : text'[i] = text[i] /\ text[i] \in Alphabet
         /\ text'[Len(text) + 1] = l
  BY DEF Grows

LEMMA AboveKeeps ==
  ASSUME NEW l, Grows(l), NEW i \in 1 .. Len(text) + 1
  PROVE  Above(i)' = Above(i) /\ Openers(i)' = Openers(i)
<1>1. \A j \in 1 .. i - 1 : text'[j] = text[j]
  BY TextGrows
<1>2. QED
  BY <1>1 DEF Above, Openers

LEMMA PlacesKeep ==
  ASSUME NEW l, Grows(l), LinesFind, NEW i \in 1 .. Len(text) + 1
  PROVE  /\ SectionAt(i)' = SectionAt(i) /\ OpenAt(i)' = OpenAt(i)
         /\ i <= Len(text) => PlaceOf(i)' = PlaceOf(i)
<1>1. Above(i)' = Above(i) /\ Openers(i)' = Openers(i)
  BY AboveKeeps
<1>2. Len(text) \in Nat /\ \A j \in 1 .. i - 1 : text'[j] = text[j]
  BY TextGrows
<1>3. SectionAt(i)' = SectionAt(i)
  <2>1. CASE Above(i) = {}
    BY <1>1, <2>1 DEF SectionAt
  <2>2. CASE Above(i) # {}
    <3>1. PICK m \in Above(i) : \A j \in Above(i) : j <= m
      BY <2>2 DEF LinesFind, HasLast
    <3>2. Above(i) \in SUBSET (1 .. i - 1) /\ Above(i) \in SUBSET Int
      BY <1>2 DEF Above
    <3>3. LastOf(Above(i)) = m /\ m \in 1 .. i - 1
      BY <3>1, <3>2, TheLast
    <3>4. QED
      BY <1>1, <1>2, <2>2, <3>3 DEF SectionAt
  <2>3. QED
    BY <2>1, <2>2
<1>4. OpenAt(i)' = OpenAt(i)
  <2>1. CASE Openers(i) = {}
    BY <1>1, <2>1 DEF OpenAt
  <2>2. CASE Openers(i) # {}
    <3>1. PICK m \in Openers(i) : \A j \in Openers(i) : m <= j
      BY <2>2 DEF LinesFind, HasFirst
    <3>2. Openers(i) \subseteq 1 .. i - 1 /\ Openers(i) \in SUBSET Int
      <4>1. Openers(i) \subseteq 1 .. i - 1
        BY Zenon DEF Openers
      <4>2. QED
        BY <1>2, <4>1
    <3>3. FirstAt(Openers(i)) = m /\ m \in 1 .. i - 1
      BY <3>1, <3>2, TheFirst
    <3>4. QED
      BY <1>1, <1>2, <2>2, <3>3 DEF OpenAt
  <2>3. QED
    BY <2>1, <2>2
<1>5. ASSUME i <= Len(text) PROVE PlaceOf(i)' = PlaceOf(i)
  <2>1. text'[i] = text[i]
    BY <1>2, <1>5, TextGrows
  <2>2. QED
    BY <1>3, <1>4, <2>1 DEF PlaceOf, BlockAt
<1>6. QED
  BY <1>3, <1>4, <1>5

\* The section of the line after.
LEMMA SectionNext ==
  ASSUME NEW l, Grows(l), LinesFind,
         NEW n, n = Len(text), NEW last, last = n + 1, NEW next, next = n + 2
  PROVE  /\ HasLast(Above(next)')
         /\ SectionAt(next)' = IF IsHeader(l) THEN l.name ELSE SectionAt(last)
<1>1. /\ n \in Nat /\ last \in 1 .. n + 1 /\ next - 1 = last
      /\ text'[last] = l /\ \A j \in 1 .. n : text'[j] = text[j]
  BY TextGrows
<1>2. Above(next)' = {j \in 1 .. n : IsHeader(text[j])} \cup {j \in {last} : IsHeader(l)}
  BY <1>1 DEF Above
<1>3. Above(last) = {j \in 1 .. n : IsHeader(text[j])}
  BY <1>1 DEF Above
<1>4. CASE IsHeader(l)
  <2>1. Above(next)' \in SUBSET Int /\ last \in Above(next)' /\ \A j \in Above(next)' : j <= last
    BY <1>1, <1>2, <1>4
  <2>2. LastOf(Above(next)') = last
    BY <2>1, TheLast
  <2>3. SectionAt(next)' = l.name
    BY <1>1, <2>1, <2>2 DEF SectionAt
  <2>4. QED
    BY <1>4, <2>1, <2>3 DEF HasLast
<1>5. CASE ~IsHeader(l)
  <2>1. Above(next)' = Above(last)
    BY <1>2, <1>3, <1>5
  <2>2. HasLast(Above(last))
    BY <1>1 DEF LinesFind
  <2>3. Above(last)' = Above(last) /\ SectionAt(last)' = SectionAt(last)
    BY <1>1, AboveKeeps, PlacesKeep
  <2>4. SectionAt(next)' = SectionAt(last)'
    BY <2>1, <2>3 DEF SectionAt
  <2>5. QED
    BY <1>5, <2>1, <2>2, <2>3, <2>4
<1>6. QED
  BY <1>4, <1>5

\* The block of the line after, if indented: the parser's.
Opens(l) == IsPair(l) /\ l.value = ""

LEMMA OpenNext ==
  ASSUME NEW l, Grows(l), LinesFind,
         NEW n, n = Len(text), NEW last, last = n + 1, NEW next, next = n + 2
  PROVE  /\ HasFirst(Openers(next)')
         /\ OpenAt(next)' = IF ~AtMargin(l) /\ OpenAt(last) # {} THEN OpenAt(last)
                            ELSE IF Opens(l) THEN {l.key} ELSE {}
<1>1. /\ n \in Nat /\ last \in 1 .. n + 1 /\ next - 1 = last /\ last - 1 = n
      /\ text'[last] = l /\ \A j \in 1 .. n : text'[j] = text[j]
  BY TextGrows
<1>2. /\ \A j \in 1 .. last : j = last \/ j \in 1 .. n
      /\ \A j \in 1 .. n : j \in 1 .. last /\ j < last
      /\ last \in 1 .. last
  BY <1>1
<1>3. HasFirst(Openers(last)) /\ OpenAt(last)' = OpenAt(last)
  BY <1>1, PlacesKeep DEF LinesFind
<1>4. Openers(next)' = {j \in 1 .. last : /\ Opens(text'[j])
                                          /\ \A m \in 1 .. last : AtMargin(text'[m]) => m <= j}
  BY <1>1 DEF Openers, Opens
<1>5. Openers(last) = {j \in 1 .. n : /\ Opens(text[j])
                                      /\ \A m \in 1 .. n : AtMargin(text[m]) => m <= j}
  BY <1>1 DEF Openers, Opens
<1>6. \A j \in 1 .. n : j \in Openers(next)' <=> j \in Openers(last) /\ ~AtMargin(l)
  <2> SUFFICES ASSUME NEW j \in 1 .. n
               PROVE  j \in Openers(next)' <=> j \in Openers(last) /\ ~AtMargin(l)
    OBVIOUS
  <2>1. j \in 1 .. last /\ ~(last <= j) /\ text'[j] = text[j]
    BY <1>1, <1>2
  <2>2. (\A m \in 1 .. last : AtMargin(text'[m]) => m <= j)
          <=> (\A m \in 1 .. n : AtMargin(text[m]) => m <= j) /\ ~AtMargin(l)
    BY <1>1, <1>2, <2>1
  <2>3. QED
    BY <1>4, <1>5, <2>1, <2>2
<1>7. last \in Openers(next)' <=> Opens(l)
  <2>1. \A m \in 1 .. last : m <= last
    BY <1>1
  <2>2. QED
    BY <1>1, <1>2, <1>4, <2>1
<1>8. Openers(next)' \in SUBSET (1 .. last) /\ Openers(last) \in SUBSET (1 .. n)
  BY <1>4, <1>5
<1>9. CASE ~AtMargin(l) /\ Openers(last) # {}
  <2>1. PICK m \in Openers(last) : \A j \in Openers(last) : m <= j
    BY <1>3, <1>9 DEF HasFirst
  <2>2. /\ m \in Openers(next)' /\ \A j \in Openers(next)' : m <= j
        /\ Openers(next)' \in SUBSET Int /\ Openers(last) \in SUBSET Int
    BY <1>1, <1>2, <1>6, <1>8, <1>9, <2>1
  <2>3. FirstAt(Openers(next)') = m /\ FirstAt(Openers(last)) = m
    BY <2>1, <2>2, TheFirst
  <2>4. OpenAt(next)' = {text'[m].key} /\ OpenAt(last) = {text[m].key} /\ text'[m] = text[m]
    BY <1>1, <1>8, <1>9, <2>2, <2>3 DEF OpenAt
  <2>5. QED
    BY <1>9, <2>2, <2>4 DEF HasFirst
<1>10. CASE AtMargin(l) \/ Openers(last) = {}
  <2>1. Openers(next)' = {j \in {last} : Opens(l)}
    BY <1>2, <1>6, <1>7, <1>8, <1>10
  <2>2. AtMargin(l) \/ OpenAt(last) = {}
    BY <1>10 DEF OpenAt
  <2>3. CASE Opens(l)
    <3>1. Openers(next)' = {last} /\ last \in Int
      BY <1>1, <2>1, <2>3
    <3>2. FirstAt(Openers(next)') = last
      <4>1. /\ Openers(next)' \in SUBSET Int /\ last \in Openers(next)'
            /\ \A j \in Openers(next)' : last <= j
        BY <3>1
      <4>2. QED
        BY <4>1, TheFirst
    <3>3. OpenAt(next)' = {l.key}
      BY <1>1, <3>1, <3>2 DEF OpenAt
    <3>4. HasFirst(Openers(next)')
      <4>1. last \in Openers(next)' /\ \A j \in Openers(next)' : last <= j
        BY <3>1
      <4>2. QED
        BY <4>1 DEF HasFirst
    <3>5. QED
      BY <2>2, <2>3, <3>3, <3>4
  <2>4. CASE ~Opens(l)
    <3>1. Openers(next)' = {}
      BY <2>1, <2>4
    <3>2. OpenAt(next)' = {}
      BY <3>1 DEF OpenAt
    <3>3. QED
      BY <2>2, <2>4, <3>1, <3>2 DEF HasFirst
  <2>5. QED
    BY <2>3, <2>4
<1>11. QED
  BY <1>9, <1>10

LEMMA LinesStillFind ==
  ASSUME NEW l, Grows(l), LinesFind
  PROVE  LinesFind'
<1>1. Len(text) \in Nat /\ Len(text') = Len(text) + 1
  BY TextGrows
<1>2. ASSUME NEW i \in 1 .. Len(text') + 1
      PROVE  HasLast(Above(i)') /\ HasFirst(Openers(i)')
  <2>1. CASE i \in 1 .. Len(text) + 1
    BY <2>1, AboveKeeps DEF LinesFind
  <2>2. CASE i = Len(text) + 2
    <3>1. PICK n, last : n = Len(text) /\ last = n + 1
      OBVIOUS
    <3>2. QED
      BY <2>2, <3>1, SectionNext, OpenNext
  <2>3. QED
    BY <1>1, <2>1, <2>2
<1>3. QED
  BY <1>2 DEF LinesFind, HasLast, HasFirst

-----------------------------------------------------------------------------

\* The lines that give a value.
LEMMA GivenNext ==
  ASSUME NEW l, Grows(l), LinesFind
  PROVE  /\ Given' = Given \cup {i \in {Len(text) + 1} : /\ IsPair(l)
                                                         /\ SectionAt(Len(text) + 1) # NoName}
         /\ \A i \in Given : i \in 1 .. Len(text) /\ PlaceOf(i)' = PlaceOf(i) /\ text'[i] = text[i]
<1>1. /\ Len(text) \in Nat /\ Len(text') = Len(text) + 1 /\ text'[Len(text) + 1] = l
      /\ \A i \in 1 .. Len(text) : text'[i] = text[i]
  BY TextGrows
<1>2. \A i \in 1 .. Len(text) + 1 : SectionAt(i)' = SectionAt(i)
  BY PlacesKeep
<1>3. \A i \in 1 .. Len(text) : PlaceOf(i)' = PlaceOf(i)
  BY <1>1, PlacesKeep
<1>4. 1 .. Len(text') = 1 .. Len(text) \cup {Len(text) + 1}
  BY <1>1
<1>5. Given' = {i \in 1 .. Len(text') : IsPair(text'[i]) /\ SectionAt(i)' # NoName}
  BY DEF Given
<1>6. Given' = Given \cup {i \in {Len(text) + 1} : IsPair(l) /\ SectionAt(Len(text) + 1) # NoName}
  BY <1>1, <1>2, <1>4, <1>5 DEF Given
<1>7. QED
  BY <1>1, <1>3, <1>6 DEF Given

\* A line that gives no value leaves the values.
LEMMA NothingGiven ==
  ASSUME NEW l, Grows(l), LinesFind, IniMeaning, st'.ini.values = st.ini.values,
         ~IsPair(l) \/ SectionAt(Len(text) + 1) = NoName
  PROVE  IniMeaning'
<1>1. Given' = Given
  BY GivenNext
<1>2. \A i \in Given : PlaceOf(i)' = PlaceOf(i) /\ text'[i] = text[i]
  BY GivenNext
<1>3. {PlaceOf(i)' : i \in Given'} = {PlaceOf(i) : i \in Given}
  BY <1>1, <1>2
<1>4. DOMAIN st'.ini.values = {PlaceOf(i)' : i \in Given'}
  BY <1>3 DEF IniMeaning
<1>5. ASSUME NEW i \in Given', \A j \in Given' : PlaceOf(j)' = PlaceOf(i)' => j <= i
      PROVE  st'.ini.values[PlaceOf(i)'] = text'[i].value
  <2>1. i \in Given /\ \A j \in Given : PlaceOf(j) = PlaceOf(i) => j <= i
    BY <1>1, <1>2, <1>5
  <2>2. QED
    BY <1>2, <2>1 DEF IniMeaning
<1>6. QED
  BY <1>4, <1>5 DEF IniMeaning

\* A line that gives one overrides those before it.
LEMMA OneGiven ==
  ASSUME NEW l, Grows(l), LinesFind, IniMeaning,
         IsPair(l), SectionAt(Len(text) + 1) # NoName,
         NEW last, last = Len(text) + 1,
         st'.ini.values = Put(st.ini.values, PlaceOf(last)', l.value)
  PROVE  IniMeaning'
<1> DEFINE at == PlaceOf(last)'
<1>1. Given' = Given \cup {last}
  BY GivenNext
<1>2. \A i \in Given : i \in 1 .. Len(text) /\ PlaceOf(i)' = PlaceOf(i) /\ text'[i] = text[i]
  BY GivenNext
<1>3. Len(text) \in Nat /\ text'[last] = l
  BY TextGrows
<1>4. /\ DOMAIN st'.ini.values = {at} \cup DOMAIN st.ini.values
      /\ st'.ini.values[at] = l.value
      /\ \A x \in DOMAIN st.ini.values : x # at => st'.ini.values[x] = st.ini.values[x]
  BY DEF Put
<1>5. {PlaceOf(i)' : i \in Given'} = {at} \cup {PlaceOf(i) : i \in Given}
  BY <1>1, <1>2
<1>6. DOMAIN st'.ini.values = {PlaceOf(i)' : i \in Given'}
  BY <1>4, <1>5 DEF IniMeaning
<1>7. ASSUME NEW i \in Given', \A j \in Given' : PlaceOf(j)' = PlaceOf(i)' => j <= i
      PROVE  st'.ini.values[PlaceOf(i)'] = text'[i].value
  <2>1. CASE i = last
    BY <1>3, <1>4, <2>1
  <2>2. CASE i # last
    <3>1. i \in Given /\ i \in 1 .. Len(text) /\ PlaceOf(i)' = PlaceOf(i) /\ text'[i] = text[i]
      BY <1>1, <1>2, <2>2
    <3>2. PlaceOf(i) # at
      <4>1. last \in Given' /\ ~(last <= i)
        BY <1>1, <1>3, <3>1
      <4>2. QED
        BY <1>7, <3>1, <4>1
    <3>3. \A j \in Given : PlaceOf(j) = PlaceOf(i) => j <= i
      BY <1>1, <1>2, <1>7, <3>1
    <3>4. PlaceOf(i) \in DOMAIN st.ini.values /\ st.ini.values[PlaceOf(i)] = text[i].value
      BY <3>1, <3>3 DEF IniMeaning
    <3>5. QED
      BY <1>4, <3>1, <3>2, <3>4
  <2>3. QED
    BY <2>1, <2>2
<1>8. QED
  BY <1>6, <1>7 DEF IniMeaning

LEMMA IniStep == IniInv /\ [IniNext]_iniVars => IniInv'
<1> SUFFICES ASSUME IniInv, [IniNext]_iniVars PROVE IniInv'
  OBVIOUS
<1> USE DEF IniInv
<1>1. CASE UNCHANGED iniVars
  <2>1. text' = text /\ st' = st
    BY <1>1 DEF iniVars
  <2>2. \A i : Above(i)' = Above(i) /\ Openers(i)' = Openers(i)
    BY <2>1 DEF Above, Openers
  <2>3. \A i : SectionAt(i)' = SectionAt(i) /\ OpenAt(i)' = OpenAt(i)
    BY <2>1, <2>2 DEF SectionAt, OpenAt
  <2>4. LinesFind'
    BY <2>1, <2>2 DEF LinesFind, HasLast, HasFirst
  <2>5. \A i : PlaceOf(i)' = PlaceOf(i)
    BY <2>1, <2>3 DEF PlaceOf, BlockAt
  <2>6. Given' = Given
    BY <2>1, <2>3 DEF Given
  <2>7. IniMeaning'
    BY <2>1, <2>5, <2>6 DEF IniMeaning
  <2>8. QED
    BY <2>1, <2>3, <2>4, <2>7 DEF IniShape
<1>2. ASSUME NEW l \in Alphabet, TypeLine(l) PROVE IniInv'
  <2>1. Grows(l) /\ st' = ParseLine(st, l)
    BY <1>2 DEF TypeLine, Grows
  <2>2. /\ text' \in Seq(Alphabet) /\ Len(text) \in Nat /\ Len(text') = Len(text) + 1
        /\ text'[Len(text) + 1] = l
    BY <2>1, TextGrows
  <2>3. LinesFind'
    BY <2>1, LinesStillFind
  <2>4. PICK last, next : last = Len(text) + 1 /\ next = Len(text) + 2
    OBVIOUS
  <2>a. next = Len(text') + 1 /\ last \in 1 .. Len(text) + 1
    BY <2>2, <2>4
  <2>5. SectionAt(next)' = IF IsHeader(l) THEN l.name ELSE SectionAt(last)
    BY <2>1, <2>4, SectionNext
  <2>6. OpenAt(next)' = IF ~AtMargin(l) /\ OpenAt(last) # {} THEN OpenAt(last)
                        ELSE IF Opens(l) THEN {l.key} ELSE {}
    BY <2>1, <2>4, OpenNext
  <2>b. st.current = SectionAt(last) /\ (st.current # NoName => st.block = OpenAt(last))
    BY <2>4
  <2>c. ASSUME IniShape', IniMeaning', st'.current = SectionAt(next)',
               st'.current # NoName => st'.block = OpenAt(next)'
        PROVE  IniInv'
    BY <2>2, <2>3, <2>a, <2>c
  <2>7. IsHeader(l) \/ IsPair(l) \/ IsOther(l)
    BY AlphabetOK
  <2>8. CASE IsHeader(l)
    <3>1. st' = ReadHeader(st, l.name)
      BY <2>1, <2>8 DEF ParseLine, IsHeader
    <3>2. /\ IniShape' /\ st'.ini.values = st.ini.values
          /\ st'.current = l.name /\ st'.block = {}
      BY <3>1 DEF ReadHeader, IniShape
    <3>3. ~IsPair(l) /\ AtMargin(l)
      BY <2>8 DEF IsHeader, IsPair, AtMargin
    <3>4. OpenAt(next)' = {}
      BY <2>6, <3>3 DEF Opens
    <3>5. IniMeaning'
      BY <2>1, <3>2, <3>3, NothingGiven
    <3>6. QED
      BY <2>5, <2>8, <2>c, <3>2, <3>4, <3>5
  <2>9. CASE IsOther(l) \/ (IsPair(l) /\ st.current = NoName)
    <3>1. st' = st /\ ~IsHeader(l)
      BY <2>1, <2>9 DEF ParseLine, IsOther, IsPair, IsHeader
    <3>2. ~IsPair(l) \/ SectionAt(Len(text) + 1) = NoName
      BY <2>9 DEF IsOther, IsPair
    <3>3. IniMeaning'
      BY <2>1, <3>1, <3>2, NothingGiven
    <3>4. st'.current = SectionAt(next)'
      BY <2>5, <2>b, <3>1
    <3>5. st'.current # NoName => st'.block = OpenAt(next)'
      <4>1. SUFFICES ASSUME st'.current # NoName PROVE st'.block = OpenAt(next)'
        OBVIOUS
      <4>2. ~AtMargin(l) /\ ~Opens(l)
        BY <2>9, <3>1, <4>1 DEF AtMargin, Opens, IsPair, IsHeader, IsOther
      <4>3. QED
        BY <2>6, <2>b, <3>1, <4>1, <4>2
    <3>6. IniShape'
      BY <3>1 DEF IniShape
    <3>7. QED
      BY <2>c, <3>3, <3>4, <3>5, <3>6
  <2>10. CASE IsPair(l) /\ st.current # NoName
    <3>1. st' = ReadPair(st, l) /\ ~IsHeader(l) /\ st.block = OpenAt(last)
      BY <2>1, <2>10, <2>b DEF ParseLine, IsPair, IsHeader
    <3> DEFINE inner == InnerBlock(st, l)
               at == <<st.current, inner, l.key>>
    <3>2. /\ IniShape' /\ st'.current = st.current /\ st'.block = OpenBlock(inner, l)
          /\ st'.ini.values = Put(st.ini.values, at, l.value)
      BY <3>1 DEF ReadPair, IniShape
    <3>3. at = PlaceOf(last)'
      <4>1. SectionAt(last)' = SectionAt(last) /\ OpenAt(last)' = OpenAt(last)
        BY <2>1, <2>a, PlacesKeep
      <4>2. text'[last] = l
        BY <2>2, <2>4
      <4>3. BlockAt(last)' = inner
        BY <3>1, <4>1, <4>2 DEF BlockAt, InnerBlock
      <4>4. QED
        BY <2>b, <4>1, <4>2, <4>3 DEF PlaceOf
    <3>4. IniMeaning'
      <4>1. SectionAt(Len(text) + 1) # NoName
        BY <2>10
      <4>2. st'.ini.values = Put(st.ini.values, PlaceOf(last)', l.value)
        BY <3>2, <3>3
      <4>3. QED
        BY <2>1, <2>4, <2>10, <4>1, <4>2, OneGiven
    <3>5. st'.block = OpenAt(next)'
      <4>1. AtMargin(l) <=> ~l.indented
        BY <2>10, <3>1 DEF AtMargin, IsPair
      <4>2. Opens(l) <=> l.value = ""
        BY <2>10 DEF Opens
      <4>3. CASE l.indented
        BY <2>6, <3>1, <3>2, <4>1, <4>2, <4>3 DEF OpenBlock, InnerBlock
      <4>4. CASE ~l.indented
        BY <2>6, <3>1, <3>2, <4>1, <4>2, <4>4 DEF OpenBlock, InnerBlock
      <4>5. QED
        BY <4>3, <4>4
    <3>6. QED
      BY <2>5, <2>b, <2>c, <3>1, <3>2, <3>4, <3>5
  <2>11. QED
    BY <2>7, <2>8, <2>9, <2>10
<1>3. QED
  BY <1>1, <1>2 DEF IniNext

\* "the subset of the AWS shared-file INI dialect": however long a file and whatever its
\* keys, its sections and its blocks, each value is that of the last line that gives it.
THEOREM IniIsRead == IniSpec => []IniMeaning
<1>1. IniInv => IniMeaning
  BY DEF IniInv
<1>2. QED
  BY IniStarts, IniStep, <1>1, PTL DEF IniSpec
===================================================================================

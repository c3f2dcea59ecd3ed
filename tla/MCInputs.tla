-------------------------------- MODULE MCInputs --------------------------------
\* What xdu and its readers make of what they are given, for TLC, one kind of it at a
\* time: the AWS settings (S3Settings) and the files they are in (MCIni), the arguments
\* --pattern (MCGlob), --older-than and the like (MCFilters), --mode and --min-size
\* (MCSpecs), and the time (MCClock).
\* What is not looked at stands still.
EXTENDS S3Settings, MCIni, MCClock, MCFilters, FiniteSets

VARIABLES
  scene,   \* what is looked at
  glob,
  spec

arguments == <<glob, ageVars, spec>>

-----------------------------------------------------------------------------
(* What variables and files can hold.                                      *)

Unset == [v \in Var |-> None]

MCRegional == [r \in {DefaultRegion, "eu-1"} |-> "s3." \o r \o ".amazonaws.com"]

URL(scheme, host) == [scheme |-> scheme, tail |-> "", user |-> FALSE, host |-> host, port |-> ""]
MCUrl ==
  [u \in {"https://one", "http://two/", "http://two:odd", "http://u@two", "http://odd", "ftp://two", "https:///"} |->
   CASE u = "https://one"    -> URL("https", "one")
     [] u = "http://two/"    -> [URL("http", "two") EXCEPT !.tail = "/"]
     [] u = "http://two:odd" -> [URL("http", "two") EXCEPT !.port = OddPort]
     [] u = "http://u@two"   -> [URL("http", "two") EXCEPT !.user = TRUE]
     [] u = "http://odd"     -> URL("http", OddHost)
     [] u = "ftp://two"      -> URL("ftp", "two")
     [] OTHER                -> URL("https", "")]

AllFaults == {"load", "tls", "secret"}

\* Values of the keys are named for the source they stand in.
KeyEnvironments ==
  {[Unset EXCEPT !.profile = p, !.id = i, !.secret = s, !.token = t] :
     p \in {None, "a"}, i \in {None, "env", Undecodable}, s \in {None, "env"}, t \in {None, "env"}}

Keys(source_) == <<Pair("id", source_), Pair("secret", source_), Pair("token", source_)>>
KeyTexts ==
  {<<Header(<<"", "default">>)>> \o Keys("default"),
   <<Header(<<"profile", "a">>)>> \o Keys("profile a"),
   <<Header(<<"", "a">>)>> \o Keys("a"),
   <<Header(<<"", "a">>), Pair("id", "a")>>,
   <<Header(<<"profile", "a">>), Pair("secret", "profile a"), Header(NoName), Pair("id", "lost")>>,
   <<Header(<<"", "default">>), Pair("token", "default")>>,
   <<Header(<<"", "default">>), Pair("id", ""), Inner("secret", "inner"), Pair("secret", "default")>>,
   <<Header(<<"", "a">>), Pair("id", "a"), Pair("secret", "a"), Header(<<"", "default">>)>> \o Keys("default")}
KeyFiles == {Absent, Unreadable} \cup {Holding(t) : t \in KeyTexts}

EndpointEnvironments ==
  {[Unset EXCEPT !.id = "env", !.secret = "env", !.region = r, !.endpoint_s3 = s, !.endpoint = e,
                 !.ca_bundle = "file", !.duckdb_endpoint = d] :
     r \in {None, "eu-1", "evil/"}, s \in {None, Undecodable, "https://one", "http://odd", "ftp://two"},
     e \in {None, "http://two/", "http://u@two", "http://two:odd", "https:///"}, d \in {None, "elsewhere"}}
EndpointTexts ==
  {<<Header(<<"", "default">>), Pair("services", "x"), Pair("endpoint_url", "https://one"),
     Header(<<"services", "x">>), Pair("s3", ""), Inner("endpoint_url", "http://two/")>>,
   <<Header(<<"", "default">>), Pair("services", "x"), Pair("s3", ""), Inner("endpoint_url", "http://two/"),
     Pair("region", "eu-1")>>}
EndpointFiles == {Absent} \cup {Holding(t) : t \in EndpointTexts}

WholeCA == Holding({"root"})
OddCA == {Absent, Unreadable} \cup
  {Holding(b) : b \in {{"root", "weak root", "private key"}, {"root", "not PEM"}, {"root", "not DER"},
                       {"root", "TRUSTED CERTIFICATE"}}}
AnyCA == OddCA \cup {Holding(b) : b \in SUBSET Certificates}

TrustEnvironment(bundle, endpoint) ==
  [Unset EXCEPT !.id = "env", !.secret = "env", !.ca_bundle = bundle, !.endpoint = endpoint]

World(e, first, second, named, platform) ==
  [env |-> e, credentials |-> first, config |-> second, named |-> named, platform |-> platform]

MCWorlds ==
  {World(e, a, b, WholeCA, <<Absent, WholeCA>>) : e \in KeyEnvironments, a \in KeyFiles, b \in KeyFiles}
  \cup {World(e, Absent, b, WholeCA, <<Absent, WholeCA>>) : e \in EndpointEnvironments, b \in EndpointFiles}
  \cup {World(TrustEnvironment(b, e), Absent, Absent, f, <<WholeCA, WholeCA>>) :
          b \in {"file", Undecodable}, e \in {None, "http://two/"}, f \in AnyCA}
  \cup {World(TrustEnvironment(None, None), Absent, Absent, WholeCA, <<f, g>>) : f \in AnyCA, g \in OddCA}

\* The lines of a shared file that is parsed as it is typed.
SectionA == <<"profile", "a">>
SectionS == <<"services", "s">>
MCAlphabet ==
  {Header(SectionA), Header(SectionS), Header(NoName), OtherLine}
  \cup {Pair("s3", ""), Pair("url", "u1"), Inner("url", "u2"), Inner("s3", ""), Inner("s3", "x"),
        Pair("", "")}

-----------------------------------------------------------------------------
(* What can be typed as an argument.                                       *)

\* In the order of their codes: ! * - . : ? [ \ ] ^ a b c
Order  == <<"!", "*", "-", ".", ":", "?", "[", "quote", "]", "^", "a", "b", "c">>
\* A name of one letter for alpha.
Groups == [name \in {<<"a">>} |-> {"a", "b", "c"}]

Globs    == INSTANCE MCGlob WITH MaxGlob <- 5, Opening <- <<>>,
                                 Typed <- {"*", "?", "[", "]", "!", "quote", ".", "a"}
Classes  == INSTANCE MCGlob WITH MaxGlob <- 6, Opening <- <<"[">>,
                                 Typed <- {"[", "]", "!", "-", "^", "quote", "a", "c"}
Named    == INSTANCE MCGlob WITH MaxGlob <- 9, Opening <- <<"[", "[", ":">>,
                                 Typed <- {"[", "]", ":", "a", "b"}
Modes    == INSTANCE MCSpecs WITH MaxSpec <- 6, Typed <- {"0", "2", "7", "8", "o", "/", "&"}
Sizes    == INSTANCE MCSpecs WITH MaxSpec <- 5, Typed <- {"1", "2", "K", "M", "I", "B", " "}

\* Around the thresholds of days before 20, of three seconds each, and in the future
\* by a wrong clock.
Times == {-107, -106, -26, -25, -24, 16, 17, 18, 19, 20, 21, 28}
MCRows == [atime : Times, mtime : {-26, 16, 17, 20}, size : {0, 1, 3}, uid : {0, 1}, gid : {0},
           mode : {2, 3, 4}]

-----------------------------------------------------------------------------
SettingsRest ==
  /\ env = Unset /\ credentials = Absent /\ config = Absent /\ pc = "" /\ cause = ""
  /\ bundles = "" /\ settings = "" /\ conn = <<>>
IniRests == text = <<>> /\ st = IniStart
GlobRests == glob = <<>>
AgesRest  ==
  /\ now = Start /\ started = now /\ rows = {}
  /\ Ask(NotGiven, NotGiven, NotGiven, FALSE)
SpecRests == spec = <<>>
ClockRests == ClockInit

MCInit ==
  \/ scene = "settings" /\ Init /\ IniRests /\ GlobRests /\ AgesRest /\ SpecRests /\ ClockRests
  \/ scene = "ini"      /\ IniInit /\ SettingsRest /\ GlobRests /\ AgesRest /\ SpecRests /\ ClockRests
  \/ /\ \/ scene = "glob"  /\ Globs!Init
        \/ scene = "class" /\ Classes!Init
        \/ scene = "named" /\ Named!Init
     /\ SettingsRest /\ IniRests /\ AgesRest /\ SpecRests /\ ClockRests
  \/ scene = "ages"     /\ AgesInit /\ SettingsRest /\ IniRests /\ GlobRests /\ SpecRests /\ ClockRests
  \/ /\ scene \in {"mode", "size"} /\ Modes!Init
     /\ SettingsRest /\ IniRests /\ GlobRests /\ AgesRest /\ ClockRests
  \/ scene = "clock"    /\ ClockInit /\ SettingsRest /\ IniRests /\ GlobRests /\ AgesRest /\ SpecRests

MCNext ==
  /\ UNCHANGED scene
  /\ \/ scene = "settings" /\ Next /\ UNCHANGED <<iniVars, arguments, clockVars>>
     \/ scene = "ini" /\ IniNext /\ UNCHANGED <<vars, arguments, clockVars>>
     \/ /\ \/ scene = "glob" /\ Globs!Next
           \/ scene = "class" /\ Classes!Next
           \/ scene = "named" /\ Named!Next
        /\ UNCHANGED <<vars, iniVars, ageVars, spec, clockVars>>
     \/ scene = "ages" /\ AgesTick /\ UNCHANGED <<vars, iniVars, glob, spec, clockVars>>
     \/ /\ \/ scene = "mode" /\ Modes!Next
           \/ scene = "size" /\ Sizes!Next
        /\ UNCHANGED <<vars, iniVars, glob, ageVars, clockVars>>
     \/ scene = "clock" /\ ClockTick /\ UNCHANGED <<vars, iniVars, arguments>>

MCSpec == MCInit /\ [][MCNext]_<<scene, vars, iniVars, arguments, clockVars>>

-----------------------------------------------------------------------------
\* OneKeyPair, SameEndpoint, VerifiedFirst and WriterIsReadable are those of S3Settings.

\* MCGlob's: the expression of a glob matches what the glob does, and the database
\* accepts that of every glob that is accepted.
MeansTheGlob ==
  /\ scene = "glob" => Globs!MeansTheGlob
  /\ scene = "class" => Classes!MeansTheGlob /\ Classes!DatabaseAccepts
  /\ scene = "named" => Named!MeansTheGlob /\ Named!DatabaseAccepts

\* MCSpecs's: --mode selects the modes that its digits list, and a number with a
\* suffix is that many of the suffix's units; MCFilters's: a row fits what is given.
ReadsAsWritten ==
  /\ scene = "ages" => OthersDecide
  /\ scene = "mode" => Modes!ModeReadsAsListed
  /\ scene = "size" => Sizes!SizeReadsAsWritten

\* IniMeaning is MCIni's, AgeDecides MCFilters's, StampIsCivil MCClock's.
================================================================================

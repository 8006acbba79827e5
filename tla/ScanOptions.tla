----------------------------- MODULE ScanOptions -----------------------------
(***************************************************************************)
(* The core's scan options on their way to the core, in both languages: a  *)
(* host is constructed from the caller's options or from a configuration   *)
(* prepared with resolveScanConfig, is verified against the installed core *)
(* where it is a live one, and scans with what it resolved.  The options   *)
(* and the objects in them stay the caller's, who may change them at any   *)
(* time, and a JavaScript factory awaits the core between reading them and *)
(* building the host.  A JavaScript options object may have some of its    *)
(* options from its prototype: a property read sees them, a copy of the    *)
(* object does not.  One host per behaviour; `content` is what tells two   *)
(* values of an option apart, "refused" one the core does not accept.      *)
(***************************************************************************)
EXTENDS Naturals, Sequences, FiniteSets

CONSTANTS
  Options,     \* the options of the instance, a subset of AllOptions
  Cores,       \* the installed cores of the instance, positions in Released
  MaxGiven,    \* bound: options given at once
  MaxInherited, \* bound: options that come from a prototype at once
  MaxChanges   \* bound: changes the caller makes

AllOptions == {"policy", "actionPolicy", "scanLimits", "ruleset", "placeholderFormatter"}

ASSUME ScanOptionsAssumption ==
  /\ Options \subseteq AllOptions
  /\ MaxGiven \in Nat /\ MaxInherited \in Nat /\ MaxChanges \in Nat

VARIABLES
  language,   \* "js" or "python"
  core,       \* the version the installed core reports
  given,      \* the options set on the caller's options
  form,       \* what kind of value the caller has for each option
  content,    \* what that value holds now
  injected,   \* the scanConfig option: [by, config]
  inherited,  \* the options that are set on the prototype, "scanConfig" among them
  host,       \* idle, activating, live, closed or refused
  kind,       \* how the host is constructed
  checked,    \* the configuration read before the core was touched
  config,     \* the one the host scans with
  refusal,    \* why the construction was refused
  copied,     \* the options createAiContextBoundary has copied
  retained,   \* the host keeps the caller's own options and reads them on every walk
  changes,    \* changes made so far
  waited,     \* one of them while a factory awaited the core
  source      \* what the host was built from: the option values at that time

caller == <<given, form, content, injected, inherited, changes>>
hostVars == <<host, kind, checked, config, refusal, copied, retained, waited, source>>
optionVars == <<language, core, caller, hostVars>>

-----------------------------------------------------------------------------
(* Versions.  `pre` is the prerelease: its phase (1 alpha, 2 beta, 3 rc)   *)
(* and numbers.  A PEP 440 spelling is the same version.                   *)

Version(style, patch, pre) == [style |-> style, patch |-> patch, pre |-> pre]

\* What a core may report, oldest first; the last reports none.
Released == <<
  Version("semver", 0, <<1, 20>>), Version("semver", 0, <<2, 5>>), Version("semver", 0, <<2, 6>>),
  Version("semver", 0, <<2, 9>>), Version("semver", 0, <<2, 13>>), Version("semver", 0, <<2, 14>>),
  Version("pep440", 0, <<2, 14>>), Version("semver", 0, <<3, 1>>), Version("semver", 0, <<>>),
  Version("semver", 1, <<2>>), Version("none", 0, <<>>)>>

\* The installed cores of an instance are releases.
ASSUME CoresAssumption == Cores \subseteq DOMAIN Released

Floor(o) == Version("semver", 0, IF o = "actionPolicy" THEN <<2, 14>> ELSE <<2, 6>>)

\* parseVersion and _parse_version: JavaScript reads SemVer, Python also PEP
\* 440 but one prerelease number at most.
Parses(v) ==
  IF language = "js" THEN v.style = "semver" ELSE v.style # "none" /\ Len(v.pre) <= 2

\* Of two prereleases of one version, a comes first; a release comes last.
\* Python compares <<phase, number>> with 0 for a missing number: the same.
Precedes(a, b) ==
  IF a = <<>> \/ b = <<>> THEN Len(b) < Len(a)
  ELSE \E i \in 1..Len(b) :
         /\ \A j \in 1..(i - 1) : j <= Len(a) /\ a[j] = b[j]
         /\ i > Len(a) \/ a[i] < b[i]

\* coreVersionAtLeast
AtLeast(v, floor) ==
  /\ Parses(v)
  /\ v.patch > floor.patch \/ (v.patch = floor.patch /\ ~Precedes(v.pre, floor.pre))

-----------------------------------------------------------------------------
(* Configurations: the contents of the options that are sent.              *)

\* A callback is held by reference: its entry is not a content.
Callbacks == {"policy", "placeholderFormatter"}
Contents == {"first", "second", "refused"}
ByReference == "reference"

\* The scanConfig option is absent, not a value of resolveScanConfig, or one.
NoInjection == [by |-> "nobody", config |-> <<>>]
Foreign == [by |-> "caller", config |-> <<>>]
InjectionOf(c) == [by |-> "resolveScanConfig", config |-> c]

Malformed(opts) ==
  \/ {"policy", "actionPolicy"} \subseteq opts
  \/ \E o \in opts : form[o] = "malformed"

\* BUG: an object is passed on as it is.
Snapshot_objectKept(o) == IF form[o] \in {"callback", "object"} THEN ByReference ELSE content[o]

\* Text is immutable, a buffer is copied and an object read or serialized once.
Snapshot(o) == IF form[o] = "callback" THEN ByReference ELSE content[o]

\* resolveScanConfig of the options in opts, which are well formed.
Resolve(opts) == [o \in opts |-> Snapshot(o)]

\* Any loose option beside an injected configuration.
Conflicts(opts) == opts # {}

\* The host's own copy of the options carries BOUND_KEY.
Bound(twice) == twice

\* scanConfigOf throws: `twice` when the host itself bound the options before.
Throws(opts, inject, twice) ==
  IF inject = NoInjection THEN Malformed(opts)
  ELSE ~Bound(twice) /\ (inject = Foreign \/ Conflicts(opts))

ConfigOf(opts, inject) == IF inject = NoInjection THEN Resolve(opts) ELSE inject.config

\* What a scan hands the core: a callback is what it is when it is called.
Sent(c) == [o \in DOMAIN c |-> IF c[o] = ByReference THEN content[o] ELSE c[o]]

Requested(c) == DOMAIN c \ {"policy"}

Unsupported(c) == {o \in Requested(c) : ~AtLeast(core, Floor(o))}

\* The scan of the empty text: no finding, so no callback runs.
ProbeFails(c) == Requested(c) # {} /\ \E o \in DOMAIN c \ Callbacks : Sent(c)[o] = "refused"

\* verifyScanOptions: the error it throws, or "none".
Verdict(c) ==
  IF Unsupported(c) # {} THEN "CORE_OPTION_UNSUPPORTED"
  ELSE IF ProbeFails(c) THEN "CORE_OPTION_REJECTED"
  ELSE "none"

-----------------------------------------------------------------------------
(* The caller.                                                             *)

FormsOf(o) ==
  CASE o = "policy" -> {"callback"}
    [] o = "placeholderFormatter" -> {"callback", "malformed"}
    [] o = "scanLimits" -> {"object", "malformed"}
    [] OTHER -> {"text", "object", "malformed"}

\* An option that is not given yet is one that will be in order.
FormAtFirst(o) == IF o \in Callbacks THEN "callback" ELSE "object"

\* At most one option is malformed, and at most one holds what the core refuses.
Init ==
  /\ language \in {"js", "python"}
  /\ core \in {Released[i] : i \in Cores}
  /\ given \in {s \in SUBSET Options : Cardinality(s) <= MaxGiven}
  /\ form \in {f \in [Options -> {"callback", "text", "object", "malformed"}] :
                 /\ \A o \in Options : f[o] \in IF o \in given THEN FormsOf(o) ELSE {FormAtFirst(o)}
                 /\ Cardinality({o \in Options : f[o] = "malformed"}) <= 1}
  /\ content \in {[o \in Options |-> IF o = r THEN "refused" ELSE "first"] :
                    r \in (given \ Callbacks) \cup {"nothing"}}
  /\ injected \in {NoInjection, Foreign}
  /\ inherited \in {s \in SUBSET (given \cup {"scanConfig"}) :
                      Cardinality(s) <= MaxInherited /\ (language = "js" \/ s = {})}
  /\ host = "idle" /\ kind = "none" /\ checked = <<>> /\ config = <<>>
  /\ refusal = "none" /\ copied = {} /\ retained = FALSE /\ waited = FALSE /\ source = <<>>
  /\ changes = 0

\* A change while a JavaScript factory awaits the core is one it may miss.
Changes ==
  /\ changes < MaxChanges /\ host # "refused"
  /\ changes' = changes + 1
  /\ waited' = (waited \/ host = "activating")
  /\ UNCHANGED <<language, core, form, inherited, host, kind, checked, config, refusal, copied, retained, source>>

\* In place: a buffer is written, an object's field set, what a callback does altered.
Mutate(o) ==
  /\ Changes
  /\ form[o] \in {"object", "callback"}
  /\ \E c \in IF o \in Callbacks THEN {"second"} ELSE {"second", "refused"} :
       content' = [content EXCEPT ![o] = c]
  /\ UNCHANGED <<given, injected>>

\* The options object gains or loses a key.  A Python call binds its arguments.
Assign(o) ==
  /\ Changes
  /\ language = "js" \/ host = "idle"
  /\ given' = IF o \in given THEN given \ {o} ELSE given \cup {o}
  /\ Cardinality(given') <= MaxGiven
  /\ UNCHANGED <<content, injected>>

\* The scanConfig option is set to a configuration the caller resolved, or removed.
Reassign ==
  /\ Changes
  /\ language = "js" /\ host # "idle"
  /\ \/ injected' = NoInjection
     \/ ~Malformed(given) /\ injected' = InjectionOf(Resolve(given))
  /\ UNCHANGED <<given, content>>

\* The application builds its configuration once, and then passes it alone, or
\* (a mistake) beside the loose options it built it from.
Prepare ==
  /\ host = "idle" /\ injected = NoInjection
  /\ ~Malformed(given)
  /\ injected' = InjectionOf(Resolve(given))
  /\ given' \in {{}, given}
  /\ UNCHANGED <<language, core, form, content, inherited, changes, hostVars>>

-----------------------------------------------------------------------------
(* The host.                                                               *)

\* Hosts over an injected scanner: one call of maskSecretsWith or its kin, a host
\* that copies its options (the pair of pino hooks, both processors, and
\* redactAttributesWith), and one that keeps them (a single pino hook).
InjectedKinds == {"call", "copying", "keeping"}

\* Live factories: createMaskSecrets, those of the pair of hooks and of both
\* processors ("hooks"), and those of one pino hook.
LiveKinds == {"maskSecrets", "hooks", "singleHook"}

\* What these do with the options: a rest pattern and a spread copy own keys
\* only; withResolvedScanConfig keeps the object itself when it has a scanConfig.
Copying == {"copying", "hooks"}
Keeping == {"keeping", "singleHook", "maskSecrets"}

\* The options and the scanConfig a host finds where it resolves them.
Visible(k) == IF k \in Copying THEN given \ inherited ELSE given

VisibleConfig(k) == IF k \in Copying /\ "scanConfig" \in inherited THEN NoInjection ELSE injected

Retains(k) == k \in Keeping /\ VisibleConfig(k) # NoInjection

RefuseHost(why) == host' = "refused" /\ refusal' = why

\* The host is built and scans with c; `source` is what a reader knows of the
\* values that were given at that moment.
Build(c) ==
  /\ host' = "live"
  /\ config' = c
  /\ source' = Sent(c)
  /\ UNCHANGED refusal

\* A host over an injected scanner, or a call: the options are read and bound
\* where it starts, and nothing is verified.  A Python call has its arguments.
ConstructInjected(k) ==
  /\ host = "idle"
  /\ language = "python" => k = "copying"
  /\ kind' = k
  /\ IF Throws(Visible(k), VisibleConfig(k), FALSE)
     THEN RefuseHost("TypeError") /\ UNCHANGED <<config, source, retained>>
     ELSE Build(ConfigOf(Visible(k), VisibleConfig(k))) /\ retained' = Retains(k)
  /\ UNCHANGED <<language, core, caller, checked, copied, waited>>

\* The live factories read the options by property, then await the core.
\* createMaskSecrets binds them before it does.
BeginLive(k) ==
  /\ language = "js" /\ host = "idle"
  /\ kind' = k
  /\ IF Throws(given, injected, FALSE) THEN RefuseHost("TypeError") /\ UNCHANGED <<checked, retained>>
     ELSE /\ host' = "activating" /\ checked' = ConfigOf(given, injected)
          /\ retained' = (k = "maskSecrets" /\ Retains(k))
          /\ UNCHANGED refusal
  /\ UNCHANGED <<language, core, caller, config, copied, waited, source>>

\* withDefaultLimits: the copy has every option known by name, the caller's own
\* or inherited.
WithDefaultLimits(opts) ==
  (opts \cap AllOptions) \cup IF injected = NoInjection THEN {} ELSE {"scanConfig"}

\* createAiContextBoundary: the options are copied, and only a policy or an
\* actionPolicy is resolved before the core is touched.
BeginAiContext ==
  /\ language = "js" /\ host = "idle"
  /\ kind' = "aiContext"
  /\ IF Malformed(given \cap {"policy", "actionPolicy"}) THEN RefuseHost("TypeError") /\ UNCHANGED <<checked, copied>>
     ELSE /\ host' = "activating"
          /\ checked' = Resolve(given \cap {"policy", "actionPolicy"})
          /\ copied' = WithDefaultLimits(given)
          /\ UNCHANGED refusal
  /\ UNCHANGED <<language, core, caller, config, retained, waited, source>>

\* validateOptions: what an incremental session cannot honour is refused by name.
\* A placeholderFormatter is not looked at.
NotForAiContext == {"scanConfig", "scanLimits", "ruleset"} \cap copied # {}

\* The core cannot be loaded or activated: the factories reject, and the
\* AI-context boundary is built over a core that fails every operation.
CoreFails ==
  /\ host = "activating"
  /\ IF kind # "aiContext" THEN RefuseHost("core")
     ELSE IF NotForAiContext THEN RefuseHost("TypeError")
     ELSE host' = "closed" /\ UNCHANGED refusal
  /\ UNCHANGED <<language, core, caller, kind, checked, config, copied, retained, waited, source>>

\* BUG: createMaskSecrets, too, hands on the caller's options.
BuiltFrom_options(k) == ConfigOf(Visible(k), VisibleConfig(k))

\* createMaskSecrets scans with what it verified.  The other factories hand the
\* caller's options to the host, which resolves what it finds in them again.
BuiltFrom(k) == IF k = "maskSecrets" THEN checked ELSE ConfigOf(Visible(k), VisibleConfig(k))

\* A pair of hooks and a processor bind their own copy of the options, and what
\* they are made of reads that copy again.
HostThrows(k) ==
  \/ k # "maskSecrets" /\ Throws(Visible(k), VisibleConfig(k), FALSE)
  \/ k = "hooks" /\ Throws(Visible(k), InjectionOf(ConfigOf(Visible(k), VisibleConfig(k))), TRUE)

\* After the await: verified, and built.
FinishLive ==
  /\ host = "activating" /\ kind \in LiveKinds
  /\ IF Verdict(checked) # "none" THEN RefuseHost(Verdict(checked)) /\ UNCHANGED <<config, source, retained>>
     ELSE IF HostThrows(kind) THEN RefuseHost("TypeError") /\ UNCHANGED <<config, source, retained>>
     ELSE /\ Build(BuiltFrom(kind))
          /\ retained' = IF kind = "maskSecrets" THEN retained ELSE Retains(kind)
  /\ UNCHANGED <<language, core, caller, kind, checked, copied, waited>>

FinishAiContext ==
  /\ host = "activating" /\ kind = "aiContext"
  /\ IF Verdict(checked) # "none" THEN RefuseHost(Verdict(checked)) /\ UNCHANGED <<config, source>>
     ELSE IF NotForAiContext THEN RefuseHost("TypeError") /\ UNCHANGED <<config, source>>
     ELSE Build([o \in copied |-> IF o \in DOMAIN checked THEN checked[o] ELSE ByReference])
  /\ UNCHANGED <<language, core, caller, kind, checked, copied, retained, waited>>

\* The core's own limits object refuses the numbers, before anything is verified.
LimitsRefused == "scanLimits" \in given /\ content["scanLimits"] = "refused"

\* RedactSecretFilter and create_redacting_span_processor over the live core,
\* which take no scan_config: the core first, then the options in their order,
\* then the check.
ConstructPython ==
  /\ language = "python" /\ host = "idle" /\ injected = NoInjection
  /\ kind' = "live"
  /\ IF Malformed(given \cap {"policy", "actionPolicy", "scanLimits"})
     THEN RefuseHost("TypeError") /\ UNCHANGED <<config, source>>
     ELSE IF LimitsRefused THEN RefuseHost("CORE_OPTION_REJECTED") /\ UNCHANGED <<config, source>>
     ELSE IF Malformed(given) THEN RefuseHost("TypeError") /\ UNCHANGED <<config, source>>
     ELSE IF Verdict(Resolve(given)) # "none"
     THEN RefuseHost(Verdict(Resolve(given))) /\ UNCHANGED <<config, source>>
     ELSE Build(Resolve(given))
  /\ UNCHANGED <<language, core, caller, checked, copied, retained, waited>>

Next ==
  \/ Prepare
  \/ \E o \in Options : Mutate(o) \/ Assign(o)
  \/ Reassign
  \/ \E k \in InjectedKinds : ConstructInjected(k)
  \/ \E k \in LiveKinds : BeginLive(k)
  \/ BeginAiContext \/ CoreFails
  \/ FinishLive \/ FinishAiContext
  \/ ConstructPython

ScanOptionsSpec == Init /\ [][Next]_optionVars

-----------------------------------------------------------------------------
(* What a scan of the host sends.                                          *)

\* The walk throws instead of scanning: a layer over the options is bound, the
\* caller's own object is not.
ScanThrows ==
  IF retained THEN Throws(given, injected, FALSE)
  ELSE kind \in Keeping /\ Throws(given, InjectionOf(config), TRUE)

\* A walk reads the options again where the host keeps the caller's own object.
Sends == Sent(IF retained THEN ConfigOf(given, injected) ELSE config)

\* The caller has set another scanConfig on the object a host reads again, or
\* removed it.
Replaced == retained /\ ConfigOf(given, injected) # config

Data(sent) == [o \in DOMAIN sent \ Callbacks |-> sent[o]]

-----------------------------------------------------------------------------
(* Properties.                                                             *)

Position(v) == CHOOSE i \in DOMAIN Released : Released[i] = v

\* The release from which the core has the option, by the order of releases:
\* 0.1.0-beta.6, and 0.1.0-beta.14 for actionPolicy.
Has(o) == Position(core) >= (IF o = "actionPolicy" THEN 6 ELSE 3) /\ core.style # "none"

\* What the caller changes after a host is built changes no document, limit or
\* ruleset a scan of that host sends - except that a host of a Keeping kind, built
\* from options that have a scanConfig, reads the option again on every walk and
\* so follows a caller who replaces it (Replaced).
SentIsTheSnapshot ==
  host = "live" /\ ~ScanThrows /\ ~Replaced => Data(Sends) = Data(source)

\* Options that are well formed, that the core has and accepts, are not refused,
\* given loose or as one configuration.
RefusedForAReason ==
  /\ host # "idle" /\ ~waited /\ refusal # "core" /\ kind # "aiContext" /\ ~ScanThrows
  /\ Parses(core)
  /\ injected # Foreign
  /\ IF injected = NoInjection THEN ~Malformed(given) ELSE given = {}
  /\ \A o \in Requested(ConfigOf(given, injected)) :
       Has(o) /\ Sent(ConfigOf(given, injected))[o] # "refused"
  => host # "refused"

\* A copying host finds none of these options: its factory has verified them.
LosesInherited ==
  kind \in Copying /\ (inherited \cap given # {} \/ ("scanConfig" \in inherited /\ injected # NoInjection))

\* A scan sends all of these options or this configuration, and they were not both
\* there.
Honours(opts, inject) ==
  /\ opts = {} \/ inject = NoInjection
  /\ DOMAIN Sends = opts \cup DOMAIN inject.config

\* Options are honoured or the construction is refused for a reason.  Nothing
\* given is ignored, nothing given beside a configuration is let pass, and a live
\* host never scans with an option its core does not have or refuses
\* (createAiContextBoundary asks it of the actionPolicy only) - except where the
\* host resolved the options once more after a caller changed them behind the
\* check, and where a copying host loses what its options inherit
\* (LosesInherited): it still honours what is the options' own.
HonouredOrRefused ==
  /\ RefusedForAReason
  /\ host = "live" /\ ~ScanThrows /\ ~Replaced =>
       /\ changes = 0 =>
            IF LosesInherited
            THEN Honours(given \ inherited, IF "scanConfig" \in inherited THEN NoInjection ELSE injected)
            ELSE Honours(given, injected)
       /\ kind \notin InjectedKinds /\ ~(kind \in {"hooks", "singleHook"} /\ waited) =>
            \A o \in DOMAIN Sends \ (IF kind = "aiContext" THEN Callbacks ELSE {"policy"}) :
              Has(o) /\ Sends[o] # "refused"
=============================================================================

---------------------------- MODULE ReleaseTool ----------------------------
(* scripts/version.mjs: the version number is written in 35 places, each   *)
(* found by a pattern of its own; check, sync and bump read and rewrite    *)
(* them one file at a time.  A version is a number and a count of          *)
(* prerelease suffixes: what a pattern makes of a suffix is what differs.  *)
EXTENDS Naturals, Sequences

CONSTANTS
    RtNumbers,       \* the version numbers a command may name
    RtOptions,       \* the category options used
    RtCommands       \* bound: writing commands run, one after the other

ASSUME ReleaseAssumption ==
    RtNumbers \subseteq Nat /\ RtNumbers # {} /\ RtCommands \in Nat

VARIABLES
    rtFiles,         \* the version each target's file carries
    rtRun,           \* the writing command under way
    rtLast,          \* the last one, and whether it ran to its end
    rtVerdict,       \* what the last check said
    rtPlain,         \* no command has yet named a prerelease
    rtLeft           \* commands still to be run

rtVars == <<rtFiles, rtRun, rtLast, rtVerdict, rtPlain, rtLeft>>

-----------------------------------------------------------------------------
(* "quoted": the pattern takes whatever stands between the delimiters.     *)
(* "closed": digits only, with a delimiter after them.                     *)
(* "open":   digits only, and nothing is asked of what follows.            *)
Target(category, pattern) == [category |-> category, pattern |-> pattern]

(* Cargo.toml comes first: it is the canonical version. *)
ManifestTargets == <<Target("manifests", "quoted"), Target("manifests", "quoted")>>
CodeTargets == <<Target("code", "quoted"), Target("code", "open")>>
SdkTargets == <<Target("sdks", "open"), Target("sdks", "closed")>>
EnvTargets == <<Target("env", "closed"), Target("env", "open")>>
InfraTargets == <<Target("infra", "open")>>
DemoTargets == <<Target("demos", "quoted"), Target("demos", "closed")>>
DocTargets == <<Target("docs", "closed"), Target("docs", "open")>>

(* Mutation: Cargo.toml is not the first target. *)
MutTARGETS ==
    CodeTargets \o SdkTargets \o ManifestTargets \o EnvTargets
        \o InfraTargets \o DemoTargets \o DocTargets

TARGETS ==
    ManifestTargets \o CodeTargets \o SdkTargets \o EnvTargets
        \o InfraTargets \o DemoTargets \o DocTargets

CATEGORIES == {TARGETS[i].category : i \in DOMAIN TARGETS} \cup {"unfiltered"}

ASSUME OptionsAssumption == RtOptions \subseteq CATEGORIES

Cargo == CHOOSE i \in DOMAIN TARGETS :
    /\ TARGETS[i].category = "manifests"
    /\ \A j \in DOMAIN TARGETS : TARGETS[j].category = "manifests" => i <= j

Version(number, suffixes) == [number |-> number, suffixes |-> suffixes]
NoMatch == Version(0, 9)
RtVersions == {Version(n, s) : n \in RtNumbers, s \in {0, 1}}
MaxSuffixes == 2

(* What a target's pattern finds in its file. *)
Read(target, found) ==
    CASE target.pattern = "quoted" -> found
      [] target.pattern = "closed" -> IF found.suffixes = 0 THEN found ELSE NoMatch
      [] target.pattern = "open" -> Version(found.number, 0)

(* What replacing the match leaves: a closed pattern that no longer        *)
(* matches leaves the file as it is, an open one leaves the old suffix     *)
(* behind the new version.                                                 *)
Write(target, found, version) ==
    CASE target.pattern = "quoted" -> version
      [] target.pattern = "closed" -> IF found.suffixes = 0 THEN version ELSE found
      [] target.pattern = "open" ->
             Version(version.number,
                     IF found.suffixes + version.suffixes > MaxSuffixes
                     THEN MaxSuffixes ELSE found.suffixes + version.suffixes)

GetCanonicalVersion == Read(TARGETS[Cargo], rtFiles[Cargo])

(* The targets a category option keeps; they are worked off in the order   *)
(* of the table.                                                           *)
FilteredTargets(category) ==
    {i \in DOMAIN TARGETS : category \in {"unfiltered", TARGETS[i].category}}

-----------------------------------------------------------------------------
NoRun == [todo |-> {}, version |-> NoMatch, category |-> "none", dry |-> FALSE, begun |-> FALSE]

ReleaseInit ==
    /\ \E n \in RtNumbers : rtFiles = [i \in DOMAIN TARGETS |-> Version(n, 0)]
    /\ rtRun = NoRun
    /\ rtLast = [run |-> NoRun, complete |-> FALSE]
    /\ rtVerdict = "none"
    /\ rtPlain = TRUE
    /\ rtLeft = RtCommands

SyncVersions(version, category, dry) ==
    /\ rtRun = NoRun /\ rtLeft > 0
    /\ rtRun' = [todo |-> FilteredTargets(category), version |-> version,
                 category |-> category, dry |-> dry, begun |-> FALSE]
    /\ rtPlain' = (rtPlain /\ version.suffixes = 0)
    /\ rtLeft' = rtLeft - 1
    /\ UNCHANGED <<rtFiles, rtLast, rtVerdict>>

(* sync without a version spreads the canonical one; with one it takes any. *)
Sync(category, dry) == SyncVersions(GetCanonicalVersion, category, dry)
SyncTo(version, category, dry) == SyncVersions(version, category, dry)

(* A bump by one step drops the suffix; a bump to a named version takes it. *)
BumpVersion(current) == {Version(current.number + 1, 0)} \cup RtVersions

DoBump(category, dry) ==
    /\ GetCanonicalVersion.number + 1 \in RtNumbers
    /\ \E next \in BumpVersion(GetCanonicalVersion) : SyncVersions(next, category, dry)

WriteTarget ==
    /\ \E i \in rtRun.todo :
           /\ \A j \in rtRun.todo : i <= j
           /\ rtFiles' = IF rtRun.dry THEN rtFiles
                         ELSE [rtFiles EXCEPT ![i] = Write(TARGETS[i], @, rtRun.version)]
           /\ rtRun' = [rtRun EXCEPT !.todo = @ \ {i}, !.begun = TRUE]
    /\ UNCHANGED <<rtLast, rtVerdict, rtPlain, rtLeft>>

CommandEnds ==
    /\ rtRun # NoRun /\ rtRun.todo = {}
    /\ rtRun' = NoRun
    /\ rtLast' = [run |-> rtRun, complete |-> TRUE]
    /\ UNCHANGED <<rtFiles, rtVerdict, rtPlain, rtLeft>>

(* A file that cannot be read throws, and an interrupt stops the process:  *)
(* what was written stays written.                                         *)
CommandCutOff ==
    /\ rtRun # NoRun /\ rtRun.todo # {}
    /\ rtRun' = NoRun
    /\ rtLast' = [run |-> rtRun, complete |-> FALSE]
    /\ UNCHANGED <<rtFiles, rtVerdict, rtPlain, rtLeft>>

Drifted(category) ==
    {i \in FilteredTargets(category) : Read(TARGETS[i], rtFiles[i]) # GetCanonicalVersion}

CheckVersions(category) ==
    /\ rtRun = NoRun
    /\ rtVerdict' = IF Drifted(category) = {} THEN "coherent" ELSE "drift"
    /\ UNCHANGED <<rtFiles, rtRun, rtLast, rtPlain, rtLeft>>

ReleaseNext ==
    \/ \E c \in RtOptions, dry \in BOOLEAN :
           \/ Sync(c, dry) \/ DoBump(c, dry)
           \/ \E v \in RtVersions : SyncTo(v, c, dry)
    \/ WriteTarget \/ CommandEnds \/ CommandCutOff
    \/ \E c \in RtOptions : CheckVersions(c)

ReleaseSpec == ReleaseInit /\ [][ReleaseNext]_rtVars

-----------------------------------------------------------------------------
(* The tool repairs what an interruption left (version.mjs 787-829).       *)
(* While no prerelease has been named: once an unfiltered sync or bump has *)
(* run to its end no file is out of step, whatever state it found; and one *)
(* that was cut off after its first write has already moved the canonical  *)
(* version, so that a plain sync finishes it instead of undoing it.        *)
SyncRepairs ==
    (rtPlain /\ rtRun = NoRun /\ rtLast.run.category = "unfiltered" /\ ~rtLast.run.dry) =>
        /\ rtLast.complete => \A i \in DOMAIN TARGETS : rtFiles[i] = rtLast.run.version
        /\ rtLast.run.begun => rtFiles[Cargo] = rtLast.run.version
=============================================================================

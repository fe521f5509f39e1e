----------------------------- MODULE ConfigAdvice -----------------------------
(***************************************************************************)
(* The configuration advisor of the management panel: the rules of         *)
(* server/config-advice-engine.ts and the two routes that run them.        *)
(*                                                                         *)
(* A rule looks for strings in the app's row and in the seven config files *)
(* the route reads, and says what to add or remove.  What a rule can see   *)
(* is a set of marks: the strings it tests for and the formatting defects  *)
(* it detects.  An operator reads a report, follows its recommendations in *)
(* any order, to the letter and wherever they apply (what is to be added   *)
(* to files, in one that the route reads), and reads the next one.  The    *)
(* rules share the text, so one recommendation can wake or silence another *)
(* rule, and a report is out of date as soon as one item is followed.      *)
(*                                                                         *)
(* Rules meet pairwise, so `scope`, chosen initially, is the one or two    *)
(* rules whose marks the text has and whose advice is followed.            *)
(***************************************************************************)
EXTENDS Integers, FiniteSets

CONSTANT None           \* no report has been read

VARIABLES
    scope,              \* the rules this operator deals with
    text,               \* the marks of the app's row and config files
    report,             \* the suggestions of the report on the screen
    heeded,             \* the rules that were followed
    woken,              \* the rules a followed recommendation set off
    answer              \* what the last request to apply a suggestion said

vars == <<scope, text, report, heeded, woken, answer>>

-------------------------------------------------------------------------------
(* A rule is quiet if one of `silencedBy` is wholly there and nothing of   *)
(* `setOffBy` is.  Its recommendation adds `adds`, removes `drops`, and may*)
(* bring about or end any of `sways` by the way.                           *)
RuleOf(id, silencedBy, setOffBy, drops, adds, sways) ==
    [id |-> id, silencedBy |-> silencedBy, setOffBy |-> setOffBy,
     drops |-> drops, adds |-> adds, sways |-> sways]

(* A flag goes into a line of a YAML or properties file, an old one or a   *)
(* new one, as "-XX:+Name" or "-Xmx2G -Xms1G": with colons and spaces.     *)
FlagLines ==
    {"line-over-120", "quoted-value-over-150", "unquoted-special-value",
     "value-twice", "uneven-indents", "four-levels",
     "unquoted-spaces", "no-sections", "ten-lines-uncommented"}

(* What breaking a line of YAML into a block may do: the block is indented *)
(* further, and its lines may look like keys and values.                   *)
Folding ==
    {"line-over-120", "quoted-value-over-150", "unquoted-special-value",
     "special-no-string", "value-twice", "uneven-indents", "four-levels",
     "key-in-two-maps"}

(* A rule that wants something, in the app's row or among the JVM's flags. *)
Wants(id, alternatives, adds) == RuleOf(id, alternatives, {}, {}, adds, {})
WantsFlags(id, alternatives, adds) ==
    RuleOf(id, alternatives, {}, {}, adds, FlagLines)

(* A rule that objects to any of `defects`, of which the recommendation    *)
(* removes `drops`.                                                        *)
Rejects(id, defects, drops, sways) ==
    RuleOf(id, {{}}, defects, drops, {}, sways)

(* A rule with no test: it always speaks; one that never does.             *)
Always(id) == Wants(id, {}, {})
Never(id) == Rejects(id, {}, {}, {})

JvmRules ==
    {WantsFlags("jvm-heap-size", {{"-Xmx", "-Xms"}}, {"-Xmx", "-Xms"}),
     WantsFlags("jvm-gc-type",
                {{"+UseG1GC"}, {"+UseZGC"}, {"+UseShenandoahGC"}},
                {"+UseG1GC"}),
     Rejects("jvm-aot-compilation",
             {"-TieredCompilation", "-TieredCompilation-mentioned"},
             {"-TieredCompilation"}, {}),
     WantsFlags("jvm-oom-handling",
                {{"HeapDumpOnOutOfMemoryError", "HeapDumpPath"},
                 {"+HeapDumpOnOutOfMemoryError", "HeapDumpPath"}},
                {"+HeapDumpOnOutOfMemoryError", "HeapDumpPath"}),
     WantsFlags("jvm-metaspace", {{"MaxMetaspaceSize"}},
                {"MaxMetaspaceSize"})}

(* Only -ea is to be removed; the rule also looks for the long form, and   *)
(* finds "-ea" in comments and in other words.                             *)
JvmProductionRules ==
    {Rejects("jvm-assertions", {"-ea", "-enableassertions", "-ea-mentioned"},
             {"-ea"}, {}),
     WantsFlags("jvm-verbose-gc", {{"-Xlog:gc"}}, {"-Xlog:gc"}),
     WantsFlags("jvm-rmi", {{"rmi.server.hostname"}},
                {"rmi.server.hostname"})}

(* The rules read lines: they also object to lines that hold no value, to  *)
(* lists in brackets and to one key of two maps, of which nothing can be   *)
(* wrapped, quoted or removed.  A tab counts as one space of indentation   *)
(* (yaml-mixed-indent) until it is converted to two.                       *)
YamlRules ==
    {Rejects("yaml-indentation", {"tabs-and-spaces"}, {"tabs-and-spaces"},
             {"uneven-indents", "four-levels", "line-over-120"}),
     Rejects("yaml-trailing-spaces", {"line-ends-in-spaces"},
             {"line-ends-in-spaces"}, {}),
     Rejects("yaml-long-lines", {"line-over-120", "comment-over-120"},
             {"line-over-120"}, Folding \ {"line-over-120"}),
     Rejects("yaml-quoted-strings",
             {"unquoted-special-value", "special-no-string"},
             {"unquoted-special-value"},
             {"line-over-120", "quoted-value-over-150", "value-twice"}),
     Rejects("yaml-duplicate-keys", {"key-twice", "key-in-two-maps"},
             {"key-twice"}, {}),
     Rejects("yaml-document-separator", {"no-separator"},
             {"no-separator"}, {})}

(* "Set javaVersion": the row has no such column.  A variable of the app   *)
(* may be JAVA_VERSION, and one of those that are moved to a file          *)
(* (app-env-size).                                                         *)
AppRules ==
    {Wants("app-memory-limit", {{"memory_limit"}}, {"memory_limit"}),
     Wants("app-cpu-shares", {{"cpu_shares"}}, {"cpu_shares"}),
     Rejects("app-restart-policy", {"restart-no"}, {"restart-no"}, {}),
     RuleOf("app-java-version", {{"JAVA_VERSION"}}, {}, {}, {},
            {"JAVA_VERSION"}),
     Rejects("app-env-size", {"over-30-variables"}, {"over-30-variables"},
             {"JAVA_VERSION"}),
     Wants("app-port-exposed", {{"ports"}}, {"ports"}),
     Never("app-single-instance"),
     Wants("app-description", {{"description"}}, {"description"}),
     Wants("app-label-tags",
           {{"labels"}, {"label-healthcheck"}}, {"labels"})}

PropsRules ==
    {Rejects("props-whitespace", {"property-ends-in-spaces"},
             {"property-ends-in-spaces"}, {}),
     Rejects("props-encoding", {"bare-non-ASCII"}, {"bare-non-ASCII"}, {}),
     Rejects("props-duplicate", {"property-twice", "most-properties-twice"},
             {"property-twice", "most-properties-twice"}, {}),
     Rejects("props-comments", {"no-heading"}, {"no-heading"}, {}),
     Rejects("props-section", {"no-sections"}, {"no-sections"}, {})}

JvmTuningRules ==
    {WantsFlags("jvm-direct-memory", {{"MaxDirectMemorySize"}},
                {"MaxDirectMemorySize"}),
     WantsFlags("jvm-code-cache", {{"ReservedCodeCacheSize"}},
                {"ReservedCodeCacheSize"}),
     RuleOf("jvm-printflags", {{"PrintFlagsFinal"}, {"+PrintFlagsFinal"}},
            {"-PrintFlagsFinal"}, {}, {"+PrintFlagsFinal"}, FlagLines),
     WantsFlags("jvm-ssi", {{"Xss"}, {"ThreadStackSize"}}, {"Xss"}),
     WantsFlags("jvm-oom-kill",
                {{"ExitOnOutOfMemoryError"}, {"+ExitOnOutOfMemoryError"},
                 {"CrashOnOutOfMemoryError"}},
                {"+ExitOnOutOfMemoryError"}),
     WantsFlags("jvm-string-dedup",
                {{"StringDeduplication"}, {"+UseStringDeduplication"}},
                {"+UseStringDeduplication"}),
     Rejects("jvm-biased-locking",
             {"BiasedLockingStartupDelay", "+UseBiasedLocking",
              "UseBiasedLocking-mentioned"},
             {"BiasedLockingStartupDelay", "+UseBiasedLocking"}, {}),
     Never("jvm-aria")}

(* Lower-casing keys that differ in case only makes them the same key, and *)
(* props-casing compares lower-cased keys: it goes on until the duplicates *)
(* are removed as well.  A value with an anchor does not begin with its    *)
(* quote any more.                                                         *)
StyleRules ==
    {RuleOf("props-casing", {{}},
            {"most-properties-in-two-casings", "most-properties-twice"},
            {"most-properties-in-two-casings"}, {"most-properties-twice"}, {}),
     Rejects("yaml-anchor-usage", {"value-twice"}, {"value-twice"},
             {"line-over-120", "special-no-string"}),
     Rejects("yaml-block-scalar",
             {"quoted-value-over-150", "quoted-comment-over-150"},
             {"quoted-value-over-150"}, Folding \ {"quoted-value-over-150"}),
     Rejects("props-quoted-values", {"unquoted-spaces", "spaces-no-value"},
             {"unquoted-spaces"}, {})}

(* A health check in the Dockerfile or docker-compose.yml, which is what   *)
(* the recommendation asks for, is in no file the route reads; a label is. *)
ContainerRules ==
    {Wants("app-healthcheck", {{"label-healthcheck"}}, {}),
     Wants("app-volumes-persist", {{"volumes"}}, {"volumes"})}

(* jvm-safepoint looks for 'safepoint' in lower case, which the flag it    *)
(* recommends does not contain.                                            *)
JvmDiagnosticRules ==
    {WantsFlags("jvm-native-memory", {{"NativeMemoryTracking"}},
                {"NativeMemoryTracking"}),
     WantsFlags("jvm-safepoint", {{"safepoint", "+PrintSafepointStatistics"}},
                {"+PrintSafepointStatistics"}),
     Never("jvm-usage-tracker")}

(* yaml-mixed-indent counts the distinct indentations and objects to a     *)
(* fourth, even if all are multiples of two.                               *)
LayoutRules ==
    {Rejects("props-empty-values", {"empty-value"}, {"empty-value"},
             {"unquoted-spaces"}),
     Rejects("yaml-missing-newline", {"no-last-newline"},
             {"no-last-newline"}, {}),
     Rejects("yaml-mixed-indent", {"uneven-indents", "four-levels"},
             {"uneven-indents"}, {"line-over-120"}),
     WantsFlags("jvm-parallel-gc-threads",
                {{"ParallelGCThreads"}, {"ConcGCThreads"}},
                {"ParallelGCThreads", "ConcGCThreads"}),
     Always("app-network-mode")}

(* A collector that is only mentioned, or switched off, is not replaced.   *)
(* props-default-value counts the lines that do not begin with '#': a      *)
(* comment on the line of the value leaves the count as it is.             *)
CollectorRules ==
    {Wants("jvm-logging-config",
           {{"logging.config.file"}, {"log4j"}, {"logback"}}, {"logback"}),
     RuleOf("jvm-cms-deprecated", {{}},
            {"+UseConcMarkSweepGC", "UseConcMarkSweepGC-mentioned"},
            {"+UseConcMarkSweepGC"}, {"+UseG1GC"}, FlagLines),
     RuleOf("jvm-parallel-old-gc", {{}},
            {"+UseParallelOldGC", "+UseParallelGC", "UseParallelGC-mentioned"},
            {"+UseParallelOldGC", "+UseParallelGC"}, {"+UseG1GC"}, FlagLines),
     Rejects("props-default-value", {"ten-lines-uncommented"}, {}, {})}

(* A line that names a secret need not hold one ("max-tokens").            *)
HostRules ==
    {Never("jvm-redirect-stdout"), Always("app-log-driver"),
     Always("app-readonly-fs"),
     WantsFlags("jvm-jfr-recording",
                {{"FlightRecorder"}, {"StartFlightRecording"}},
                {"StartFlightRecording"}),
     Rejects("props-sensistive-values",
             {"secret-in-the-file", "secret-named-only"},
             {"secret-in-the-file"}, {})}

(* The last two find their words in comments and strings, too.             *)
LastRules ==
    {Rejects("jvm-args-gray", {"flag-twice"}, {"flag-twice"}, {}),
     WantsFlags("jvm-compiler-threads", {{"CICompilerCount"}},
                {"CICompilerCount"}),
     Rejects("yaml-bool-true", {"True-or-YES", "On-in-a-text"},
             {"True-or-YES"}, {"line-over-120", "value-twice"}),
     Rejects("yaml-null-variants", {"NULL-or-nil", "Null-in-a-text"},
             {"NULL-or-nil"}, {"line-over-120", "value-twice"})}

RULES ==
    UNION {JvmRules, JvmProductionRules, YamlRules, AppRules, PropsRules,
           JvmTuningRules, StyleRules, ContainerRules, JvmDiagnosticRules,
           LayoutRules, CollectorRules, HostRules, LastRules}

(* The marks that are flags of the form -XX:+Name or -XX:-Name, which      *)
(* jvm-args-gray counts.                                                   *)
Toggles ==
    {"+UseG1GC", "+HeapDumpOnOutOfMemoryError", "+PrintFlagsFinal",
     "+ExitOnOutOfMemoryError", "+UseStringDeduplication",
     "+PrintSafepointStatistics"}

(* What the rules see of the app's row; the rest is in the files.          *)
RowMarks ==
    {"memory_limit", "cpu_shares", "restart-no", "JAVA_VERSION",
     "over-30-variables", "ports", "description", "labels",
     "label-healthcheck", "volumes"}

Marks(r) == (UNION r.silencedBy) \union r.setOffBy \union r.adds
Seen == UNION {Marks(r) : r \in scope}

-------------------------------------------------------------------------------
(* Rule r has something to say about text t.                               *)
LoudOnAnyMissing(r, t) ==
    ~(\A wanted \in r.silencedBy : wanted \subseteq t) \/ r.setOffBy \cap t # {}

Loud(r, t) ==
    ~(\E wanted \in r.silencedBy : wanted \subseteq t) \/ r.setOffBy \cap t # {}

analyzeConfiguration(t) == {r \in scope : Loud(r, t)}

(* What the text may be once r's recommendation is followed to the letter; *)
(* one that replaces something may find, in an old report, nothing to      *)
(* replace.                                                                *)
Followed(r, t, swayed) ==
    IF r.drops # {} /\ r.drops \cap t = {}
    THEN t
    ELSE (t \ (r.drops \union r.sways)) \union r.adds \union swayed
             \union {m \in {"flag-twice"} : r.adds \cap t \cap Toggles # {}}

Init ==
    /\ \E r, q \in RULES : scope = {r, q}
    /\ text \in SUBSET Seen
    /\ report = None
    /\ heeded = {}
    /\ woken = {}
    /\ answer = "none"

(* GET advice: every rule over the row and the files as they are now.  The *)
(* files are read in the container, and none is if that is not running.    *)
Advise ==
    /\ report' \in {analyzeConfiguration(text),
                    analyzeConfiguration(text \cap RowMarks)}
    /\ UNCHANGED <<scope, text, heeded, woken, answer>>

(* Text u gives rule q a reason to speak that text t did not.              *)
GivesReason(q, t, u) ==
    Loud(q, u) /\ (~Loud(q, t) \/ q.setOffBy \cap (u \ t) # {})

(* The operator follows an item of the report on the screen.               *)
Follow(r) ==
    /\ report # None
    /\ r \in report
    /\ \E swayed \in SUBSET (r.sways \cap Seen) :
         text' = Followed(r, text, swayed)
    /\ heeded' = heeded \union {r}
    /\ woken' = woken \union
            {q.id : q \in {p \in scope \ {r} : GivesReason(p, text, text')}}
    /\ UNCHANGED <<scope, report, answer>>

(* POST apply runs the rules again, and every run gives its suggestions    *)
(* new ids: the id on the screen is none of them.  Nothing is changed.     *)
Apply(r) ==
    /\ report # None
    /\ r \in report
    /\ answer' = "Suggestion not found"
    /\ UNCHANGED <<scope, text, report, heeded, woken>>

Next == Advise \/ \E r \in scope : Follow(r) \/ Apply(r)

Spec == Init /\ [][Next]_vars

-------------------------------------------------------------------------------
TypeOK ==
    /\ scope \subseteq RULES /\ Cardinality(scope) \in 1..2
    /\ text \subseteq Seen \union {"flag-twice"}
    /\ report = None \/ report \subseteq scope
    /\ heeded \subseteq scope
    /\ woken \subseteq {r.id : r \in scope}
    /\ answer \in {"none", "Suggestion not found"}

(* Rules whose advice does not end: three have no test, three recommend    *)
(* what they do not test for.                                              *)
Restless ==
    {"app-network-mode", "app-log-driver", "app-readonly-fs",
     "app-healthcheck", "app-java-version", "jvm-safepoint"}

(* What keeps a rule awake although its recommendation was followed.       *)
LeftAlone ==
    {<<"jvm-aot-compilation", "-TieredCompilation-mentioned">>,
     <<"jvm-assertions", "-enableassertions">>,
     <<"jvm-assertions", "-ea-mentioned">>,
     <<"jvm-printflags", "-PrintFlagsFinal">>,
     <<"jvm-biased-locking", "UseBiasedLocking-mentioned">>,
     <<"jvm-cms-deprecated", "UseConcMarkSweepGC-mentioned">>,
     <<"jvm-parallel-old-gc", "UseParallelGC-mentioned">>,
     <<"yaml-long-lines", "comment-over-120">>,
     <<"yaml-quoted-strings", "special-no-string">>,
     <<"yaml-duplicate-keys", "key-in-two-maps">>,
     <<"yaml-block-scalar", "quoted-comment-over-150">>,
     <<"yaml-mixed-indent", "four-levels">>,
     <<"yaml-bool-true", "On-in-a-text">>,
     <<"yaml-null-variants", "Null-in-a-text">>,
     <<"props-casing", "most-properties-twice">>,
     <<"props-quoted-values", "spaces-no-value">>,
     <<"props-default-value", "ten-lines-uncommented">>,
     <<"props-sensistive-values", "secret-named-only">>}

Unending == Restless \union {p[1] : p \in {q \in LeftAlone : q[2] \in text}}

(* Rules that following another one may give a new reason: a flag added a  *)
(* second time, keys that lower-casing made equal, a variable moved away,  *)
(* and the layout of the lines that were written.                          *)
Wakeable ==
    {"jvm-args-gray", "props-duplicate", "app-java-version",
     "yaml-mixed-indent", "yaml-long-lines", "yaml-block-scalar",
     "yaml-quoted-strings", "yaml-anchor-usage", "yaml-duplicate-keys",
     "props-section", "props-quoted-values", "props-default-value"}

(* Whatever is followed in whatever order, from a report however old: a    *)
(* recommendation that was followed has no reason to be made again (while  *)
(* the files can be read), unless it is one of the unending ones or        *)
(* following another one gave it a new reason, which happens to no rule    *)
(* about what the configuration says, but for one variable.                *)
AdviceHeeded ==
    /\ woken \subseteq Wakeable
    /\ \A r \in heeded : Loud(r, text) => r.id \in Unending \union woken
===============================================================================

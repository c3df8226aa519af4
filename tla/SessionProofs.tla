--------------------------- MODULE SessionProofs ---------------------------
(***************************************************************************)
(* Session for any number of debuggers, any programs, command lines and    *)
(* config files, and whatever may happen to a run: the features of a run   *)
(* are closed, the state keeps its type, what the data is decoded with is  *)
(* of the build and the type it should be, the code in the target belongs  *)
(* to it, and oid closes nothing but its log file.                         *)
(***************************************************************************)
EXTENDS Session, OICompilerProofs, RecursionLemmas, FiniteSetTheorems, TLAPS

-----------------------------------------------------------------------------
(***************************************************************************)
(* Features                                                                *)
(***************************************************************************)

\* What a feature requires is one of two, the chain has two links.
LEMMA Requirements ==
  /\ \A f : requirements(f) \subseteq {"TypeGraph", "TreeBuilderV2"}
  /\ requirements("TreeBuilderV2") = {"TypeGraph"} /\ requirements("TypeGraph") = {}
BY DEF requirements

\* What the loop of handleFeatureConflicts adds in a round.
missing(s) == (UNION {requirements(f) : f \in s.toCheck}) \ s.enabled

\* After n rounds: nothing was forgotten, nothing that is disabled came in
\* unnoticed, whatever was looked at has what it requires, and what is still to be
\* looked at is further down the chain.
Round(n, s, enabled, disabled) ==
  /\ enabled \subseteq s.enabled /\ s.toCheck \subseteq s.enabled
  /\ ~s.failed => s.enabled \cap disabled = {}
  /\ \A f \in s.enabled \ s.toCheck : requirements(f) \subseteq s.enabled
  /\ \A f \in s.enabled : f \in enabled \/ \E g \in s.enabled : f \in requirements(g)
  /\ n = 1 => s.toCheck \subseteq {"TypeGraph", "TreeBuilderV2"}
  /\ n = 2 => s.toCheck \subseteq {"TypeGraph"}
  /\ n >= 3 => s.toCheck = {}

\* One round.
LEMMA RoundStep ==
  ASSUME NEW enabled, NEW disabled, NEW n \in Nat, NEW s, NEW t,
         Round(n, s, enabled, disabled),
         t = [enabled |-> s.enabled \cup missing(s), toCheck |-> missing(s),
              failed  |-> s.failed \/ missing(s) \cap disabled # {}]
  PROVE  Round(n + 1, t, enabled, disabled)
<1>1. /\ t.enabled = s.enabled \cup missing(s) /\ t.toCheck = missing(s)
      /\ t.failed <=> (s.failed \/ missing(s) \cap disabled # {})
  OBVIOUS
<1>2. /\ enabled \subseteq t.enabled /\ t.toCheck \subseteq t.enabled
      /\ ~t.failed => t.enabled \cap disabled = {}
  BY <1>1 DEF Round
<1>3. ASSUME NEW f \in t.enabled \ t.toCheck
      PROVE  requirements(f) \subseteq t.enabled
  <2>1. f \in s.enabled
    BY <1>1
  <2>2. CASE f \in s.toCheck
    BY <1>1, <2>2 DEF missing
  <2>3. CASE f \notin s.toCheck
    BY <1>1, <2>1, <2>3 DEF Round
  <2>. QED  BY <2>2, <2>3
<1>4. ASSUME NEW f \in t.enabled
      PROVE  f \in enabled \/ \E g \in t.enabled : f \in requirements(g)
  <2>1. CASE f \in s.enabled
    BY <1>1, <2>1 DEF Round
  <2>2. CASE f \in missing(s)
    <3>1. PICK g \in s.toCheck : f \in requirements(g)
      BY <2>2 DEF missing
    <3>2. g \in t.enabled
      BY <1>1, <3>1 DEF Round
    <3>. QED  BY <3>1, <3>2
  <2>. QED  BY <1>1, <2>1, <2>2
<1>5. missing(s) \subseteq {"TypeGraph", "TreeBuilderV2"}
  BY Requirements DEF missing
<1>6. s.toCheck \subseteq {"TypeGraph", "TreeBuilderV2"} => missing(s) \subseteq {"TypeGraph"}
  BY Requirements DEF missing
<1>7. s.toCheck \subseteq {"TypeGraph"} => missing(s) = {}
  BY Requirements DEF missing
<1>8. /\ n + 1 = 1 => t.toCheck \subseteq {"TypeGraph", "TreeBuilderV2"}
      /\ n + 1 = 2 => t.toCheck \subseteq {"TypeGraph"}
      /\ n + 1 >= 3 => t.toCheck = {}
  <2>1. n + 1 = 2 => n = 1
    OBVIOUS
  <2>2. n + 1 >= 3 => n = 2 \/ n >= 3
    OBVIOUS
  <2>. QED  BY <1>1, <1>5, <1>6, <1>7, <2>1, <2>2 DEF Round
<1>. QED  BY <1>2, <1>3, <1>4, <1>8 DEF Round

\* What handleFeatureConflicts returns, if it does: the features it was given and
\* what they require, and nothing that conflicts or that is disabled.
LEMMA FeatureConflicts ==
  ASSUME NEW enabled, NEW disabled, enabled \cap disabled = {},
         NEW fs, handleFeatureConflicts(enabled, disabled) = fs, fs # Nullopt
  PROVE  /\ enabled \subseteq fs.features /\ fs.features \cap disabled = {}
         /\ \A f \in fs.features : /\ requirements(f) \subseteq fs.features
                                   /\ conflicts(f) \cap fs.features = {}
         /\ \A f \in fs.features :
              f \in enabled \/ \E g \in fs.features : f \in requirements(g)
<1>. DEFINE F == enabled \cup {"TypeGraph", "TreeBuilderV2"}
            V == [enabled : SUBSET F, toCheck : SUBSET F, failed : BOOLEAN]
            base == [enabled |-> enabled, toCheck |-> enabled, failed |-> FALSE]
            after(s) == [enabled |-> s.enabled \cup missing(s), toCheck |-> missing(s),
                         failed  |-> s.failed \/ missing(s) \cap disabled # {}]
            step == [q \in V \X Nat |-> after(q[1])]
            N == Len(allFeatures)
            round[n \in 0 .. Len(allFeatures)] ==
              IF n = 0 THEN [enabled |-> enabled, toCheck |-> enabled, failed |-> FALSE]
              ELSE LET s == round[n - 1]
                       missing_ == (UNION {requirements(f) : f \in s.toCheck}) \ s.enabled
                   IN [enabled |-> s.enabled \cup missing_, toCheck |-> missing_,
                       failed  |-> s.failed \/ missing_ \cap disabled # {}]
<1>1. N = 12
  BY DEF allFeatures
<1>2. base \in V
  OBVIOUS
<1>3. ASSUME NEW s \in V
      PROVE  after(s) \in V
  <2>1. missing(s) \subseteq F
    BY Requirements DEF missing
  <2>. QED  BY <2>1
<1>4. step \in [V \X Nat -> V]
  <2>. HIDE DEF V, after
  <2>. QED  BY <1>3
<1>. HIDE DEF N
<1>5. PICK r : IsRecursive(r, N, V, base, step)
  <2>1. N \in Nat
    BY <1>1
  <2>. HIDE DEF V, base, step
  <2>. QED  BY <1>2, <1>4, <2>1, RecursiveFunction
<1>6. ASSUME NEW n \in 0 .. N
      PROVE  r[n] = IF n = 0 THEN base ELSE after(r[n - 1])
  <2>1. CASE n = 0
    BY <1>5, <2>1 DEF IsRecursive
  <2>2. CASE n # 0
    <3>1. n \in 1 .. N /\ n - 1 \in 0 .. N /\ n \in Nat
      BY <1>1, <2>2
    <3>2. r[n] = step[<<r[n - 1], n>>] /\ r[n - 1] \in V
      <4>. HIDE DEF V, step, base
      <4>. QED  BY <1>5, <3>1 DEF IsRecursive
    <3>3. step[<<r[n - 1], n>>] = after(r[n - 1])
      <4>. HIDE DEF V, after
      <4>. QED  BY <3>1, <3>2
    <3>. QED  BY <2>2, <3>2, <3>3
  <2>. QED  BY <2>1, <2>2
<1>7. r = [n \in 0 .. N |-> IF n = 0 THEN base ELSE after(r[n - 1])]
  <2>1. r \in [0 .. N -> V]
    BY <1>5 DEF IsRecursive
  <2>. HIDE DEF V, after, base
  <2>. QED  BY <1>6, <2>1
<1>8. round = [n \in 0 .. N |-> IF n = 0 THEN base ELSE after(round[n - 1])]
  BY <1>7, Zenon DEF N, missing
<1>9. \A n \in 0 .. N : round[n] = IF n = 0 THEN base ELSE after(round[n - 1])
  BY <1>8
<1>. HIDE DEF round
<1>. DEFINE S == {n \in 0 .. N : Round(n, round[n], enabled, disabled)}
<1>10. 0 \in S
  <2>1. round[0] = base
    BY <1>1, <1>9
  <2>. QED  BY <1>1, <2>1 DEF Round
<1>11. ASSUME NEW n \in 0 .. (N - 1), n \in S
       PROVE  n + 1 \in S
  <2>1. n + 1 \in 0 .. N /\ n + 1 # 0 /\ (n + 1) - 1 = n /\ n \in Nat
    BY <1>1
  <2>2. round[n + 1] = after(round[n])
    <3>. HIDE DEF after, base
    <3>. QED  BY <1>9, <2>1
  <2>3. Round(n + 1, round[n + 1], enabled, disabled)
    BY <1>11, <2>1, <2>2, RoundStep
  <2>. QED  BY <2>1, <2>3
<1>12. Round(N, round[N], enabled, disabled)
  <2>1. 0 .. N \subseteq S
    <3>1. N \in Nat
      BY <1>1
    <3>. HIDE DEF S
    <3>. QED  BY <1>10, <1>11, <3>1, UpTo
  <2>. QED  BY <1>1, <2>1
<1>13. /\ ~round[N].failed /\ fs = [features |-> round[N].enabled]
       /\ ~\E f \in round[N].enabled : conflicts(f) \cap round[N].enabled # {}
  BY DEF handleFeatureConflicts, round, N
<1>14. round[N].toCheck = {}
  BY <1>1, <1>12 DEF Round
<1>. QED  BY <1>12, <1>13, <1>14 DEF Round

-----------------------------------------------------------------------------
(***************************************************************************)
(* The command line                                                        *)
(***************************************************************************)

\* A configuration as the options leave it.
ConfigFields == DOMAIN DefaultConfig
IsConfig(c) ==
  /\ c = [x \in ConfigFields |-> c[x]]
  /\ c.status \in {"Success", "UsageError", "FileNotFoundError", "Help"}

\* What main starts with is one.
LEMMA DefaultIsConfig == IsConfig(DefaultConfig)
BY DEF IsConfig, ConfigFields, DefaultConfig

\* An option changes fields of the configuration, it adds none.
LEMMA ParseStep ==
  ASSUME NEW c, IsConfig(c), NEW o
  PROVE  IsConfig(parseOption(c, o))
<1>1. ConfigFields = {"status", "cacheBasePath", "cacheRemoteUpload", "cacheRemoteDownload",
                      "hardDisableDrgn", "pid", "debugInfoFile", "attachToProcess",
                      "compAndExit", "removeMappings", "configFiles", "script",
                      "customCode", "features"}
  BY DEF ConfigFields, DefaultConfig
<1>2. ASSUME NEW x \in ConfigFields \ {"status"}, NEW v, NEW b, IsConfig(b)
      PROVE  IsConfig([b EXCEPT ![x] = v])
  BY <1>1, <1>2 DEF IsConfig
<1>3. ASSUME NEW v \in {"UsageError", "FileNotFoundError", "Help"}
      PROVE  IsConfig([c EXCEPT !.status = v])
  BY <1>1, <1>3 DEF IsConfig
<1>. QED
  BY <1>1, <1>2, <1>3 DEF parseOption

\* The configuration after n of the options.
Parses(f, n, options) ==
  /\ f = [i \in 0 .. n |-> f[i]]
  /\ f[0] = DefaultConfig
  /\ \A i \in 1 .. n : f[i] = parseOption(f[i - 1], options[i])

\* The getopt loop ends with a configuration, whatever the options.
LEMMA ParsedExists ==
  ASSUME NEW options, NEW n \in Nat
  PROVE  \E f : Parses(f, n, options)
<1>. DEFINE S == {m \in Nat : \E f : Parses(f, m, options)}
<1>1. 0 \in S
  <2>. DEFINE D == 0 .. 0
              g == [i \in D |-> DefaultConfig]
  <2>1. 0 \in D /\ 1 .. 0 = {}
    OBVIOUS
  <2>2. Parses(g, 0, options)
    BY <2>1 DEF Parses
  <2>. QED  BY <2>2
<1>2. ASSUME NEW m \in 0 .. (n - 1), m \in S
      PROVE  m + 1 \in S
  <2>1. PICK f : Parses(f, m, options)
    BY <1>2
  <2>. DEFINE g == [i \in 0 .. (m + 1) |->
                      IF i = m + 1 THEN parseOption(f[m], options[m + 1]) ELSE f[i]]
  <2>2. g[0] = DefaultConfig
    BY <2>1 DEF Parses
  <2>3. ASSUME NEW i \in 1 .. (m + 1)
        PROVE  g[i] = parseOption(g[i - 1], options[i])
    <3>1. CASE i = m + 1
      <4>1. i - 1 = m /\ m \in 0 .. (m + 1) /\ m # m + 1
        BY <3>1
      <4>. QED  BY <3>1, <4>1
    <3>2. CASE i # m + 1
      <4>1. i \in 1 .. m /\ i - 1 \in 0 .. (m + 1) /\ i - 1 # m + 1
        BY <3>2
      <4>2. f[i] = parseOption(f[i - 1], options[i])
        BY <2>1, <4>1 DEF Parses
      <4>3. g[i] = f[i] /\ g[i - 1] = f[i - 1]
        BY <3>2, <4>1
      <4>. HIDE DEF g
      <4>. QED  BY <4>2, <4>3
    <3>. QED  BY <3>1, <3>2
  <2>4. g = [i \in 0 .. (m + 1) |-> g[i]]
    OBVIOUS
  <2>. HIDE DEF g
  <2>5. Parses(g, m + 1, options)
    BY <2>2, <2>3, <2>4 DEF Parses
  <2>. QED  BY <2>5
<1>3. 0 .. n \subseteq S
  <2>. HIDE DEF S
  <2>. QED  BY <1>1, <1>2, UpTo
<1>. QED  BY <1>3

\* What the options make of a configuration, and what main does with it.
LEMMA ConfigParsed ==
  ASSUME NEW options, Len(options) \in Nat
  PROVE  \E c : /\ IsConfig(c)
                /\ LET g == processConfigFiles(c.configFiles, c.features)
                       bad == [c EXCEPT !.status = "UsageError"]
                   IN  Config(options) =
                         CASE c.status # "Success" -> c
                           [] c.status = "Success" /\ c.pid = c.debugInfoFile -> bad
                           [] c.status = "Success" /\ c.pid # c.debugInfoFile ->
                                IF (~c.removeMappings /\ ~c.script.given) \/ g = Nullopt
                                  THEN bad
                                ELSE merge([c EXCEPT !.script = IF @.given THEN @
                                                                ELSE DummyScript],
                                           [generatorConfig |-> g])
<1>. DEFINE parsed[n \in 0 .. Len(options)] ==
              IF n = 0 THEN DefaultConfig ELSE parseOption(parsed[n - 1], options[n])
            c == parsed[Len(options)]
<1>1. PICK f : Parses(f, Len(options), options)
  BY ParsedExists
<1>2. f = [n \in 0 .. Len(options) |->
             IF n = 0 THEN DefaultConfig ELSE parseOption(f[n - 1], options[n])]
  <2>1. ASSUME NEW n \in 0 .. Len(options)
        PROVE  f[n] = IF n = 0 THEN DefaultConfig ELSE parseOption(f[n - 1], options[n])
    BY <1>1 DEF Parses
  <2>2. f = [n \in 0 .. Len(options) |-> f[n]]
    BY <1>1 DEF Parses
  <2>. QED  BY <2>1, <2>2
<1>3. parsed = [n \in 0 .. Len(options) |->
                  IF n = 0 THEN DefaultConfig ELSE parseOption(parsed[n - 1], options[n])]
  BY <1>2, Zenon
<1>4. \A n \in 0 .. Len(options) :
        parsed[n] = IF n = 0 THEN DefaultConfig ELSE parseOption(parsed[n - 1], options[n])
  BY <1>3
<1>5. IsConfig(c)
  <2>. HIDE DEF parsed
  <2>. DEFINE S == {n \in 0 .. Len(options) : IsConfig(parsed[n])}
  <2>1. 0 \in S
    BY <1>4, DefaultIsConfig
  <2>2. ASSUME NEW n \in 0 .. (Len(options) - 1), n \in S
        PROVE  n + 1 \in S
    <3>1. n + 1 \in 0 .. Len(options) /\ n + 1 # 0 /\ (n + 1) - 1 = n
      OBVIOUS
    <3>. QED  BY <1>4, <2>2, <3>1, ParseStep
  <2>3. 0 .. Len(options) \subseteq S
    <3>. HIDE DEF S
    <3>. QED  BY <2>1, <2>2, UpTo
  <2>. QED  BY <2>3
<1>6. Config(options) =
        LET g == processConfigFiles(c.configFiles, c.features)
            bad == [c EXCEPT !.status = "UsageError"]
        IN CASE c.status # "Success" -> c
             [] c.status = "Success" /\ c.pid = c.debugInfoFile -> bad
             [] c.status = "Success" /\ c.pid # c.debugInfoFile ->
                  IF (~c.removeMappings /\ ~c.script.given) \/ g = Nullopt THEN bad
                  ELSE merge([c EXCEPT !.script = IF @.given THEN @ ELSE DummyScript],
                             [generatorConfig |-> g])
  BY DEF Config
<1>. HIDE DEF c
<1>. QED  BY <1>5, <1>6

\* What FeaturesClosed says of a configuration.
ConfigClosed(c) ==
  c.status = "Success" =>
    LET fs == c.generatorConfig.features
        asked == {f \in DOMAIN c.features : c.features[f]}
                   \cup UNION {file.features : file \in c.configFiles}
    IN /\ \A f \in fs : requirements(f) \subseteq fs /\ conflicts(f) \cap fs = {}
       /\ \A f \in DOMAIN c.features : c.features[f] <=> f \in fs
       /\ \A f \in fs : f \in asked \/ \E g \in fs : f \in requirements(g)

\* What the config files and the command line make of the features.
LEMMA FilesClosed ==
  ASSUME NEW files, NEW featureMap, NEW g,
         g = processConfigFiles(files, featureMap), g # Nullopt
  PROVE  LET fs == g.features
             asked == {f \in DOMAIN featureMap : featureMap[f]}
                        \cup UNION {file.features : file \in files}
         IN /\ \A f \in fs : requirements(f) \subseteq fs /\ conflicts(f) \cap fs = {}
            /\ \A f \in DOMAIN featureMap : featureMap[f] <=> f \in fs
            /\ \A f \in fs : f \in asked \/ \E h \in fs : f \in requirements(h)
<1>. DEFINE configs == {processConfigFile(f) : f \in files}
            on  == {f \in DOMAIN featureMap : featureMap[f]}
            off == DOMAIN featureMap \ on
            given == ((UNION {c.features : c \in configs}) \ off) \cup on
            fs == handleFeatureConflicts(given, off)
<1>1. Nullopt \notin configs /\ fs # Nullopt /\ g.features = fs.features
  BY DEF processConfigFiles
<1>2. \A file \in files : processConfigFile(file).features = file.features
  BY <1>1 DEF processConfigFile
<1>3. UNION {c.features : c \in configs} = UNION {file.features : file \in files}
  BY <1>2
<1>. HIDE DEF configs
<1>4. given \cap off = {}
  OBVIOUS
<1>5. /\ given \subseteq fs.features /\ fs.features \cap off = {}
      /\ \A f \in fs.features : /\ requirements(f) \subseteq fs.features
                                /\ conflicts(f) \cap fs.features = {}
      /\ \A f \in fs.features :
           f \in given \/ \E h \in fs.features : f \in requirements(h)
  <2>. HIDE DEF given, off
  <2>. QED  BY <1>1, <1>4, FeatureConflicts
<1>6. \A f \in DOMAIN featureMap : featureMap[f] <=> f \in fs.features
  BY <1>5
<1>7. \A f \in given : f \in on \cup UNION {file.features : file \in files}
  BY <1>3
<1>. QED  BY <1>1, <1>5, <1>6, <1>7

\* The configuration of a run: its status is an exit status or Help, and its
\* features are closed.
LEMMA ConfigOk ==
  ASSUME NEW options, Len(options) \in Nat
  PROVE  /\ ConfigClosed(Config(options))
         /\ Config(options).status \in {"Success", "UsageError", "FileNotFoundError", "Help"}
<1>. DEFINE g(c) == processConfigFiles(c.configFiles, c.features)
            bad(c) == [c EXCEPT !.status = "UsageError"]
            full(c) == merge([c EXCEPT !.script = IF @.given THEN @ ELSE DummyScript],
                             [generatorConfig |-> g(c)])
<1>1. PICK c : /\ IsConfig(c)
               /\ \/ c.status # "Success" /\ Config(options) = c
                  \/ Config(options) = bad(c)
                  \/ c.status = "Success" /\ g(c) # Nullopt /\ Config(options) = full(c)
  BY ConfigParsed
<1>2. /\ "status" \in ConfigFields /\ "features" \in ConfigFields
      /\ "configFiles" \in ConfigFields /\ "script" \in ConfigFields
      /\ "generatorConfig" \notin ConfigFields
  BY DEF ConfigFields, DefaultConfig
<1>3. CASE c.status # "Success" /\ Config(options) = c
  BY <1>1, <1>3 DEF ConfigClosed, IsConfig
<1>4. CASE Config(options) = bad(c)
  <2>1. bad(c).status = "UsageError"
    BY <1>1, <1>2 DEF IsConfig
  <2>. QED  BY <1>4, <2>1 DEF ConfigClosed
<1>5. CASE c.status = "Success" /\ g(c) # Nullopt /\ Config(options) = full(c)
  <2>. DEFINE h == [c EXCEPT !.script = IF @.given THEN @ ELSE DummyScript]
  <2>1. /\ DOMAIN h = ConfigFields /\ h.status = c.status
        /\ h.features = c.features /\ h.configFiles = c.configFiles
    BY <1>1, <1>2 DEF IsConfig
  <2>. HIDE DEF g, h
  <2>2. full(c) = merge(h, [generatorConfig |-> g(c)])
    BY DEF h
  <2>3. /\ full(c).status = c.status /\ full(c).features = c.features
        /\ full(c).configFiles = c.configFiles /\ full(c).generatorConfig = g(c)
    BY <1>2, <2>1, <2>2 DEF merge
  <2>4. ConfigClosed(full(c))
    <3>. HIDE DEF full
    <3>. QED  BY <1>5, <2>3, FilesClosed DEF ConfigClosed, g
  <2>. QED  BY <1>5, <2>3, <2>4
<1>. QED  BY <1>1, <1>3, <1>4, <1>5

-----------------------------------------------------------------------------
(***************************************************************************)
(* The invariant                                                           *)
(***************************************************************************)

Fields == DOMAIN Fresh
IsOid(o) == o = [x \in Fields |-> o[x]]

\* One run, by itself.
RunTyped(o) ==
  /\ o.pc \in PCs /\ o.status \in Statuses /\ o.build \in {1, 2}
  /\ o.logFd \in -1 .. LastFd

\* The object files that were counted are there, and the one of the argument at
\* hand is from the moment it was found or compiled, because no file is removed.
FilesThere(o, path, files) ==
  /\ o.objectFiles \subseteq files
  /\ o.pc \in {"padding", "store", "storing", "next"} => path \in files
  /\ o.pc = "compile" /\ ~o.doCompile => path \in files
  /\ o.pc \in {"store", "storing"} => o.entity \in {".fd", ".gd", ".th", ".pd"}

Compiling == {"descs", "check", "padding", "generate", "compile", "store", "storing",
              "next", "link", "probe"}
Withheld == {<<"main">>, <<"main", "worker">>, <<"worker", "main">>}
Stops == [{"main", "worker"} -> {"runs", "stopped", "event"}]

\* The main thread is the last and has stopped before its turn.
Early(o) == o.threads = <<"main">> /\ o.stops["main"] = "stopped"

\* The descriptor is the log file's until the main thread is cleaned up, unless it
\* has stopped early, and not from then on, unless it was skipped, whatever the target
\* makes of its number.
LogHeld(o, fd) ==
  /\ o.pc \in {"idle", "script", "segments", "done"} => o.logFd = NoFd
  /\ o.pc \in Compiling /\ o.logFd # NoFd => fd[o.logFd] = "log"
  /\ o.pc = "restore" =>
       /\ o.threads \in Withheld \cup {<<>>, <<"worker">>} /\ o.stops \in Stops
       /\ o.threads \in Withheld /\ ~Early(o) /\ o.logFd # NoFd => fd[o.logFd] = "log"
       /\ o.threads \notin Withheld /\ o.stops["main"] # "event" /\ o.logFd # NoFd
            /\ o.config.script.reqs[1].type # "global" => fd[o.logFd] # "log"

RunClosed(o) == o.pc # "idle" => ConfigClosed(o.config)

RunOk(o, path, files, fd) ==
  /\ IsOid(o) /\ RunTyped(o) /\ FilesThere(o, path, files) /\ LogHeld(o, fd)
  /\ RunClosed(o)

DescriptorsTyped == fds \in [Debuggers -> [0 .. LastFd -> {"free", "app", "log"}]]
FilesWhole ==
  \A p \in DOMAIN disk : disk[p] = Partial => p[3] \in {".fd", ".gd", ".th", ".pd"}

SessionInv ==
  /\ build \in {1, 2} /\ env \in Envs
  /\ oid = [d \in Debuggers |-> oid[d]]
  /\ DescriptorsTyped /\ FilesWhole
  /\ \A d \in Debuggers : RunOk(oid[d], getPath(d, ".o"), DOMAIN disk, fds[d])

\* The fields by name.
LEMMA FieldNames ==
  Fields = {"pc", "config", "build", "status", "arg", "funcDescs", "globalDescs",
            "typeInfos", "objectFiles", "doCompile", "entity", "th", "image", "logFd",
            "threads", "stops", "interrupted", "fault"}
BY DEF Fields, Fresh

\* Fresh and Exited are runs at their start and at their end.
LEMMA FreshOk ==
  ASSUME NEW path, NEW files, NEW fd
  PROVE  /\ RunOk(Fresh, path, files, fd)
         /\ \A d, status : status \in Statuses /\ oid[d].build \in {1, 2}
              /\ ConfigClosed(oid[d].config)
              => /\ RunOk(Exited(d, status), path, files, fd)
                 /\ RunOk([Exited(d, status) EXCEPT !.fault = TRUE], path, files, fd)
                 /\ RunOk([Exited(d, status) EXCEPT !.image.fatal = TRUE], path, files, fd)
<1>. USE SessionAssumption
<1>1. /\ Fresh.pc = "idle" /\ Fresh.status = "Success" /\ Fresh.build = 1
      /\ Fresh.logFd = NoFd /\ Fresh.objectFiles = {} /\ IsOid(Fresh)
  BY DEF Fresh, IsOid, Fields
<1>2. RunOk(Fresh, path, files, fd)
  BY <1>1 DEF RunOk, RunTyped, FilesThere, LogHeld, Compiling, RunClosed,
                    PCs, Statuses, NoFd
<1>3. ASSUME NEW d, NEW status \in Statuses, oid[d].build \in {1, 2},
             ConfigClosed(oid[d].config), NEW o, IsOid(o),
             o.pc = "done", o.status = status, o.config = oid[d].config,
             o.build = oid[d].build, o.logFd = NoFd, o.objectFiles = {}
      PROVE  RunOk(o, path, files, fd)
  BY <1>3 DEF RunOk, RunTyped, FilesThere, LogHeld, Compiling, RunClosed,
                    PCs, NoFd
<1>4. ASSUME NEW d, NEW status \in Statuses, oid[d].build \in {1, 2},
             ConfigClosed(oid[d].config)
      PROVE  /\ RunOk(Exited(d, status), path, files, fd)
             /\ RunOk([Exited(d, status) EXCEPT !.fault = TRUE], path, files, fd)
             /\ RunOk([Exited(d, status) EXCEPT !.image.fatal = TRUE], path, files, fd)
  <2>1. LET o == Exited(d, status) IN
        /\ IsOid(o) /\ o.pc = "done" /\ o.status = status /\ o.config = oid[d].config
        /\ o.build = oid[d].build /\ o.logFd = NoFd /\ o.objectFiles = {}
    BY <1>1, FieldNames DEF Exited, IsOid
  <2>2. LET o == [Exited(d, status) EXCEPT !.fault = TRUE] IN
        /\ IsOid(o) /\ o.pc = "done" /\ o.status = status /\ o.config = oid[d].config
        /\ o.build = oid[d].build /\ o.logFd = NoFd /\ o.objectFiles = {}
    BY <2>1, FieldNames DEF IsOid
  <2>3. LET o == [Exited(d, status) EXCEPT !.image.fatal = TRUE] IN
        /\ IsOid(o) /\ o.pc = "done" /\ o.status = status /\ o.config = oid[d].config
        /\ o.build = oid[d].build /\ o.logFd = NoFd /\ o.objectFiles = {}
    BY <2>1, FieldNames DEF IsOid
  <2>. QED  BY <1>3, <1>4, <2>1, <2>2, <2>3
<1>. QED  BY <1>2, <1>4

\* Where the object file of an argument is follows from these fields.
LEMMA PathKept ==
  ASSUME NEW d, NEW ext, env' = env, oid'[d].config = oid[d].config,
         oid'[d].build = oid[d].build, oid'[d].arg = oid[d].arg,
         oid'[d].funcDescs = oid[d].funcDescs, oid'[d].globalDescs = oid[d].globalDescs
  PROVE  getPath(d, ext)' = getPath(d, ext)
BY DEF getPath, targetOf, Program, Drgn, Attached, descsOf, preq, req, getReqForArg

\* A step of one debugger leaves the others alone: what is said of a run stays
\* true while files are added.
LEMMA OthersKept ==
  ASSUME NEW e \in Debuggers, RunOk(oid[e], getPath(e, ".o"), DOMAIN disk, fds[e]),
         env' = env, oid'[e] = oid[e], fds'[e] = fds[e], DOMAIN disk \subseteq DOMAIN disk'
  PROVE  RunOk(oid[e], getPath(e, ".o"), DOMAIN disk, fds[e])'
<1>1. getPath(e, ".o")' = getPath(e, ".o")
  BY PathKept
<1>. HIDE DEF getPath
<1>. QED  BY <1>1 DEF RunOk, FilesThere

\* What is left to show for a step of one debugger.
LEMMA OneStep ==
  ASSUME SessionInv, NEW d \in Debuggers, NEW o, Become(d, o),
         env' = env, build' = build, DOMAIN disk \subseteq DOMAIN disk', FilesWhole',
         DescriptorsTyped', \A e \in Debuggers \ {d} : fds'[e] = fds[e],
         oid'[d] = o => RunOk(o, getPath(d, ".o")', DOMAIN disk', fds'[d])
  PROVE  SessionInv'
<1>1. oid = [e \in Debuggers |-> oid[e]]
  BY DEF SessionInv
<1>2. oid'[d] = o /\ \A e \in Debuggers \ {d} : oid'[e] = oid[e]
  BY <1>1 DEF Become
<1>3. oid' = [e \in Debuggers |-> oid'[e]]
  BY <1>1 DEF Become
<1>4. ASSUME NEW e \in Debuggers
      PROVE  RunOk(oid[e], getPath(e, ".o"), DOMAIN disk, fds[e])'
  <2>1. CASE e = d
    BY <1>2, <2>1
  <2>2. CASE e # d
    BY <1>2, <2>2, OthersKept DEF SessionInv
  <2>. QED  BY <2>1, <2>2
<1>. QED  BY <1>3, <1>4 DEF SessionInv

\* ... if it touches neither files nor descriptors,
LEMMA SameStep ==
  ASSUME SessionInv, NEW d \in Debuggers, NEW o, Become(d, o),
         UNCHANGED <<env, build, disk, fds>>,
         oid'[d] = o => RunOk(o, getPath(d, ".o")', DOMAIN disk, fds[d])
  PROVE  SessionInv'
<1>1. FilesWhole' /\ DescriptorsTyped'
  BY DEF SessionInv, FilesWhole, DescriptorsTyped
<1>. QED  BY <1>1, OneStep

\* ... and if it ends the run.
LEMMA ExitStep ==
  ASSUME SessionInv, NEW d \in Debuggers, NEW status \in Statuses, oid[d].pc # "idle",
         Exit(d, status) \/ Fail(d, status),
         UNCHANGED <<env, build, disk>>, DescriptorsTyped',
         \A e \in Debuggers \ {d} : fds'[e] = fds[e]
  PROVE  SessionInv'
<1>1. oid[d].build \in {1, 2} /\ ConfigClosed(oid[d].config)
  BY DEF SessionInv, RunOk, RunTyped, RunClosed
<1>2. FilesWhole'
  BY DEF SessionInv, FilesWhole
<1>3. PICK o \in {Exited(d, status), [Exited(d, status) EXCEPT !.fault = TRUE]} : Become(d, o)
  BY DEF Exit, Fail
<1>4. RunOk(o, getPath(d, ".o")', DOMAIN disk', fds'[d])
  <2>. DEFINE path == getPath(d, ".o")'
              files == DOMAIN disk'
              fd == fds'[d]
  <2>. HIDE DEF path, files, fd
  <2>1. /\ RunOk(Exited(d, status), path, files, fd)
        /\ RunOk([Exited(d, status) EXCEPT !.fault = TRUE], path, files, fd)
    BY <1>1, FreshOk
  <2>2. RunOk(o, path, files, fd)
    BY <1>3, <2>1
  <2>. QED  BY <2>2 DEF path, files, fd
<1>. QED  BY <1>2, <1>3, <1>4, OneStep

\* A run as its fields are.
LEMMA RunAt ==
  ASSUME SessionInv, NEW d \in Debuggers
  PROVE  /\ IsOid(oid[d]) /\ RunTyped(oid[d]) /\ LogHeld(oid[d], fds[d])
         /\ FilesThere(oid[d], getPath(d, ".o"), DOMAIN disk) /\ RunClosed(oid[d])
         /\ fds[d] \in [0 .. LastFd -> {"free", "app", "log"}]
BY DEF SessionInv, RunOk, DescriptorsTyped

\* main starts a run, or ends it.
LEMMA MainKeeps ==
  ASSUME SessionInv, NEW d \in Debuggers, NEW options \in env.invocations, main(d, options)
  PROVE  SessionInv'
<1>. USE SessionAssumption
<1>. DEFINE c == Config(options)
            o == [Fresh EXCEPT !.config = c, !.build = build,
                               !.status = IF c.status = "Help" THEN "Success" ELSE c.status,
                               !.pc = IF c.status = "Success" THEN "script" ELSE "done"]
<1>1. Become(d, o) /\ UNCHANGED <<env, build, disk, fds>>
  BY DEF main
<1>2. /\ ConfigClosed(c)
      /\ c.status \in {"Success", "UsageError", "FileNotFoundError", "Help"}
  <2>1. Len(options) \in Nat
    BY DEF SessionInv
  <2>. QED  BY <2>1, ConfigOk
<1>. HIDE DEF c
<1>3. /\ IsOid(o) /\ o.config = c /\ o.build = build /\ o.pc \in {"script", "done"}
      /\ o.status \in {"Success", "UsageError", "FileNotFoundError"}
      /\ o.logFd = NoFd /\ o.objectFiles = {}
  BY <1>2, FieldNames, ZenonT(60) DEF IsOid, Fields, Fresh
<1>. HIDE DEF o
<1>4. RunOk(o, getPath(d, ".o")', DOMAIN disk, fds[d])
  BY <1>2, <1>3 DEF RunOk, RunTyped, FilesThere, LogHeld, Compiling, RunClosed,
                    PCs, Statuses, NoFd,
                    SessionInv
<1>. QED  BY <1>1, <1>4, SameStep

\* runScript up to segmentInit.
LEMMA RunScriptKeeps ==
  ASSUME SessionInv, NEW d \in Debuggers, runScript(d)
  PROVE  SessionInv'
<1>1. oid[d].pc = "script" /\ UNCHANGED <<env, build, disk, fds>>
  BY DEF runScript, At
<1>2. ASSUME NEW status \in Statuses, Exit(d, status)
      PROVE  SessionInv'
  <2>1. DescriptorsTyped' /\ \A e \in Debuggers \ {d} : fds'[e] = fds[e]
    BY <1>1 DEF SessionInv, DescriptorsTyped
  <2>. QED  BY <1>1, <1>2, <2>1, ExitStep
<1>3. ASSUME NEW pc \in {"segments", "descs"}, Become(d, [oid[d] EXCEPT !.pc = pc])
      PROVE  SessionInv'
  <2>. DEFINE o == [oid[d] EXCEPT !.pc = pc]
  <2>1. /\ IsOid(oid[d]) /\ RunTyped(oid[d]) /\ LogHeld(oid[d], fds[d])
        /\ FilesThere(oid[d], getPath(d, ".o"), DOMAIN disk) /\ RunClosed(oid[d])
    BY RunAt
  <2>2. /\ IsOid(o) /\ o.pc = pc /\ o.status = oid[d].status /\ o.build = oid[d].build
        /\ o.logFd = oid[d].logFd /\ o.objectFiles = oid[d].objectFiles
        /\ o.config = oid[d].config
    BY <2>1, FieldNames DEF IsOid
  <2>. HIDE DEF o
  <2>3. RunOk(o, getPath(d, ".o")', DOMAIN disk, fds[d])
    BY <1>1, <2>1, <2>2 DEF RunOk, RunTyped, FilesThere, LogHeld, Compiling, RunClosed,
                    PCs
  <2>4. Become(d, o)
    BY <1>3 DEF o
  <2>. QED  BY <1>1, <2>3, <2>4, SameStep
<1>. DEFINE pc == IF Attached(d) THEN "segments" ELSE "descs"
<1>4. \/ \E status \in {"UsageError", "ScriptParsingError", "Success", "SegmentRemovalError",
                        "Aborted"} : Exit(d, status)
      \/ Become(d, [oid[d] EXCEPT !.pc = pc])
  BY DEF runScript
<1>. QED  BY <1>2, <1>3, <1>4 DEF Statuses

\* o goes on with what p was started with, and at the same argument.
Continues(o, p) ==
  /\ IsOid(o) /\ o.status = p.status /\ o.build = p.build /\ o.logFd = p.logFd
  /\ o.config = p.config
SameArgument(o, p) ==
  /\ o.arg = p.arg /\ o.funcDescs = p.funcDescs /\ o.globalDescs = p.globalDescs
  /\ o.objectFiles = p.objectFiles

\* The steps of compileCode keep what the run was started with.
LEMMA Advances ==
  ASSUME SessionInv, NEW d \in Debuggers, oid[d].pc \in Compiling, NEW o, Become(d, o),
         UNCHANGED <<env, build, fds>>, DOMAIN disk \subseteq DOMAIN disk', FilesWhole',
         o.pc \in Compiling \cup {"upload"}, Continues(o, oid[d]),
         oid'[d] = o => FilesThere(o, getPath(d, ".o")', DOMAIN disk')
  PROVE  SessionInv'
<1>1. RunTyped(oid[d]) /\ LogHeld(oid[d], fds[d]) /\ RunClosed(oid[d])
  BY RunAt
<1>2. /\ o.pc \in PCs /\ oid[d].pc # "idle"
      /\ o.pc \notin {"idle", "script", "segments", "done", "restore"}
  BY DEF Compiling, PCs
<1>3. RunTyped(o) /\ RunClosed(o)
  BY <1>1, <1>2 DEF Continues, RunTyped, RunClosed
<1>4. LogHeld(o, fds[d])
  BY <1>1, <1>2 DEF Continues, LogHeld
<1>5. DescriptorsTyped'
  BY DEF SessionInv, DescriptorsTyped
<1>6. oid'[d] = o => RunOk(o, getPath(d, ".o")', DOMAIN disk', fds'[d])
  BY <1>3, <1>4 DEF Continues, RunOk
<1>. QED  BY <1>5, <1>6, OneStep

\* They may also end it.
LEMMA GivesUp ==
  ASSUME SessionInv, NEW d \in Debuggers, oid[d].pc # "idle", NEW status \in Statuses,
         Exit(d, status) \/ Fail(d, status), UNCHANGED <<env, build, disk, fds>>
  PROVE  SessionInv'
<1>1. DescriptorsTyped' /\ \A e \in Debuggers \ {d} : fds'[e] = fds[e]
  BY DEF SessionInv, DescriptorsTyped
<1>. QED  BY <1>1, ExitStep

\* Where the next step leaves the descriptors and the argument alone, the object
\* file is where it was.
LEMMA StaysAtPath ==
  ASSUME SessionInv, NEW d \in Debuggers, NEW o, Become(d, o), env' = env,
         Continues(o, oid[d]), SameArgument(o, oid[d])
  PROVE  getPath(d, ".o")' = getPath(d, ".o")
<1>1. oid'[d] = o
  BY DEF SessionInv, Become
<1>. QED  BY <1>1, PathKept DEF Continues, SameArgument

\* The lowest descriptor that is free.
LEMMA LowestFree ==
  ASSUME NEW d, freeFds(d) # {}
  PROVE  Min(freeFds(d)) \in freeFds(d)
<1>1. freeFds(d) \subseteq Nat
  BY SessionAssumption DEF freeFds
<1>2. PICK x \in freeFds(d) : \A y \in freeFds(d) : x <= y
  BY <1>1, MinExists
<1>. HIDE DEF freeFds
<1>. QED  BY <1>2 DEF Min

\* The log file gets a descriptor that was free.
LEMMA SetupLogFileKeeps ==
  ASSUME SessionInv, NEW d \in Debuggers, setupLogFile(d)
  PROVE  SessionInv'
<1>. USE SessionAssumption
<1>1. oid[d].pc = "segments" /\ UNCHANGED <<env, build, disk>>
  BY DEF setupLogFile, At
<1>2. /\ IsOid(oid[d]) /\ RunTyped(oid[d]) /\ LogHeld(oid[d], fds[d])
      /\ FilesThere(oid[d], getPath(d, ".o"), DOMAIN disk) /\ RunClosed(oid[d])
  BY RunAt
<1>3. DescriptorsTyped /\ FilesWhole'
  BY <1>1 DEF SessionInv, FilesWhole
<1>4. ASSUME Become(d, [oid[d] EXCEPT !.pc = "descs"]), UNCHANGED fds
      PROVE  SessionInv'
  <2>. DEFINE o == [oid[d] EXCEPT !.pc = "descs"]
  <2>1. /\ IsOid(o) /\ o.pc = "descs" /\ o.status = oid[d].status /\ o.build = oid[d].build
        /\ o.logFd = oid[d].logFd /\ o.objectFiles = oid[d].objectFiles
        /\ o.config = oid[d].config
    BY <1>2, FieldNames DEF IsOid
  <2>2. Become(d, o)
    BY <1>4
  <2>. HIDE DEF o
  <2>3. RunOk(o, getPath(d, ".o")', DOMAIN disk, fds[d])
    BY <1>1, <1>2, <2>1 DEF RunOk, RunTyped, FilesThere, LogHeld, Compiling, RunClosed, PCs
  <2>. QED  BY <1>1, <1>4, <2>2, <2>3, SameStep
<1>5. ASSUME Fail(d, "SegmentInitError"), UNCHANGED fds
      PROVE  SessionInv'
  BY <1>1, <1>5, GivesUp DEF Statuses
<1>6. ASSUME freeFds(d) # {}, fds' = [fds EXCEPT ![d][Min(freeFds(d))] = "log"],
             \/ Become(d, [oid[d] EXCEPT !.pc = "descs", !.logFd = Min(freeFds(d))])
             \/ Fail(d, "SegmentInitError")
      PROVE  SessionInv'
  <2>. DEFINE fd == Min(freeFds(d))
              o == [oid[d] EXCEPT !.pc = "descs", !.logFd = fd]
  <2>1. fd \in 0 .. LastFd
    <3>1. fd \in freeFds(d)
      BY <1>6, LowestFree
    <3>. HIDE DEF fd
    <3>. QED  BY <3>1 DEF freeFds
  <2>. HIDE DEF fd
  <2>2. /\ DescriptorsTyped' /\ fds'[d][fd] = "log"
        /\ \A e \in Debuggers \ {d} : fds'[e] = fds[e]
    BY <1>3, <1>6, <2>1 DEF DescriptorsTyped, fd
  <2>3. CASE Fail(d, "SegmentInitError")
    <3>1. "SegmentInitError" \in Statuses
      BY DEF Statuses
    <3>. QED  BY <1>1, <2>2, <2>3, <3>1, ExitStep
  <2>4. CASE Become(d, o)
    <3>1. /\ IsOid(o) /\ o.pc = "descs" /\ o.status = oid[d].status /\ o.build = oid[d].build
          /\ o.logFd = fd /\ o.objectFiles = oid[d].objectFiles /\ o.config = oid[d].config
      BY <1>2, FieldNames DEF IsOid
    <3>. HIDE DEF o
    <3>2. RunOk(o, getPath(d, ".o")', DOMAIN disk', fds'[d])
      BY <1>1, <1>2, <2>1, <2>2, <3>1
         DEF RunOk, RunTyped, FilesThere, LogHeld, Compiling, RunClosed, PCs
    <3>. QED  BY <1>1, <1>3, <2>2, <2>4, <3>2, OneStep
  <2>. QED  BY <1>6, <2>3, <2>4 DEF fd
<1>. QED  BY <1>4, <1>5, <1>6 DEF setupLogFile

\* A file that is written is there, and so are the others; only one that OICache
\* writes may be partial.
LEMMA Writes ==
  ASSUME FilesWhole, NEW path, NEW contents, write(path, contents),
         contents = Partial => path[3] \in {".fd", ".gd", ".th", ".pd"}
  PROVE  DOMAIN disk \subseteq DOMAIN disk' /\ path \in DOMAIN disk' /\ FilesWhole'
<1>1. /\ DOMAIN disk' = DOMAIN disk \cup {path}
      /\ \A p \in DOMAIN disk' : disk'[p] = IF p = path THEN contents ELSE disk[p]
  BY DEF write, assign
<1>. QED  BY <1>1 DEF FilesWhole

\* The descriptor of the argument is found, or the run ends.
LEMMA LoadDescsKeeps ==
  ASSUME SessionInv, NEW d \in Debuggers, loadDescs(d)
  PROVE  SessionInv'
<1>1. oid[d].pc = "descs" /\ UNCHANGED <<env, build, disk, fds>>
  BY DEF loadDescs, At
<1>2. PICK f, g : \/ Exit(d, "CompilationError")
                  \/ Become(d, [oid[d] EXCEPT !.pc = "check", !.funcDescs = f,
                                              !.globalDescs = g])
  BY DEF loadDescs, Describe
<1>3. CASE Exit(d, "CompilationError")
  BY <1>1, <1>3, GivesUp DEF Statuses
<1>4. CASE Become(d, [oid[d] EXCEPT !.pc = "check", !.funcDescs = f, !.globalDescs = g])
  <2>. DEFINE o == [oid[d] EXCEPT !.pc = "check", !.funcDescs = f, !.globalDescs = g]
  <2>1. o.pc = "check" /\ Continues(o, oid[d]) /\ o.objectFiles = oid[d].objectFiles
    BY RunAt, FieldNames DEF IsOid, Continues
  <2>. HIDE DEF o
  <2>2. FilesThere(o, getPath(d, ".o")', DOMAIN disk')
    BY <1>1, <2>1, RunAt DEF FilesThere, SameArgument
  <2>3. FilesWhole'
    BY <1>1 DEF SessionInv, FilesWhole
  <2>4. Become(d, o)
    BY <1>4 DEF o
  <2>. QED  BY <1>1, <2>1, <2>2, <2>3, <2>4, Advances DEF Compiling
<1>. QED  BY <1>2, <1>3, <1>4

\* The object file was found with the other files of the cache, or code is
\* generated.
LEMMA CheckCacheKeeps ==
  ASSUME SessionInv, NEW d \in Debuggers, checkCache(d)
  PROVE  SessionInv'
<1>1. oid[d].pc = "check" /\ UNCHANGED <<env, build, disk, fds>>
  BY DEF checkCache, At
<1>2. PICK th, pc : /\ pc \in {"padding", "generate"}
                    /\ pc = "padding" => getPath(d, ".o") \in DOMAIN disk
                    /\ Become(d, [oid[d] EXCEPT !.pc = pc, !.th = th])
  <2>1. CASE CacheFilesExist(d) /\ load(d, ".th") # Null
    BY <2>1 DEF checkCache, CacheFilesExist, exists
  <2>2. CASE ~(CacheFilesExist(d) /\ load(d, ".th") # Null)
    <3>1. Become(d, [oid[d] EXCEPT !.pc = "generate"])
      BY <2>2 DEF checkCache
    <3>2. [oid[d] EXCEPT !.pc = "generate"] = [oid[d] EXCEPT !.pc = "generate", !.th = oid[d].th]
      BY RunAt, FieldNames DEF IsOid
    <3>. QED  BY <3>1, <3>2
  <2>. QED  BY <2>1, <2>2
<1>. DEFINE o == [oid[d] EXCEPT !.pc = pc, !.th = th]
<1>3. o.pc = pc /\ Continues(o, oid[d]) /\ SameArgument(o, oid[d])
  BY RunAt, FieldNames, ZenonT(60) DEF IsOid, Continues, SameArgument
<1>4. Become(d, o)
  BY <1>2
<1>. HIDE DEF o
<1>5. getPath(d, ".o")' = getPath(d, ".o")
  BY <1>1, <1>3, <1>4, StaysAtPath
<1>6. FilesThere(o, getPath(d, ".o")', DOMAIN disk')
  BY <1>1, <1>2, <1>3, <1>5, RunAt DEF FilesThere, SameArgument
<1>7. FilesWhole'
  BY <1>1 DEF SessionInv, FilesWhole
<1>. QED  BY <1>1, <1>2, <1>3, <1>4, <1>6, <1>7, Advances DEF Compiling

\* The same for the padding information.
LEMMA LoadPaddingKeeps ==
  ASSUME SessionInv, NEW d \in Debuggers, loadPadding(d)
  PROVE  SessionInv'
<1>1. oid[d].pc = "padding" /\ UNCHANGED <<env, build, disk, fds>>
  BY DEF loadPadding, At
<1>2. PICK o : /\ Become(d, o) /\ o.pc \in {"next", "generate"}
               /\ Continues(o, oid[d]) /\ SameArgument(o, oid[d])
  <2>1. CASE load(d, ".pd") # Null
    <3>. DEFINE p == [oid[d] EXCEPT !.pc = "next", !.typeInfos = emplaced(d, oid[d].th),
                                    !.th = Null]
    <3>1. p.pc \in {"next", "generate"} /\ Continues(p, oid[d]) /\ SameArgument(p, oid[d])
      BY RunAt, FieldNames, ZenonT(60) DEF IsOid, Continues, SameArgument
    <3>2. Become(d, p)
      BY <2>1 DEF loadPadding
    <3>. HIDE DEF p
    <3>. QED  BY <3>1, <3>2
  <2>2. CASE load(d, ".pd") = Null
    <3>. DEFINE p == [oid[d] EXCEPT !.pc = "generate", !.th = Null]
    <3>1. p.pc \in {"next", "generate"} /\ Continues(p, oid[d]) /\ SameArgument(p, oid[d])
      BY RunAt, FieldNames, ZenonT(60) DEF IsOid, Continues, SameArgument
    <3>2. Become(d, p)
      BY <2>2 DEF loadPadding
    <3>. HIDE DEF p
    <3>. QED  BY <3>1, <3>2
  <2>. QED  BY <2>1, <2>2
<1>3. getPath(d, ".o")' = getPath(d, ".o")
  BY <1>1, <1>2, StaysAtPath
<1>4. FilesThere(o, getPath(d, ".o")', DOMAIN disk')
  BY <1>1, <1>2, <1>3, RunAt DEF FilesThere, SameArgument
<1>5. FilesWhole'
  BY <1>1 DEF SessionInv, FilesWhole
<1>. QED  BY <1>1, <1>2, <1>4, <1>5, Advances DEF Compiling

\* The source is written; whether there is an object file is found out.
LEMMA GenerateCodeKeeps ==
  ASSUME SessionInv, NEW d \in Debuggers, generateCode(d)
  PROVE  SessionInv'
<1>1. oid[d].pc = "generate" /\ UNCHANGED <<env, build, fds>>
  BY DEF generateCode, At
<1>2. CASE Exit(d, "CompilationError") /\ UNCHANGED disk
  BY <1>1, <1>2, GivesUp DEF Statuses
<1>3. CASE /\ write(getPath(d, ".cc"), [source |-> TRUE])
           /\ \E t : Become(d, [oid[d] EXCEPT !.pc = "compile", !.typeInfos = t,
                                              !.doCompile = doCompile(d)])
  <2>1. PICK t : Become(d, [oid[d] EXCEPT !.pc = "compile", !.typeInfos = t,
                                          !.doCompile = doCompile(d)])
    BY <1>3
  <2>. DEFINE o == [oid[d] EXCEPT !.pc = "compile", !.typeInfos = t,
                                  !.doCompile = doCompile(d)]
  <2>2. /\ o.pc = "compile" /\ Continues(o, oid[d]) /\ SameArgument(o, oid[d])
        /\ o.doCompile = doCompile(d)
    BY RunAt, FieldNames, ZenonT(60) DEF IsOid, Continues, SameArgument
  <2>3. Become(d, o)
    BY <2>1
  <2>. HIDE DEF o
  <2>4. getPath(d, ".o")' = getPath(d, ".o")
    BY <1>1, <2>2, <2>3, StaysAtPath
  <2>5. [source |-> TRUE] # Partial
    <3>1. DOMAIN [source |-> TRUE] = {"source"} /\ DOMAIN Partial = {"partial"}
      BY DEF Partial
    <3>. QED  BY <3>1
  <2>6. DOMAIN disk \subseteq DOMAIN disk' /\ FilesWhole'
    BY <1>3, <2>5, Writes DEF SessionInv
  <2>7. ~o.doCompile => getPath(d, ".o") \in DOMAIN disk
    BY <2>2 DEF doCompile, exists
  <2>8. FilesThere(o, getPath(d, ".o")', DOMAIN disk')
    BY <1>1, <2>2, <2>4, <2>6, <2>7, RunAt DEF FilesThere, SameArgument
  <2>. QED  BY <1>1, <2>2, <2>3, <2>6, <2>8, Advances DEF Compiling
<1>. QED  BY <1>2, <1>3 DEF generateCode

\* Afterwards there is one.
LEMMA CompileKeeps ==
  ASSUME SessionInv, NEW d \in Debuggers, compile(d)
  PROVE  SessionInv'
<1>1. oid[d].pc = "compile" /\ UNCHANGED <<env, build, fds>>
  BY DEF compile, At
<1>. DEFINE o == [oid[d] EXCEPT
                    !.pc = IF isEnabled(d) THEN "store" ELSE "next",
                    !.entity = IF isEnabled(d) THEN DescsExt(d) ELSE "",
                    !.doCompile = FALSE]
            info == oid[d].typeInfos[req(d)]
            obj == [build |-> info.build, config |-> info.config,
                    type |-> getTypeName(info.root.type),
                    custom |-> oid[d].config.customCode]
<1>2. /\ o.pc \in {"store", "next"} /\ Continues(o, oid[d]) /\ SameArgument(o, oid[d])
      /\ o.pc = "store" => o.entity \in {".fd", ".gd"}
  BY RunAt, FieldNames, ZenonT(60) DEF IsOid, Continues, SameArgument, DescsExt
<1>3. ASSUME Become(d, o), DOMAIN disk \subseteq DOMAIN disk',
             getPath(d, ".o") \in DOMAIN disk', FilesWhole'
      PROVE  SessionInv'
  <2>. HIDE DEF o
  <2>1. getPath(d, ".o")' = getPath(d, ".o")
    BY <1>1, <1>2, <1>3, StaysAtPath
  <2>2. FilesThere(o, getPath(d, ".o")', DOMAIN disk')
    BY <1>1, <1>2, <1>3, <2>1, RunAt DEF FilesThere, SameArgument
  <2>. QED  BY <1>1, <1>2, <1>3, <2>2, Advances DEF Compiling
<1>4. CASE ~oid[d].doCompile /\ Become(d, o) /\ UNCHANGED disk
  <2>1. getPath(d, ".o") \in DOMAIN disk
    BY <1>1, <1>4, RunAt DEF FilesThere
  <2>2. FilesWhole'
    BY <1>4 DEF SessionInv, FilesWhole
  <2>. HIDE DEF o
  <2>. QED  BY <1>3, <1>4, <2>1, <2>2
<1>5. CASE write(getPath(d, ".o"), obj) /\ Become(d, o)
  <2>1. obj # Partial
    <3>1. "build" \in DOMAIN obj /\ "build" \notin DOMAIN Partial
      BY DEF Partial
    <3>. QED  BY <3>1
  <2>. HIDE DEF o, obj
  <2>2. DOMAIN disk \subseteq DOMAIN disk' /\ getPath(d, ".o") \in DOMAIN disk' /\ FilesWhole'
    BY <1>5, <2>1, Writes DEF SessionInv
  <2>. QED  BY <1>3, <1>5, <2>2
<1>6. CASE Fail(d, "CompilationError") /\ UNCHANGED disk
  BY <1>1, <1>6, GivesUp DEF Statuses
<1>. QED  BY <1>4, <1>5, <1>6 DEF compile

\* What follows a store.
LEMMA AfterStore ==
  ASSUME SessionInv, NEW d \in Debuggers, oid[d].pc \in {"store", "storing"}, NEW p,
         p \in {afterStore(d, oid[d].entity),
                [afterStore(d, oid[d].entity) EXCEPT
                   !.pc = IF oid[d].entity = ".pd" THEN "next" ELSE "store"]}
  PROVE  /\ p.pc \in {"store", "storing", "next"}
         /\ Continues(p, oid[d]) /\ SameArgument(p, oid[d])
         /\ p.pc # "next" => p.entity \in {".th", ".pd"}
<1>1. oid[d].entity \in {".fd", ".gd", ".th", ".pd"} /\ IsOid(oid[d])
  BY RunAt DEF FilesThere
<1>2. CASE oid[d].entity \in {".fd", ".gd"}
  BY <1>1, <1>2, FieldNames, ZenonT(60) DEF afterStore, IsOid, Continues, SameArgument
<1>3. CASE oid[d].entity = ".th"
  BY <1>1, <1>3, FieldNames, ZenonT(60) DEF afterStore, IsOid, Continues, SameArgument
<1>4. CASE oid[d].entity = ".pd"
  BY <1>1, <1>4, FieldNames, ZenonT(60) DEF afterStore, IsOid, Continues, SameArgument
<1>. QED  BY <1>1, <1>2, <1>3, <1>4

\* store opens the file of one of its entities, which is then partial.
LEMMA StoreOpenKeeps ==
  ASSUME SessionInv, NEW d \in Debuggers, storeOpen(d)
  PROVE  SessionInv'
<1>1. oid[d].pc = "store" /\ UNCHANGED <<env, build, fds>>
  BY DEF storeOpen, At
<1>2. /\ oid[d].entity \in {".fd", ".gd", ".th", ".pd"}
      /\ getPath(d, ".o") \in DOMAIN disk /\ oid[d].objectFiles \subseteq DOMAIN disk
  BY <1>1, RunAt DEF FilesThere
<1>3. CASE /\ write(getPath(d, oid[d].entity), Partial)
           /\ Become(d, [oid[d] EXCEPT !.pc = "storing"])
  <2>. DEFINE o == [oid[d] EXCEPT !.pc = "storing"]
  <2>1. /\ o.pc = "storing" /\ Continues(o, oid[d]) /\ SameArgument(o, oid[d])
        /\ o.entity = oid[d].entity
    BY RunAt, FieldNames DEF IsOid, Continues, SameArgument
  <2>2. Become(d, o)
    BY <1>3
  <2>. HIDE DEF o
  <2>3. getPath(d, ".o")' = getPath(d, ".o")
    BY <1>1, <2>1, <2>2, StaysAtPath
  <2>4. getPath(d, oid[d].entity)[3] = oid[d].entity
    BY DEF getPath
  <2>5. DOMAIN disk \subseteq DOMAIN disk' /\ FilesWhole'
    BY <1>2, <1>3, <2>4, Writes DEF SessionInv
  <2>6. FilesThere(o, getPath(d, ".o")', DOMAIN disk')
    BY <1>2, <2>1, <2>3, <2>5 DEF FilesThere, SameArgument
  <2>. QED  BY <1>1, <2>1, <2>2, <2>5, <2>6, Advances DEF Compiling
<1>4. CASE Become(d, afterStore(d, oid[d].entity)) /\ UNCHANGED disk
  <2>. DEFINE o == afterStore(d, oid[d].entity)
  <2>1. /\ o.pc \in {"store", "storing", "next"}
        /\ Continues(o, oid[d]) /\ SameArgument(o, oid[d])
        /\ o.pc # "next" => o.entity \in {".th", ".pd"}
    BY <1>1, AfterStore
  <2>2. Become(d, o)
    BY <1>4
  <2>. HIDE DEF o
  <2>3. getPath(d, ".o")' = getPath(d, ".o")
    BY <1>1, <2>1, <2>2, StaysAtPath
  <2>4. FilesThere(o, getPath(d, ".o")', DOMAIN disk')
    BY <1>2, <1>4, <2>1, <2>3 DEF FilesThere, SameArgument
  <2>5. FilesWhole'
    BY <1>4 DEF SessionInv, FilesWhole
  <2>. QED  BY <1>1, <1>4, <2>1, <2>2, <2>4, <2>5, Advances DEF Compiling
<1>. QED  BY <1>3, <1>4 DEF storeOpen

\* The archive is complete.
LEMMA StoreWriteKeeps ==
  ASSUME SessionInv, NEW d \in Debuggers, storeWrite(d)
  PROVE  SessionInv'
<1>1. oid[d].pc = "storing" /\ UNCHANGED <<env, build, fds>>
  BY DEF storeWrite, At
<1>2. /\ oid[d].entity \in {".fd", ".gd", ".th", ".pd"}
      /\ getPath(d, ".o") \in DOMAIN disk /\ oid[d].objectFiles \subseteq DOMAIN disk
  BY <1>1, RunAt DEF FilesThere
<1>. DEFINE o == [afterStore(d, oid[d].entity) EXCEPT
                    !.pc = IF oid[d].entity = ".pd" THEN "next" ELSE "store"]
<1>3. PICK contents : write(getPath(d, oid[d].entity), contents) /\ Become(d, o)
  BY DEF storeWrite
<1>4. /\ o.pc \in {"store", "storing", "next"}
      /\ Continues(o, oid[d]) /\ SameArgument(o, oid[d])
      /\ o.pc # "next" => o.entity \in {".th", ".pd"}
  BY <1>1, AfterStore
<1>. HIDE DEF o
<1>5. getPath(d, ".o")' = getPath(d, ".o")
  BY <1>1, <1>3, <1>4, StaysAtPath
<1>6. getPath(d, oid[d].entity)[3] = oid[d].entity
  BY DEF getPath
<1>7. DOMAIN disk \subseteq DOMAIN disk' /\ FilesWhole'
  BY <1>2, <1>3, <1>6, Writes DEF SessionInv
<1>8. FilesThere(o, getPath(d, ".o")', DOMAIN disk')
  BY <1>2, <1>4, <1>5, <1>7 DEF FilesThere, SameArgument
<1>. QED  BY <1>1, <1>3, <1>4, <1>7, <1>8, Advances DEF Compiling

\* The object file of the argument is counted.
LEMMA NextArgKeeps ==
  ASSUME SessionInv, NEW d \in Debuggers, nextArg(d)
  PROVE  SessionInv'
<1>1. oid[d].pc = "next" /\ UNCHANGED <<env, build, disk, fds>>
  BY DEF nextArg, At
<1>2. getPath(d, ".o") \in DOMAIN disk /\ oid[d].objectFiles \subseteq DOMAIN disk
  BY <1>1, RunAt DEF FilesThere
<1>3. PICK a, pc : /\ pc \in {"descs", "link", "upload"}
                   /\ Become(d, [oid[d] EXCEPT !.objectFiles = @ \cup {getPath(d, ".o")},
                                               !.arg = a, !.pc = pc])
  <2>. DEFINE pc == IF oid[d].arg < argCount(d) THEN "descs"
                    ELSE IF Attached(d) THEN "link" ELSE "upload"
              a == IF oid[d].arg < argCount(d) THEN oid[d].arg + 1 ELSE oid[d].arg
  <2>1. Become(d, [oid[d] EXCEPT !.objectFiles = @ \cup {getPath(d, ".o")},
                                 !.arg = a, !.pc = pc])
    BY DEF nextArg
  <2>2. pc \in {"descs", "link", "upload"}
    OBVIOUS
  <2>. HIDE DEF a, pc
  <2>. QED  BY <2>1, <2>2
<1>. DEFINE path == getPath(d, ".o")
            o == [oid[d] EXCEPT !.objectFiles = @ \cup {path}, !.arg = a, !.pc = pc]
<1>. HIDE DEF path
<1>4. o.pc = pc /\ Continues(o, oid[d]) /\ o.objectFiles = oid[d].objectFiles \cup {path}
  BY RunAt, FieldNames DEF IsOid, Continues
<1>5. Become(d, o)
  BY <1>3 DEF path
<1>. HIDE DEF o
<1>6. FilesThere(o, getPath(d, ".o")', DOMAIN disk')
  BY <1>1, <1>2, <1>3, <1>4 DEF FilesThere, path
<1>7. FilesWhole'
  BY <1>1 DEF SessionInv, FilesWhole
<1>. QED  BY <1>1, <1>3, <1>4, <1>5, <1>6, <1>7, Advances DEF Compiling

\* Relocation, and the prologue.
LEMMA LinkKeeps ==
  ASSUME SessionInv, NEW d \in Debuggers, link(d)
  PROVE  SessionInv'
<1>1. oid[d].pc = "link" /\ UNCHANGED <<env, build, disk, fds>>
  BY DEF link, At
<1>2. \/ Become(d, [Exited(d, "Aborted") EXCEPT !.image.fatal = TRUE])
      \/ Exit(d, "CompilationError") \/ Exit(d, "Aborted")
      \/ \E image : \E pc \in {"upload", "probe"} :
           Become(d, [oid[d] EXCEPT !.pc = pc, !.image = image])
  <2>. DEFINE paths == SetToSeq(oid[d].objectFiles)
              files == [i \in DOMAIN paths |-> disk[paths[i]]]
              res == relocated(d, files)
              target(i) == TargetObject(Program(d), Drgn(d), descsOf(d),
                                        getReqForArg(d, i), Attached(d)).typeName
              image == [written |-> TRUE, fatal |-> FALSE, fits |-> res.fits,
                        sections |-> res.sections, externals |-> res.externals,
                        code |-> [t \in {f.type : f \in Range(files)} |->
                                    CHOOSE f \in Range(files) : f.type = t],
                        calls |-> [i \in 1 .. argCount(d) |-> target(i)],
                        logFile |-> oid[d].logFd]
              pc == IF oid[d].config.compAndExit THEN "upload" ELSE "probe"
  <2>1. CASE res.fatal = TRUE
    BY <2>1 DEF link
  <2>2. CASE ~res.fatal
    <3>1. \/ Exit(d, "CompilationError") \/ Exit(d, "Aborted")
          \/ Become(d, [oid[d] EXCEPT !.pc = pc, !.image = image])
      BY <2>2 DEF link
    <3>2. pc \in {"upload", "probe"}
      OBVIOUS
    <3>. HIDE DEF pc, image
    <3>. QED  BY <3>1, <3>2
  <2>. QED  BY <2>1, <2>2
<1>3. CASE Become(d, [Exited(d, "Aborted") EXCEPT !.image.fatal = TRUE])
  <2>. DEFINE o == [Exited(d, "Aborted") EXCEPT !.image.fatal = TRUE]
  <2>1. oid[d].build \in {1, 2} /\ ConfigClosed(oid[d].config) /\ "Aborted" \in Statuses
    BY <1>1, RunAt DEF RunTyped, RunClosed, Statuses
  <2>. DEFINE path == getPath(d, ".o")'
              files == DOMAIN disk
              fd == fds[d]
  <2>. HIDE DEF path, files, fd
  <2>2. RunOk(o, path, files, fd)
    BY <2>1, FreshOk
  <2>3. Become(d, o)
    BY <1>3
  <2>. HIDE DEF o
  <2>. QED  BY <1>1, <2>2, <2>3, SameStep DEF path, files, fd
<1>4. CASE Exit(d, "CompilationError") \/ Exit(d, "Aborted")
  BY <1>1, <1>4, GivesUp DEF Statuses
<1>5. CASE \E image : \E pc \in {"upload", "probe"} :
             Become(d, [oid[d] EXCEPT !.pc = pc, !.image = image])
  <2>1. PICK image : \E pc \in {"upload", "probe"} :
               Become(d, [oid[d] EXCEPT !.pc = pc, !.image = image])
    BY <1>5
  <2>2. PICK pc \in {"upload", "probe"} : Become(d, [oid[d] EXCEPT !.pc = pc, !.image = image])
    BY <2>1
  <2>. DEFINE o == [oid[d] EXCEPT !.pc = pc, !.image = image]
  <2>3. o.pc = pc /\ Continues(o, oid[d]) /\ o.objectFiles = oid[d].objectFiles
    BY RunAt, FieldNames DEF IsOid, Continues
  <2>4. Become(d, o)
    BY <2>2
  <2>. HIDE DEF o
  <2>5. FilesThere(o, getPath(d, ".o")', DOMAIN disk')
    BY <1>1, <2>3, RunAt DEF FilesThere
  <2>6. FilesWhole'
    BY <1>1 DEF SessionInv, FilesWhole
  <2>. QED  BY <1>1, <2>3, <2>4, <2>5, <2>6, Advances DEF Compiling
<1>. QED  BY <1>2, <1>3, <1>4, <1>5

\* The probe: the main thread is in the list of threads, unless a global is read.
LEMMA ProbeKeeps ==
  ASSUME SessionInv, NEW d \in Debuggers, NEW interrupted \in BOOLEAN, probe(d, interrupted)
  PROVE  SessionInv'
<1>1. oid[d].pc = "probe" /\ UNCHANGED <<env, build, disk, fds>>
  BY DEF probe, At
<1>2. PICK threads :
        /\ \/ oid[d].config.script.reqs[1].type = "global" /\ threads = <<>>
           \/ threads \in {<<"main", "worker">>, <<"worker", "main">>}
        /\ Become(d, [oid[d] EXCEPT !.pc = "restore", !.threads = threads,
                                    !.stops = AllRun, !.interrupted = interrupted])
  <2>1. CASE preq(d).type = "global"
    BY <2>1 DEF probe, preq
  <2>2. CASE preq(d).type # "global"
    BY <2>2 DEF probe, preq
  <2>. QED  BY <2>1, <2>2
<1>. DEFINE o == [oid[d] EXCEPT !.pc = "restore", !.threads = threads,
                                !.stops = AllRun, !.interrupted = interrupted]
<1>3. /\ o.pc = "restore" /\ Continues(o, oid[d]) /\ o.objectFiles = oid[d].objectFiles
      /\ o.threads = threads /\ o.stops = AllRun
  BY RunAt, FieldNames DEF IsOid, Continues
<1>4. Become(d, o)
  BY <1>2
<1>. HIDE DEF o
<1>5. LogHeld(oid[d], fds[d]) /\ RunTyped(oid[d]) /\ RunClosed(oid[d])
      /\ FilesThere(oid[d], getPath(d, ".o"), DOMAIN disk)
  BY RunAt
<1>r. AllRun \in Stops
  BY DEF AllRun, Stops
<1>6. LogHeld(o, fds[d])
  <2>1. CASE threads = <<>> /\ oid[d].config.script.reqs[1].type = "global"
    <3>1. threads \notin Withheld
      BY <2>1 DEF Withheld
    <3>. QED  BY <1>3, <1>r, <2>1, <3>1 DEF LogHeld, Compiling, Continues
  <2>2. CASE threads \in {<<"main", "worker">>, <<"worker", "main">>}
    <3>1. threads \in Withheld
      BY <2>2 DEF Withheld
    <3>2. oid[d].logFd # NoFd => fds[d][oid[d].logFd] = "log"
      BY <1>1, <1>5 DEF LogHeld, Compiling
    <3>. QED  BY <1>3, <1>r, <3>1, <3>2 DEF LogHeld, Compiling, Continues
  <2>. QED  BY <1>2, <2>1, <2>2
<1>7. RunTyped(o) /\ RunClosed(o) /\ IsOid(o)
  BY <1>1, <1>3, <1>5 DEF RunTyped, RunClosed, Continues, PCs
<1>8. FilesThere(o, getPath(d, ".o")', DOMAIN disk)
  BY <1>3, <1>5 DEF FilesThere
<1>. QED  BY <1>1, <1>4, <1>6, <1>7, <1>8, SameStep DEF RunOk

\* What is left of the threads; the main thread is the first or comes later.
LEMMA NextThread ==
  ASSUME NEW threads, threads \in Withheld \cup {<<>>, <<"worker">>}, threads # <<>>
  PROVE  /\ Tail(threads) \in Withheld \cup {<<>>, <<"worker">>}
         /\ "main" \in Range(threads) <=> threads \in Withheld
         /\ Head(threads) \in {"main", "worker"}
         /\ Head(threads) = "main" => threads \in Withheld /\ Tail(threads) \notin Withheld
         /\ Head(threads) # "main" /\ threads \in Withheld => Tail(threads) = <<"main">>
         /\ threads \notin Withheld => Tail(threads) = <<>>
<1>1. CASE threads = <<"main">>
  <2>1. "main" \in Range(threads) /\ Head(threads) = "main" /\ Tail(threads) = <<>>
    BY <1>1 DEF Range
  <2>. QED  BY <1>1, <2>1 DEF Withheld
<1>2. CASE threads = <<"worker">>
  <2>1. "main" \notin Range(threads) /\ Head(threads) = "worker" /\ Tail(threads) = <<>>
    BY <1>2 DEF Range
  <2>. QED  BY <1>2, <2>1 DEF Withheld
<1>3. CASE threads = <<"main", "worker">>
  <2>1. "main" \in Range(threads) /\ Head(threads) = "main" /\ Tail(threads) = <<"worker">>
    BY <1>3 DEF Range
  <2>. QED  BY <1>3, <2>1 DEF Withheld
<1>4. CASE threads = <<"worker", "main">>
  <2>1. "main" \in Range(threads) /\ Head(threads) = "worker" /\ Tail(threads) = <<"main">>
    BY <1>4 DEF Range
  <2>. QED  BY <1>4, <2>1 DEF Withheld
<1>. QED  BY <1>1, <1>2, <1>3, <1>4 DEF Withheld

\* The log file is closed with the main thread, or when that has stopped before; the
\* number is closed once more if it had.
LEMMA CleanedUp ==
  ASSUME SessionInv, NEW d \in Debuggers, oid[d].pc = "restore", oid[d].threads # <<>>,
         cleanupLogFile(d)
  PROVE  /\ DescriptorsTyped' /\ \A e \in Debuggers \ {d} : fds'[e] = fds[e]
         /\ \/ /\ oid[d].logFd = NoFd \/ ~mainStopped(d)
               /\ fds'[d] = fds[d]
            \/ /\ oid[d].logFd \in 0 .. LastFd /\ mainStopped(d)
               /\ Early(oid[d]) \/ fds[d][oid[d].logFd] = "log"
               /\ fds'[d] = [fds[d] EXCEPT ![oid[d].logFd] = "free"]
<1>. USE SessionAssumption
<1>1. DescriptorsTyped /\ RunTyped(oid[d]) /\ LogHeld(oid[d], fds[d])
  BY RunAt DEF SessionInv
<1>2. CASE oid[d].logFd = NoFd \/ ~mainStopped(d)
  <2>1. UNCHANGED fds
    BY <1>2 DEF cleanupLogFile, remoteClose
  <2>. QED  BY <1>1, <1>2, <2>1 DEF DescriptorsTyped
<1>3. CASE ~(oid[d].logFd = NoFd \/ ~mainStopped(d))
  <2>1. fds' = [fds EXCEPT ![d][oid[d].logFd] = "free"]
    BY <1>3 DEF cleanupLogFile, remoteClose
  <2>2. oid[d].logFd \in 0 .. LastFd
    BY <1>1, <1>3 DEF RunTyped, NoFd
  <2>3. oid[d].threads \in Withheld
    <3>1. "main" \in Range(oid[d].threads)
      BY <1>3 DEF mainStopped
    <3>. QED  BY <1>1, <3>1, NextThread DEF LogHeld
  <2>4. Early(oid[d]) \/ fds[d][oid[d].logFd] = "log"
    BY <1>1, <1>3, <2>3 DEF LogHeld
  <2>5. fds'[d] = [fds[d] EXCEPT ![oid[d].logFd] = "free"]
        /\ \A e \in Debuggers \ {d} : fds'[e] = fds[e]
    BY <1>1, <2>1 DEF DescriptorsTyped
  <2>6. DescriptorsTyped'
    BY <1>1, <2>1, <2>2 DEF DescriptorsTyped
  <2>. QED  BY <1>3, <2>2, <2>4, <2>5, <2>6
<1>. QED  BY <1>2, <1>3

\* The steps of restoreState, and the stops of the threads it has not come to.
Restoring(d) ==
  \/ restoreThread(d)
  \/ \E t \in {"main", "worker"}, stop \in {"stopped", "event"} : threadStops(d, t, stop)

\* They change the list of the threads and what these do, until it is empty.
LEMMA RestoreSteps ==
  ASSUME SessionInv, NEW d \in Debuggers, Restoring(d)
  PROVE  /\ oid[d].pc = "restore" /\ UNCHANGED <<env, build, disk>>
         /\ \/ /\ oid[d].threads = <<>> /\ UNCHANGED fds
               /\ \E pc \in {"upload", "decode"} : Become(d, [oid[d] EXCEPT !.pc = pc])
            \/ \E threads, stops :
                 Become(d, [oid[d] EXCEPT !.threads = threads, !.stops = stops])
<1>0. IsOid(oid[d])
  BY RunAt
<1>1. CASE restoreThread(d)
  <2>1. oid[d].pc = "restore" /\ UNCHANGED <<env, build, disk>>
    BY <1>1 DEF restoreThread, At
  <2>2. CASE oid[d].threads = <<>>
    <3>. DEFINE pc == IF oid[d].interrupted THEN "upload" ELSE "decode"
    <3>1. Become(d, [oid[d] EXCEPT !.pc = pc]) /\ UNCHANGED fds /\ pc \in {"upload", "decode"}
      BY <1>1, <2>2 DEF restoreThread
    <3>. HIDE DEF pc
    <3>. QED  BY <2>1, <2>2, <3>1
  <2>3. CASE oid[d].threads # <<>>
    <3>1. [oid[d] EXCEPT !.threads = Tail(@)]
            = [oid[d] EXCEPT !.threads = Tail(@), !.stops = oid[d].stops]
      BY <1>0, FieldNames DEF IsOid
    <3>. QED  BY <1>1, <2>1, <2>3, <3>1 DEF restoreThread
  <2>. QED  BY <2>2, <2>3
<1>2. ASSUME NEW t, NEW stop, threadStops(d, t, stop)
      PROVE  /\ oid[d].pc = "restore" /\ UNCHANGED <<env, build, disk>>
             /\ \E threads, stops :
                  Become(d, [oid[d] EXCEPT !.threads = threads, !.stops = stops])
  <2>. DEFINE stops == [oid[d].stops EXCEPT ![t] = stop]
  <2>1. [oid[d] EXCEPT !.stops[t] = stop]
          = [oid[d] EXCEPT !.threads = oid[d].threads, !.stops = stops]
    BY <1>0, FieldNames DEF IsOid
  <2>2. Become(d, [oid[d] EXCEPT !.threads = oid[d].threads, !.stops = stops])
    BY <1>2, <2>1 DEF threadStops
  <2>. HIDE DEF stops
  <2>. QED  BY <1>2, <2>2 DEF threadStops, At
<1>. QED  BY <1>1, <1>2 DEF Restoring

\* Such a step keeps the invariant if the log file's descriptor is held or closed as
\* it should be.
LEMMA TurnKeeps ==
  ASSUME SessionInv, NEW d \in Debuggers, oid[d].pc = "restore", NEW threads, NEW stops,
         Become(d, [oid[d] EXCEPT !.threads = threads, !.stops = stops]),
         UNCHANGED <<env, build, disk>>, DescriptorsTyped',
         \A e \in Debuggers \ {d} : fds'[e] = fds[e],
         threads \in Withheld \cup {<<>>, <<"worker">>}, stops \in Stops,
         oid[d].logFd # NoFd =>
           /\ threads \in Withheld /\ ~(threads = <<"main">> /\ stops["main"] = "stopped")
                => fds'[d][oid[d].logFd] = "log"
           /\ threads \notin Withheld /\ stops["main"] # "event"
                /\ oid[d].config.script.reqs[1].type # "global"
                => fds'[d][oid[d].logFd] # "log"
  PROVE  SessionInv'
<1>. DEFINE o == [oid[d] EXCEPT !.threads = threads, !.stops = stops]
<1>1. /\ RunTyped(oid[d]) /\ RunClosed(oid[d]) /\ IsOid(oid[d])
      /\ FilesThere(oid[d], getPath(d, ".o"), DOMAIN disk)
  BY RunAt
<1>2. /\ o.pc = "restore" /\ Continues(o, oid[d]) /\ o.objectFiles = oid[d].objectFiles
      /\ o.threads = threads /\ o.stops = stops
  BY <1>1, FieldNames DEF IsOid, Continues
<1>3. Become(d, o)
  OBVIOUS
<1>. HIDE DEF o
<1>4. LogHeld(o, fds'[d])
  BY <1>2 DEF LogHeld, Continues, Compiling, Early
<1>5. RunTyped(o) /\ RunClosed(o) /\ IsOid(o) /\ FilesThere(o, getPath(d, ".o")', DOMAIN disk')
  BY <1>1, <1>2 DEF RunTyped, RunClosed, FilesThere, Continues
<1>6. FilesWhole'
  BY DEF SessionInv, FilesWhole
<1>. QED  BY <1>3, <1>4, <1>5, <1>6, OneStep DEF RunOk

\* One turn of restoreState.
LEMMA RestoreThreadKeeps ==
  ASSUME SessionInv, NEW d \in Debuggers, restoreThread(d)
  PROVE  SessionInv'
<1>1. oid[d].pc = "restore" /\ UNCHANGED <<env, build, disk>>
  BY DEF restoreThread, At
<1>2. /\ LogHeld(oid[d], fds[d]) /\ RunTyped(oid[d]) /\ RunClosed(oid[d]) /\ IsOid(oid[d])
      /\ FilesThere(oid[d], getPath(d, ".o"), DOMAIN disk)
  BY RunAt
<1>3. CASE oid[d].threads = <<>>
  <2>1. PICK pc \in {"upload", "decode"} : Become(d, [oid[d] EXCEPT !.pc = pc])
    <3>. DEFINE pc == IF oid[d].interrupted THEN "upload" ELSE "decode"
    <3>1. Become(d, [oid[d] EXCEPT !.pc = pc]) /\ pc \in {"upload", "decode"}
      BY <1>3 DEF restoreThread
    <3>. HIDE DEF pc
    <3>. QED  BY <3>1
  <2>. DEFINE o == [oid[d] EXCEPT !.pc = pc]
  <2>2. o.pc = pc /\ Continues(o, oid[d]) /\ o.objectFiles = oid[d].objectFiles
    BY <1>2, FieldNames DEF IsOid, Continues
  <2>3. Become(d, o) /\ UNCHANGED fds
    BY <1>3, <2>1 DEF restoreThread
  <2>. HIDE DEF o
  <2>4. RunOk(o, getPath(d, ".o")', DOMAIN disk, fds[d])
    BY <1>1, <1>2, <2>2 DEF RunOk, RunTyped, RunClosed, Continues, PCs, FilesThere, LogHeld,
                            Compiling
  <2>. QED  BY <1>1, <2>3, <2>4, SameStep
<1>. DEFINE t == Head(oid[d].threads)
            rest == Tail(oid[d].threads)
            its == oid[d].stops["main"]
            fd == oid[d].logFd
<1>4. /\ oid[d].threads \in Withheld \cup {<<>>, <<"worker">>} /\ oid[d].stops \in Stops
      /\ oid[d].threads \in Withheld /\ ~Early(oid[d]) /\ fd # NoFd => fds[d][fd] = "log"
      /\ oid[d].threads \notin Withheld /\ its # "event" /\ fd # NoFd
           /\ oid[d].config.script.reqs[1].type # "global" => fds[d][fd] # "log"
  BY <1>1, <1>2 DEF LogHeld
<1>5. oid[d].threads # <<>> =>
        /\ rest \in Withheld \cup {<<>>, <<"worker">>} /\ t \in {"main", "worker"}
        /\ t = "main" => oid[d].threads \in Withheld /\ rest \notin Withheld
        /\ t # "main" /\ oid[d].threads \in Withheld => rest = <<"main">>
        /\ oid[d].threads \notin Withheld => rest = <<>>
        /\ "main" \in Range(oid[d].threads) <=> oid[d].threads \in Withheld
  BY <1>4, NextThread
<1>e. t # "main" => ~Early(oid[d])
  BY DEF Early
<1>6. CASE oid[d].threads # <<>> /\ oid[d].stops[t] = "event"
  <2>. DEFINE o == [oid[d] EXCEPT !.threads = rest, !.stops = oid[d].stops]
  <2>1. UNCHANGED fds /\ Become(d, [oid[d] EXCEPT !.threads = rest])
    BY <1>6 DEF restoreThread
  <2>2. [oid[d] EXCEPT !.threads = rest] = o
    BY <1>2, FieldNames DEF IsOid
  <2>3. Become(d, o) /\ DescriptorsTyped' /\ \A e \in Debuggers \ {d} : fds'[e] = fds[e]
    BY <2>1, <2>2 DEF SessionInv, DescriptorsTyped
  <2>. HIDE DEF o
  <2>4. fd # NoFd =>
          /\ rest \in Withheld => fds'[d][fd] = "log"
          /\ rest \notin Withheld /\ its # "event"
               /\ oid[d].config.script.reqs[1].type # "global" => fds'[d][fd] # "log"
    <3>1. CASE t = "main"
      BY <1>5, <1>6, <3>1
    <3>2. CASE t # "main" /\ oid[d].threads \in Withheld
      <4>1. rest \in Withheld
        BY <1>5, <1>6, <3>2 DEF Withheld
      <4>. QED  BY <1>4, <1>e, <2>1, <3>2, <4>1
    <3>3. CASE oid[d].threads \notin Withheld
      <4>1. rest \notin Withheld
        BY <1>5, <1>6, <3>3 DEF Withheld
      <4>. QED  BY <1>4, <2>1, <3>3, <4>1
    <3>. QED  BY <3>1, <3>2, <3>3
  <2>. HIDE DEF t, rest, its, fd
  <2>5. Become(d, [oid[d] EXCEPT !.threads = rest, !.stops = oid[d].stops])
    BY <2>3 DEF o
  <2>6. /\ fd = oid[d].logFd /\ its = oid[d].stops["main"]
        /\ rest \in Withheld \cup {<<>>, <<"worker">>}
    BY <1>5, <1>6 DEF fd, its
  <2>. QED  BY <1>1, <1>4, <2>3, <2>4, <2>5, <2>6, TurnKeeps
<1>7. CASE oid[d].threads # <<>> /\ oid[d].stops[t] # "event"
  <2>. DEFINE stops == stopsAfterClose(d)
  <2>1. cleanupLogFile(d)
        /\ Become(d, [oid[d] EXCEPT !.threads = rest, !.stops = stops])
    BY <1>7 DEF restoreThread
  <2>2. /\ DescriptorsTyped' /\ \A e \in Debuggers \ {d} : fds'[e] = fds[e]
        /\ \/ /\ fd = NoFd \/ ~mainStopped(d)
              /\ fds'[d] = fds[d]
           \/ /\ fd \in 0 .. LastFd /\ mainStopped(d)
              /\ fds'[d] = [fds[d] EXCEPT ![fd] = "free"]
    BY <1>1, <1>7, <2>1, CleanedUp
  <2>3. /\ stops \in Stops
        /\ fd = NoFd \/ ~mainStopped(d) => stops = oid[d].stops
        /\ fd # NoFd /\ mainStopped(d) =>
             stops["main"] = IF its = "event" THEN "stopped" ELSE its
    BY <1>4 DEF stopsAfterClose, Stops
  <2>. HIDE DEF stops
  <2>4. fd # NoFd =>
          /\ rest \in Withheld /\ ~(rest = <<"main">> /\ stops["main"] = "stopped")
               => fds'[d][fd] = "log"
          /\ rest \notin Withheld /\ stops["main"] # "event"
               /\ oid[d].config.script.reqs[1].type # "global" => fds'[d][fd] # "log"
    <3>. SUFFICES ASSUME fd # NoFd
                  PROVE  /\ rest \in Withheld /\ ~(rest = <<"main">> /\ stops["main"] = "stopped")
                              => fds'[d][fd] = "log"
                         /\ rest \notin Withheld /\ stops["main"] # "event"
                              /\ oid[d].config.script.reqs[1].type # "global"
                              => fds'[d][fd] # "log"
      OBVIOUS
    <3>1. mainStopped(d) => fds'[d][fd] = "free"
      BY <2>2, RunAt DEF NoFd
    <3>2. CASE t = "main"
      <4>1. mainStopped(d)
        BY <1>5, <1>7, <3>2 DEF mainStopped
      <4>. QED  BY <1>5, <1>7, <3>1, <3>2, <4>1
    <3>3. CASE t # "main" /\ oid[d].threads \in Withheld
      <4>1. rest = <<"main">> /\ rest \in Withheld
        BY <1>5, <1>7, <3>3 DEF Withheld
      <4>2. CASE mainStopped(d)
        <5>1. its # "runs" /\ its \in {"runs", "stopped", "event"}
          BY <1>4, <3>3, <4>2 DEF mainStopped, Stops
        <5>. QED  BY <2>3, <4>1, <4>2, <5>1
      <4>3. CASE ~mainStopped(d)
        BY <1>4, <1>e, <2>2, <3>3, <4>1, <4>3
      <4>. QED  BY <4>2, <4>3
    <3>4. CASE oid[d].threads \notin Withheld
      <4>1. rest \notin Withheld
        BY <1>5, <1>7, <3>4 DEF Withheld
      <4>2. ~mainStopped(d)
        <5>. HIDE DEF t, rest, its, fd
        <5>. QED  BY <1>5, <1>7, <3>4 DEF mainStopped
      <4>. QED  BY <1>4, <2>2, <2>3, <3>4, <4>1, <4>2
    <3>. QED  BY <3>2, <3>3, <3>4
  <2>. HIDE DEF t, rest, its, fd
  <2>5. fd = oid[d].logFd /\ rest \in Withheld \cup {<<>>, <<"worker">>}
    BY <1>5, <1>7 DEF fd
  <2>. QED  BY <1>1, <2>1, <2>2, <2>3, <2>4, <2>5, TurnKeeps
<1>. QED  BY <1>3, <1>6, <1>7

\* A thread stops before its turn.
LEMMA ThreadStopsKeeps ==
  ASSUME SessionInv, NEW d \in Debuggers, NEW t \in {"main", "worker"},
         NEW stop \in {"stopped", "event"}, threadStops(d, t, stop)
  PROVE  SessionInv'
<1>. DEFINE threads == oid[d].threads
            stops == [oid[d].stops EXCEPT ![t] = stop]
<1>1. /\ oid[d].pc = "restore" /\ UNCHANGED <<env, build, disk, fds>>
      /\ t \in Range(threads) /\ oid[d].stops[t] = "runs"
      /\ Become(d, [oid[d] EXCEPT !.stops[t] = stop])
  BY DEF threadStops, At
<1>2. LogHeld(oid[d], fds[d]) /\ IsOid(oid[d])
  BY RunAt
<1>3. /\ threads \in Withheld \cup {<<>>, <<"worker">>} /\ oid[d].stops \in Stops
      /\ threads \in Withheld /\ ~Early(oid[d]) /\ oid[d].logFd # NoFd
           => fds[d][oid[d].logFd] = "log"
      /\ threads \notin Withheld /\ oid[d].stops["main"] # "event" /\ oid[d].logFd # NoFd
           /\ oid[d].config.script.reqs[1].type # "global" => fds[d][oid[d].logFd] # "log"
  BY <1>1, <1>2 DEF LogHeld
<1>4. stops \in Stops /\ (t # "main" => stops["main"] = oid[d].stops["main"])
  BY <1>3 DEF Stops
<1>5. threads # <<>>
  BY <1>1 DEF Range
<1>6. threads \notin Withheld => t # "main"
  BY <1>1, <1>3, <1>5, NextThread
<1>7. t = "main" => ~Early(oid[d]) /\ stops["main"] = stop
  BY <1>1, <1>3 DEF Early, Stops
<1>8. [oid[d] EXCEPT !.stops[t] = stop] = [oid[d] EXCEPT !.threads = threads, !.stops = stops]
  BY <1>2, FieldNames DEF IsOid
<1>9. DescriptorsTyped' /\ \A e \in Debuggers \ {d} : fds'[e] = fds[e]
  BY <1>1 DEF SessionInv, DescriptorsTyped
<1>10. oid[d].logFd # NoFd =>
         /\ threads \in Withheld /\ ~(threads = <<"main">> /\ stops["main"] = "stopped")
              => fds'[d][oid[d].logFd] = "log"
         /\ threads \notin Withheld /\ stops["main"] # "event"
              /\ oid[d].config.script.reqs[1].type # "global"
              => fds'[d][oid[d].logFd] # "log"
  BY <1>1, <1>3, <1>4, <1>6, <1>7 DEF Early
<1>11. Become(d, [oid[d] EXCEPT !.threads = threads, !.stops = stops])
  BY <1>1, <1>8
<1>. HIDE DEF threads, stops
<1>. QED  BY <1>1, <1>3, <1>4, <1>9, <1>10, <1>11, TurnKeeps DEF threads

\* The end of a run.
LEMMA EndKeeps ==
  ASSUME SessionInv, NEW d \in Debuggers, processTargetData(d) \/ uploadCache(d)
  PROVE  SessionInv'
<1>1. oid[d].pc \in {"decode", "upload"} /\ UNCHANGED <<env, build, disk, fds>>
  BY DEF processTargetData, uploadCache, At
<1>2. CASE Become(d, [oid[d] EXCEPT !.pc = "upload"])
  <2>. DEFINE o == [oid[d] EXCEPT !.pc = "upload"]
  <2>1. o.pc = "upload" /\ Continues(o, oid[d]) /\ o.objectFiles = oid[d].objectFiles
    BY RunAt, FieldNames DEF IsOid, Continues
  <2>2. Become(d, o)
    BY <1>2
  <2>. HIDE DEF o
  <2>3. RunOk(o, getPath(d, ".o")', DOMAIN disk, fds[d])
    BY <1>1, <2>1, RunAt DEF RunOk, RunTyped, RunClosed, Continues, PCs, FilesThere, LogHeld,
                             Compiling
  <2>. QED  BY <1>1, <2>2, <2>3, SameStep
<1>3. ASSUME NEW status \in {"ProcessingTargetDataError", "CacheUploadError", "Success"},
             Exit(d, status) \/ Fail(d, status)
      PROVE  SessionInv'
  BY <1>1, <1>3, GivesUp DEF Statuses
<1>. QED  BY <1>2, <1>3 DEF processTargetData, uploadCache

\* A run is killed.
LEMMA KillKeeps ==
  ASSUME SessionInv, NEW d \in Debuggers, kill(d)
  PROVE  SessionInv'
<1>1. Become(d, Fresh) /\ UNCHANGED <<env, build, disk, fds>>
  BY DEF kill
<1>. DEFINE path == getPath(d, ".o")'
            files == DOMAIN disk
            fd == fds[d]
<1>. HIDE DEF path, files, fd
<1>2. RunOk(Fresh, path, files, fd)
  BY FreshOk
<1>. QED  BY <1>1, <1>2, SameStep DEF path, files, fd

\* The target opens and closes its own: not the log file.
LEMMA TargetFilesKeep ==
  ASSUME SessionInv, NEW d \in Debuggers, NEW n \in 0 .. LastFd, NEW v \in {"free", "app"},
         fds[d][n] # "log", fds' = [fds EXCEPT ![d][n] = v],
         UNCHANGED <<env, build, disk, oid>>
  PROVE  SessionInv'
<1>1. DescriptorsTyped
  BY DEF SessionInv
<1>2. /\ DescriptorsTyped' /\ fds'[d] = [fds[d] EXCEPT ![n] = v]
      /\ \A e \in Debuggers \ {d} : fds'[e] = fds[e]
  BY <1>1 DEF DescriptorsTyped
<1>3. ASSUME NEW k \in 0 .. LastFd
      PROVE  fds'[d][k] = "log" <=> fds[d][k] = "log"
  BY <1>1, <1>2 DEF DescriptorsTyped
<1>4. ASSUME NEW e \in Debuggers
      PROVE  RunOk(oid[e], getPath(e, ".o"), DOMAIN disk, fds[e])'
  <2>1. CASE e # d
    BY <1>2, <2>1, OthersKept DEF SessionInv
  <2>2. CASE e = d
    <3>1. getPath(d, ".o")' = getPath(d, ".o")
      BY PathKept
    <3>2. oid[d].logFd # NoFd => oid[d].logFd \in 0 .. LastFd
      BY RunAt, SessionAssumption DEF RunTyped, NoFd
    <3>3. LogHeld(oid[d], fds'[d])
      BY <1>3, <3>2, RunAt DEF LogHeld
    <3>. QED  BY <2>2, <3>1, <3>3, RunAt DEF RunOk
  <2>. QED  BY <2>1, <2>2
<1>. QED  BY <1>2, <1>4 DEF SessionInv, FilesWhole

\* The invariant holds initially,
LEMMA SessionInit == Init => SessionInv
<1>. SUFFICES ASSUME Init
              PROVE  SessionInv
  OBVIOUS
<1>1. ASSUME NEW d \in Debuggers
      PROVE  RunOk(oid[d], getPath(d, ".o"), DOMAIN disk, fds[d])
  <2>1. oid[d] = Fresh
    BY DEF Init
  <2>. DEFINE path == getPath(d, ".o")
              files == DOMAIN disk
              fd == fds[d]
  <2>. HIDE DEF path, files, fd
  <2>2. RunOk(Fresh, path, files, fd)
    BY FreshOk
  <2>. QED  BY <2>1, <2>2 DEF path, files, fd
<1>2. DescriptorsTyped /\ build \in {1, 2} /\ env \in Envs
  BY DEF Init, DescriptorsTyped
<1>3. FilesWhole
  BY DEF Init, FilesWhole
<1>4. oid = [d \in Debuggers |-> oid[d]]
  BY DEF Init
<1>. QED  BY <1>1, <1>2, <1>3, <1>4 DEF SessionInv

\* and every step keeps it.
LEMMA SessionStep == SessionInv /\ [Next]_vars => SessionInv'
<1>. SUFFICES ASSUME SessionInv, [Next]_vars
              PROVE  SessionInv'
  OBVIOUS
<1>1. ASSUME NEW d \in Debuggers,
             \/ \E options \in env.invocations : main(d, options)
             \/ runScript(d) \/ setupLogFile(d)
             \/ loadDescs(d) \/ checkCache(d) \/ loadPadding(d) \/ generateCode(d)
             \/ compile(d) \/ storeOpen(d) \/ storeWrite(d) \/ nextArg(d) \/ link(d)
             \/ \E interrupted \in BOOLEAN : probe(d, interrupted)
             \/ restoreThread(d) \/ processTargetData(d) \/ uploadCache(d)
             \/ kill(d)
             \/ \E t \in {"main", "worker"}, stop \in {"stopped", "event"} :
                  threadStops(d, t, stop)
      PROVE  SessionInv'
  BY <1>1, MainKeeps, RunScriptKeeps, SetupLogFileKeeps, LoadDescsKeeps, CheckCacheKeeps,
     LoadPaddingKeeps, GenerateCodeKeeps, CompileKeeps, StoreOpenKeeps, StoreWriteKeeps,
     NextArgKeeps, LinkKeeps, ProbeKeeps, RestoreThreadKeeps, EndKeeps, KillKeeps,
     ThreadStopsKeeps
<1>2. ASSUME NEW d \in Debuggers, openFile(d)
      PROVE  SessionInv'
  <2>1. freeFds(d) # {}
    <3>1. Cardinality(freeFds(d)) > 1 /\ Cardinality({}) = 0
      BY <1>2, FS_EmptySet DEF openFile
    <3>. HIDE DEF freeFds
    <3>. QED  BY <3>1
  <2>2. Min(freeFds(d)) \in 0 .. LastFd /\ fds[d][Min(freeFds(d))] # "log"
    <3>1. Min(freeFds(d)) \in freeFds(d)
      BY <2>1, LowestFree
    <3>. QED  BY <3>1 DEF freeFds
  <2>. QED  BY <1>2, <2>2, TargetFilesKeep DEF openFile
<1>3. ASSUME NEW d \in Debuggers, NEW fd \in 0 .. LastFd, closeFile(d, fd)
      PROVE  SessionInv'
  BY <1>3, TargetFilesKeep DEF closeFile
<1>4. CASE rebuild
  <2>1. \A d \in Debuggers : RunOk(oid[d], getPath(d, ".o"), DOMAIN disk, fds[d])'
    BY <1>4, OthersKept DEF rebuild, SessionInv
  <2>. QED  BY <1>4, <2>1 DEF rebuild, SessionInv, DescriptorsTyped, FilesWhole
<1>5. CASE UNCHANGED vars
  <2>1. \A d \in Debuggers : RunOk(oid[d], getPath(d, ".o"), DOMAIN disk, fds[d])'
    BY <1>5, OthersKept DEF vars, SessionInv
  <2>. QED  BY <1>5, <2>1 DEF vars, SessionInv, DescriptorsTyped, FilesWhole
<1>. QED  BY <1>1, <1>2, <1>3, <1>4, <1>5 DEF Next

\* SessionInv is an invariant.
LEMMA SessionInvariance == Spec => []SessionInv
BY SessionInit, SessionStep, PTL DEF Spec

-----------------------------------------------------------------------------
(***************************************************************************)
(* What the data is decoded with: the invariant, which is about the        *)
(* descriptors and the archives of every build                             *)
(***************************************************************************)

\* What a request is about, from the fields of a run.
requestOf(o) ==
  LET p == o.config.script.reqs[1] IN
  irequest(p.type, p.func, IF p.type = "global" THEN NoArg ELSE p.args[o.arg])
programOf(o) == env.programs[o.build]
objectOf(o) ==
  TargetObject(programOf(o), ~o.config.hardDisableDrgn,
               IF requestOf(o).type = "global" THEN o.globalDescs ELSE o.funcDescs,
               requestOf(o), o.config.attachToProcess)

\* Descriptors, made by this run or loaded, are those of the build.
FuncsOf(prog, descs) ==
  \A f \in DOMAIN descs : descs[f] # Null /\ descs[f] = createFuncDesc(prog, f)
GlobalsOf(prog, descs) ==
  \A g \in DOMAIN descs :
    /\ descs[g] # Null
    /\ g \in DOMAIN prog.globals /\ descs[g].typeName = getTypeName(prog.globals[g])

\* The type of the argument a request is taken to name: where this has no location it
\* is counted like the other arguments.
CountedType(prog, r) ==
  LET f == prog.funcs[r.func] IN
  IF r.type # "global" /\ r.arg.n >= 0 /\ ~thisLocated(f) THEN f.params[r.arg.n + 1].type
  ELSE DeclaredType(prog, r)

\* A type hierarchy is of the build and of the type that was asked for.
InfoOf(o, info, r) ==
  /\ info.build = o.build
  /\ getTypeName(info.root.type) = getTypeName(CountedType(programOf(o), r))

ThisBuild(b) == b \in {1, 2} /\ (b = 2 => "rebuild" \in env.events)

RunInfo(o) ==
  /\ ThisBuild(o.build)
  /\ FuncsOf(programOf(o), o.funcDescs) /\ GlobalsOf(programOf(o), o.globalDescs)
  /\ \A r \in DOMAIN o.typeInfos : InfoOf(o, o.typeInfos[r], r)
  /\ o.pc \in {"check", "padding", "generate", "compile", "store", "storing"} =>
       objectOf(o) # Null
  /\ o.pc = "padding" => InfoOf(o, o.th, requestOf(o))
  /\ o.pc \in {"compile", "store", "storing"} => requestOf(o) \in DOMAIN o.typeInfos
  /\ o.pc \in {"store", "storing"} =>
       /\ o.entity = ".fd" => requestOf(o).type # "global"
       /\ o.entity = ".gd" => requestOf(o).type = "global"
  /\ o.pc = "storing" => locateBuildID(programOf(o)) # NoBuildId

\* An archive that is complete is of the build its id names, and a type hierarchy
\* of the type its name says.
ArchiveOf(b, path, data) ==
  /\ path[3] = ".fd" => FuncsOf(env.programs[b], data)
  /\ path[3] = ".gd" => GlobalsOf(env.programs[b], data)
  /\ path[3] = ".th" =>
       /\ data.build = b
       /\ getTypeName(data.root.type) = [name |-> path[2][1], ptr |-> path[2][2]]
ArchivesOf ==
  \A p \in DOMAIN disk : p[3] \in {".fd", ".gd", ".th"} /\ disk[p] # Partial =>
    \E b \in {1, 2} :
      /\ ThisBuild(b) /\ disk[p].buildId = locateBuildID(env.programs[b])
      /\ disk[p].buildId # NoBuildId
      /\ ArchiveOf(b, p, disk[p].data)

InfoInv ==
  /\ ThisBuild(build)
  /\ ArchivesOf
  /\ \A d \in Debuggers : RunInfo(oid[d])

-----------------------------------------------------------------------------
(***************************************************************************)
(* The symbol service                                                      *)
(***************************************************************************)

\* The name of a type has two parts.
LEMMA TypeNames ==
  ASSUME NEW type, IsType(type)
  PROVE  getTypeName(type) = [name |-> getTypeName(type).name, ptr |-> getTypeName(type).ptr]
<1>1. type = [name |-> type.name, ptr |-> type.ptr]
  BY DEF IsType
<1>. DEFINE n == IF type.ptr = 0 THEN 0 ELSE type.ptr - 1
<1>2. getTypeName(type) = [type EXCEPT !.ptr = n]
  BY DEF getTypeName
<1>. HIDE DEF n
<1>3. getTypeName(type) = [name |-> type.name, ptr |-> n]
  BY <1>1, <1>2
<1>. QED  BY <1>3

\* The descriptor of a function has an entry for each parameter, and its
\* arguments are counted behind this, if that is located.
LEMMA FuncDesc ==
  ASSUME NEW prog, WellFormed(prog), NEW func, createFuncDesc(prog, func) # Null
  PROVE  LET f == prog.funcs[func]
             fd == createFuncDesc(prog, func)
             hidden == IF fd.isMethod THEN 1 ELSE 0
         IN /\ func \in DOMAIN prog.funcs
            /\ fd.retval.typeName = getTypeName(f.ret)
            /\ Len(f.params) \in Nat /\ DOMAIN f.params = 1 .. Len(f.params)
            /\ DOMAIN fd.arguments = DOMAIN f.params
            /\ numArgs(fd) = Len(f.params) - hidden /\ hidden <= Len(f.params)
            /\ thisLocated(f) =>
                 \A i \in DOMAIN f.params : f.params[i].name # "this" <=> i > hidden
            /\ ~thisLocated(f) => hidden = 0
<1>. DEFINE f == prog.funcs[func]
            fd == createFuncDesc(prog, func)
            hidden == IF fd.isMethod THEN 1 ELSE 0
            args == [i \in DOMAIN f.params |-> parseFormalParam(f.params[i])]
            method == \E i \in DOMAIN f.params : f.params[i].located /\ f.params[i].name = "this"
            ret == [valid |-> getTypeName(f.ret) # Void, typeName |-> getTypeName(f.ret)]
<1>1. /\ func \in DOMAIN prog.funcs
      /\ fd = [isMethod |-> method, retval |-> ret, arguments |-> args]
  BY DEF createFuncDesc
<1>2. fd.isMethod = method /\ fd.retval = ret /\ fd.arguments = args
  <2>. HIDE DEF fd, method, ret, args
  <2>. QED  BY <1>1
<1>3. /\ Len(f.params) \in Nat /\ DOMAIN f.params = 1 .. Len(f.params)
      /\ \A i \in DOMAIN f.params : f.params[i].name = "this" => i = 1
  BY <1>1 DEF WellFormed, IsList
<1>. HIDE DEF fd, f
<1>4. DOMAIN args = 1 .. Len(f.params) /\ Len(args) = Len(f.params)
  BY <1>3
<1>6. /\ thisLocated(f) =>
           (method <=> \E i \in DOMAIN f.params : i = 1 /\ f.params[i].name = "this")
      /\ ~thisLocated(f) => ~method
      /\ method => 1 \in DOMAIN f.params
  BY <1>3 DEF thisLocated
<1>7. ret.typeName = getTypeName(f.ret)
  OBVIOUS
<1>8. /\ thisLocated(f) =>
           \A i \in DOMAIN f.params : f.params[i].name # "this" <=> i > hidden
      /\ ~thisLocated(f) => hidden = 0
  <2>. HIDE DEF method
  <2>. QED  BY <1>2, <1>3, <1>6
<1>10. hidden <= Len(f.params)
  BY <1>2, <1>3, <1>6
<1>. HIDE DEF args, ret, method, hidden
<1>9. numArgs(fd) = Len(f.params) - hidden
  BY <1>2, <1>3, <1>4 DEF numArgs, hidden
<1>. QED  BY <1>1, <1>2, <1>3, <1>4, <1>7, <1>8, <1>9, <1>10 DEF fd, f, hidden

\* An entry has the name of its parameter's type.
LEMMA ArgumentDesc ==
  ASSUME NEW prog, NEW func, NEW fd, fd # Null, fd = createFuncDesc(prog, func),
         NEW i \in DOMAIN prog.funcs[func].params
  PROVE  fd.arguments[i].typeName = getTypeName(prog.funcs[func].params[i].type)
<1>. DEFINE f == prog.funcs[func]
            args == [j \in DOMAIN f.params |-> parseFormalParam(f.params[j])]
<1>1. fd.arguments = args
  BY DEF createFuncDesc
<1>2. args[i] = parseFormalParam(f.params[i])
  OBVIOUS
<1>. HIDE DEF args, f
<1>3. fd.arguments[i].typeName = getTypeName(f.params[i].type)
  BY <1>1, <1>2 DEF parseFormalParam
<1>. QED  BY <1>3 DEF f

\* The position of an argument in a descriptor is that of the declared type.
LEMMA ArgumentDeclared ==
  ASSUME NEW prog, WellFormed(prog), NEW r, r.type # "global",
         createFuncDesc(prog, r.func) # Null,
         getArgumentIndex(createFuncDesc(prog, r.func), r.arg) # 0
  PROVE  LET f == prog.funcs[r.func]
             i == getArgumentIndex(createFuncDesc(prog, r.func), r.arg)
         IN i \in DOMAIN f.params /\ CountedType(prog, r) = f.params[i].type
<1>. DEFINE f == prog.funcs[r.func]
            fd == createFuncDesc(prog, r.func)
            i == getArgumentIndex(fd, r.arg)
            hidden == IF fd.isMethod THEN 1 ELSE 0
            visible == {k \in DOMAIN f.params : f.params[k].name # "this"}
<1>1. /\ Len(f.params) \in Nat /\ DOMAIN f.params = 1 .. Len(f.params)
      /\ numArgs(fd) = Len(f.params) - hidden /\ hidden <= Len(f.params)
      /\ thisLocated(f) =>
           \A k \in DOMAIN f.params : f.params[k].name # "this" <=> k > hidden
      /\ ~thisLocated(f) => hidden = 0
  BY FuncDesc
<1>h. hidden \in {0, 1} /\ (fd.isMethod => hidden = 1)
  OBVIOUS
<1>. HIDE DEF fd, f
<1>2. CASE r.arg = This
  <2>1. i = 1 /\ fd.isMethod
    BY <1>2 DEF getArgumentIndex, fd
  <2>2. This # Retval
    BY DEF This, Retval
  <2>3. ~(This.n >= 0)
    BY DEF This
  <2>4. CountedType(prog, r) = f.params[1].type
    BY <1>2, <2>2, <2>3 DEF CountedType, DeclaredType, f
  <2>5. 1 \in DOMAIN f.params
    BY <1>1, <1>h, <2>1
  <2>. QED  BY <2>1, <2>4, <2>5 DEF f, fd
<1>3. CASE r.arg # This
  <2>1. r.arg.n \in 0 .. numArgs(fd) - 1 /\ i = r.arg.n + 1 + hidden
    BY <1>3 DEF getArgumentIndex, fd
  <2>. HIDE DEF hidden, i
  <2>2. r.arg # Retval
    BY <1>1, <2>1 DEF Retval
  <2>. DEFINE n == r.arg.n + 1
  <2>3. n \in 1 .. (Len(f.params) - hidden) /\ n >= 1 /\ r.arg.n >= 0
    <3>1. r.arg.n \in 0 .. (Len(f.params) - hidden - 1)
      BY <1>1, <2>1
    <3>. QED  BY <1>1, <1>h, <3>1
  <2>4. ASSUME thisLocated(f)
        PROVE  (CHOOSE k \in visible : Cardinality({j \in visible : j <= k}) = n) = n + hidden
    <3>1. visible = {k \in 1 .. Len(f.params) : k > hidden}
      BY <1>1, <2>4
    <3>2. ASSUME NEW k \in visible
          PROVE  Cardinality({j \in visible : j <= k}) = k - hidden
      <4>1. k \in Nat /\ k >= hidden + 1 /\ k <= Len(f.params)
        BY <1>1, <1>h, <3>1
      <4>2. {j \in visible : j <= k} = (hidden + 1) .. k
        <5>. HIDE DEF visible
        <5>. QED  BY <1>1, <1>h, <3>1, <4>1
      <4>3. Cardinality((hidden + 1) .. k) = k - hidden
        BY <1>h, <4>1, FS_Interval
      <4>. QED  BY <4>2, <4>3
    <3>3. n + hidden \in visible
      BY <1>1, <1>h, <2>3, <3>1
    <3>4. visible \subseteq Nat
      BY <1>1
    <3>. HIDE DEF visible, n
    <3>5. \A k \in visible : Cardinality({j \in visible : j <= k}) = n <=> k = n + hidden
      BY <1>h, <2>3, <3>2, <3>4
    <3>. QED  BY <3>3, <3>5
  <2>5. CountedType(prog, r) = f.params[n + hidden].type
    <3>1. CASE thisLocated(f)
      <4>1. CountedType(prog, r) = DeclaredType(prog, r)
        BY <3>1 DEF CountedType, f
      <4>. QED  BY <1>3, <2>2, <2>3, <2>4, <3>1, <4>1 DEF DeclaredType, f
    <3>2. CASE ~thisLocated(f)
      <4>1. CountedType(prog, r) = f.params[r.arg.n + 1].type
        BY <2>3, <3>2 DEF CountedType, f
      <4>2. n + hidden = r.arg.n + 1
        BY <1>1, <2>3, <3>2
      <4>. HIDE DEF n
      <4>. QED  BY <4>1, <4>2
    <3>. QED  BY <3>1, <3>2
  <2>6. i = n + hidden /\ i \in DOMAIN f.params
    BY <1>1, <1>h, <2>1, <2>3
  <2>. QED  BY <2>5, <2>6 DEF f, fd, i
<1>. QED  BY <1>2, <1>3

\* What a request is looked up with.
descriptorsFor(r, funcDescs, globalDescs) ==
  IF r.type = "global" THEN globalDescs ELSE funcDescs

\* With or without drgn, a function's descriptor is the one of the build.
LEMMA FoundFuncDesc ==
  ASSUME NEW prog, NEW drgn, NEW descs, FuncsOf(prog, descs), NEW func,
         findFuncDesc(prog, drgn, descs, func) # Null
  PROVE  findFuncDesc(prog, drgn, descs, func) = createFuncDesc(prog, func)
BY DEF findFuncDesc, FuncsOf

\* The object that is found has the declared type.
LEMMA ObjectDeclared ==
  ASSUME NEW prog, WellFormed(prog), NEW drgn, NEW attached, NEW r,
         NEW funcDescs, FuncsOf(prog, funcDescs), NEW globalDescs, GlobalsOf(prog, globalDescs),
         NEW object, object # Null,
         object = TargetObject(prog, drgn, descriptorsFor(r, funcDescs, globalDescs), r, attached)
  PROVE  /\ object.typeName = getTypeName(CountedType(prog, r))
         /\ IsType(CountedType(prog, r))
         /\ r.type = "global" => r.func \in DOMAIN prog.globals
<1>1. CASE r.type = "global"
  <2>1. object = findGlobalDesc(prog, drgn, globalDescs, r.func, attached)
    BY <1>1 DEF TargetObject, descriptorsFor
  <2>2. CountedType(prog, r) = prog.globals[r.func]
    BY <1>1 DEF CountedType, DeclaredType
  <2>3. /\ r.func \in DOMAIN prog.globals
        /\ object.typeName = getTypeName(prog.globals[r.func])
    <3>1. CASE r.func \in DOMAIN globalDescs
      BY <2>1, <3>1 DEF findGlobalDesc, GlobalsOf
    <3>2. CASE r.func \notin DOMAIN globalDescs
      BY <2>1, <3>2 DEF findGlobalDesc
    <3>. QED  BY <3>1, <3>2
  <2>. QED  BY <2>2, <2>3 DEF WellFormed
<1>2. CASE r.type # "global"
  <2>. DEFINE fd == createFuncDesc(prog, r.func)
              f == prog.funcs[r.func]
  <2>1. fd # Null /\ object = getArgument(fd, r.arg)
    <3>1. findFuncDesc(prog, drgn, funcDescs, r.func) # Null
          /\ object = getArgument(findFuncDesc(prog, drgn, funcDescs, r.func), r.arg)
      BY <1>2 DEF TargetObject, descriptorsFor
    <3>. QED  BY <3>1, FoundFuncDesc
  <2>2. /\ r.func \in DOMAIN prog.funcs /\ fd.retval.typeName = getTypeName(f.ret)
        /\ DOMAIN fd.arguments = DOMAIN f.params
        /\ \A i \in DOMAIN f.params :
             fd.arguments[i].typeName = getTypeName(f.params[i].type)
    <3>. USE <2>1
    <3>1. r.func \in DOMAIN prog.funcs /\ fd.retval.typeName = getTypeName(f.ret)
      BY FuncDesc
    <3>2. DOMAIN fd.arguments = DOMAIN f.params
      BY FuncDesc
    <3>3. ASSUME NEW i \in DOMAIN f.params
          PROVE  fd.arguments[i].typeName = getTypeName(f.params[i].type)
      BY <3>3, ArgumentDesc
    <3>. QED  BY <3>1, <3>2, <3>3
  <2>. HIDE DEF fd, f
  <2>3. CASE r.arg = Retval
    <3>1. CountedType(prog, r) = f.ret
      <4>1. Retval # This /\ ~(Retval.n >= 0)
        BY DEF Retval, This
      <4>. QED  BY <1>2, <2>3, <4>1 DEF CountedType, DeclaredType, f
    <3>2. object = fd.retval
      BY <2>1, <2>3 DEF getArgument
    <3>3. IsType(f.ret)
      BY <2>2 DEF WellFormed, f
    <3>. QED  BY <1>2, <2>2, <3>1, <3>2, <3>3
  <2>4. CASE r.arg # Retval
    <3>. DEFINE i == getArgumentIndex(fd, r.arg)
    <3>1. i # 0 /\ object = fd.arguments[i]
      BY <2>1, <2>4 DEF getArgument
    <3>2. i \in DOMAIN f.params /\ CountedType(prog, r) = f.params[i].type
      BY <1>2, <2>1, <3>1, ArgumentDeclared DEF fd, f
    <3>3. IsType(f.params[i].type)
      <4>. HIDE DEF i
      <4>. QED  BY <2>2, <3>2 DEF WellFormed, f
    <3>. HIDE DEF i
    <3>. QED  BY <1>2, <2>2, <3>1, <3>2, <3>3
  <2>. QED  BY <2>3, <2>4
<1>. QED  BY <1>1, <1>2

\* So has the type that code is generated for.
LEMMA RootDeclared ==
  ASSUME NEW prog, WellFormed(prog), NEW drgn, NEW attached, NEW r,
         NEW funcDescs, FuncsOf(prog, funcDescs), NEW globalDescs,
         NEW root, root # Null,
         root = getRootType(prog, drgn, descriptorsFor(r, funcDescs, globalDescs), r, attached)
  PROVE  root.type = CountedType(prog, r)
<1>1. CASE r.type = "global"
  <2>1. root = [varName |-> r.func, type |-> prog.globals[r.func]]
    BY <1>1 DEF getRootType
  <2>2. CountedType(prog, r) = prog.globals[r.func]
    BY <1>1 DEF CountedType, DeclaredType
  <2>. QED  BY <2>1, <2>2
<1>2. CASE r.type # "global"
  <2>. DEFINE found == findFuncDesc(prog, drgn, funcDescs, r.func)
              fd == createFuncDesc(prog, r.func)
              f == prog.funcs[r.func]
              i == getArgumentIndex(fd, r.arg)
  <2>0. found # Null
    BY <1>2 DEF getRootType, descriptorsFor
  <2>1. fd = found /\ fd # Null
    BY <2>0, FoundFuncDesc
  <2>2. \/ isReturnRetVal(r) /\ root = [varName |-> "return", type |-> f.ret]
        \/ /\ i # 0
           /\ root = [varName |-> f.params[i].name, type |-> f.params[i].type]
    <3>. HIDE DEF fd, found
    <3>. QED  BY <1>2, <2>0, <2>1 DEF getRootType, descriptorsFor, found
  <2>. HIDE DEF fd, f
  <2>3. CASE isReturnRetVal(r) /\ root = [varName |-> "return", type |-> f.ret]
    <3>1. r.arg = Retval /\ Retval # This /\ ~(Retval.n >= 0)
      BY <2>3 DEF Retval, This, isReturnRetVal
    <3>2. CountedType(prog, r) = f.ret
      BY <1>2, <3>1 DEF CountedType, DeclaredType, f
    <3>. QED  BY <2>3, <3>2
  <2>4. CASE i # 0 /\ root = [varName |-> f.params[i].name, type |-> f.params[i].type]
    <3>1. CountedType(prog, r) = f.params[i].type
      BY <1>2, <2>1, <2>4, ArgumentDeclared DEF fd, f
    <3>. HIDE DEF i
    <3>. QED  BY <2>4, <3>1
  <2>. QED  BY <2>2, <2>3, <2>4
<1>. QED  BY <1>1, <1>2

-----------------------------------------------------------------------------
(***************************************************************************)
(* The steps                                                               *)
(***************************************************************************)

\* The steps of compileCode between the descriptors and the next argument.
AtArgument == {"check", "padding", "generate", "compile", "store", "storing"}

\* The actions' words for the same.
LEMMA RunNames ==
  ASSUME NEW d
  PROVE  /\ req(d) = requestOf(oid[d]) /\ Program(d) = programOf(oid[d])
         /\ preq(d).type = requestOf(oid[d]).type /\ preq(d).func = requestOf(oid[d]).func
         /\ descsOf(d) = descriptorsFor(req(d), oid[d].funcDescs, oid[d].globalDescs)
         /\ targetOf(d) = objectOf(oid[d])
         /\ objectOf(oid[d]) = TargetObject(Program(d), Drgn(d), descsOf(d), req(d), Attached(d))
<1>1. req(d) = requestOf(oid[d]) /\ Program(d) = programOf(oid[d])
  BY DEF req, getReqForArg, requestOf, preq, Program, programOf
<1>2. preq(d).type = requestOf(oid[d]).type /\ preq(d).func = requestOf(oid[d]).func
  BY DEF requestOf, preq, irequest
<1>3. descsOf(d) = descriptorsFor(req(d), oid[d].funcDescs, oid[d].globalDescs)
  BY <1>1, <1>2 DEF descsOf, descriptorsFor
<1>4. objectOf(oid[d]) = TargetObject(Program(d), Drgn(d), descsOf(d), req(d), Attached(d))
  BY <1>1, <1>3 DEF objectOf, descriptorsFor, Drgn, Attached
<1>. QED  BY <1>1, <1>2, <1>3, <1>4 DEF targetOf

\* A run that is at the same argument is about the same object.
LEMMA SameObject ==
  ASSUME NEW o, NEW p, o.build = p.build, o.config = p.config, SameArgument(o, p)
  PROVE  /\ requestOf(o) = requestOf(p) /\ programOf(o) = programOf(p)
         /\ objectOf(o) = objectOf(p)
<1>1. requestOf(o) = requestOf(p) /\ programOf(o) = programOf(p)
  BY DEF requestOf, programOf, SameArgument
<1>. QED  BY <1>1 DEF objectOf, SameArgument

\* What is loaded is of the build the target executes: the ids of two builds are
\* not the same.
LEMMA Loaded ==
  ASSUME SessionInv, InfoInv, NEW d \in Debuggers, NEW ext \in {".fd", ".gd", ".th"},
         load(d, ext) # Null
  PROVE  ArchiveOf(oid[d].build, getPath(d, ext), load(d, ext))
<1>. DEFINE path == getPath(d, ext)
            id == locateBuildID(Program(d))
<1>1. /\ path \in DOMAIN disk /\ disk[path] # Partial /\ id # NoBuildId
      /\ disk[path].buildId = id /\ load(d, ext) = disk[path].data
  BY DEF load, exists
<1>2. path[3] = ext
  BY DEF getPath
<1>. HIDE DEF path, id
<1>3. PICK b \in {1, 2} :
        /\ ThisBuild(b) /\ disk[path].buildId = locateBuildID(env.programs[b])
        /\ ArchiveOf(b, path, disk[path].data)
  BY <1>1, <1>2 DEF InfoInv, ArchivesOf
<1>4. ThisBuild(oid[d].build)
  BY DEF InfoInv, RunInfo
<1>5. env \in Envs
  BY DEF SessionInv
<1>6. b = oid[d].build
  <2>. DEFINE of(c) == locateBuildID(env.programs[c])
  <2>1. "rebuild" \in env.events /\ of(1) # NoBuildId => of(1) # of(2)
    BY <1>5, SessionAssumption
  <2>2. of(b) = of(oid[d].build) /\ of(b) # NoBuildId
    BY <1>1, <1>3 DEF id, Program
  <2>. HIDE DEF of
  <2>. QED  BY <1>4, <1>3, <2>1, <2>2 DEF ThisBuild
<1>. QED  BY <1>1, <1>3, <1>6 DEF path

\* What is left to show for a step of one debugger.
LEMMA InfoStepOf ==
  ASSUME SessionInv, InfoInv, NEW d \in Debuggers, NEW o, Become(d, o), env' = env,
         build' = build, ArchivesOf', RunInfo(o)
  PROVE  InfoInv'
<1>1. oid'[d] = o /\ \A e \in Debuggers \ {d} : oid'[e] = oid[e]
  BY DEF SessionInv, Become
<1>2. ASSUME NEW e \in Debuggers
      PROVE  RunInfo(oid[e])'
  <2>1. RunInfo(oid'[e])
    BY <1>1 DEF InfoInv
  <2>. QED  BY <2>1 DEF RunInfo, InfoOf, objectOf, programOf, ThisBuild
<1>. QED  BY <1>2 DEF InfoInv, ThisBuild

\* The files stay as they are,
LEMMA ArchivesKept ==
  ASSUME ArchivesOf, env' = env, disk' = disk
  PROVE  ArchivesOf'
BY DEF ArchivesOf, ArchiveOf, ThisBuild

\* or one is written that is not a complete archive or as it should be.
LEMMA Archived ==
  ASSUME ArchivesOf, env' = env, NEW path, NEW contents, write(path, contents),
         path[3] \in {".fd", ".gd", ".th"} /\ contents # Partial =>
           \E b \in {1, 2} :
             /\ ThisBuild(b) /\ contents.buildId = locateBuildID(env.programs[b])
             /\ contents.buildId # NoBuildId
             /\ ArchiveOf(b, path, contents.data)
  PROVE  ArchivesOf'
<1>1. /\ DOMAIN disk' = DOMAIN disk \cup {path}
      /\ \A p \in DOMAIN disk' : disk'[p] = IF p = path THEN contents ELSE disk[p]
  BY DEF write, assign
<1>2. ASSUME NEW p \in DOMAIN disk', p[3] \in {".fd", ".gd", ".th"}, disk'[p] # Partial
      PROVE  \E b \in {1, 2} :
               /\ ThisBuild(b) /\ disk'[p].buildId = locateBuildID(env.programs[b])
               /\ disk'[p].buildId # NoBuildId
               /\ ArchiveOf(b, p, disk'[p].data)
  <2>1. CASE p = path
    BY <1>1, <1>2, <2>1
  <2>2. CASE p # path
    <3>1. p \in DOMAIN disk /\ disk'[p] = disk[p]
      BY <1>1, <2>2
    <3>. QED  BY <1>2, <3>1 DEF ArchivesOf
  <2>. QED  BY <2>1, <2>2
<1>. QED  BY <1>2 DEF ArchivesOf, ArchiveOf, ThisBuild

\* A run that has nothing, or what it had, and is not at an argument.
LEMMA Elsewhere ==
  ASSUME NEW o, NEW p, RunInfo(p), o.pc \notin AtArgument, ThisBuild(o.build),
         \/ o.funcDescs = <<>> /\ o.globalDescs = <<>> /\ o.typeInfos = <<>>
         \/ /\ o.build = p.build /\ o.funcDescs = p.funcDescs
            /\ o.globalDescs = p.globalDescs /\ o.typeInfos = p.typeInfos
  PROVE  RunInfo(o)
<1>1. CASE o.funcDescs = <<>> /\ o.globalDescs = <<>> /\ o.typeInfos = <<>>
  <2>1. DOMAIN o.funcDescs = {} /\ DOMAIN o.globalDescs = {} /\ DOMAIN o.typeInfos = {}
    BY <1>1
  <2>. QED  BY <2>1 DEF RunInfo, FuncsOf, GlobalsOf, AtArgument
<1>2. CASE /\ o.build = p.build /\ o.funcDescs = p.funcDescs
           /\ o.globalDescs = p.globalDescs /\ o.typeInfos = p.typeInfos
  BY <1>2 DEF RunInfo, AtArgument, programOf, InfoOf
<1>. QED  BY <1>1, <1>2

\* A run ends.
LEMMA ExitInfo ==
  ASSUME SessionInv, InfoInv, NEW d \in Debuggers, NEW status, NEW o, Become(d, o),
         o \in {Fresh, Exited(d, status), [Exited(d, status) EXCEPT !.fault = TRUE],
                [Exited(d, status) EXCEPT !.image.fatal = TRUE]},
         UNCHANGED <<env, build, disk>>
  PROVE  InfoInv'
<1>1. /\ Fresh.pc = "idle" /\ Fresh.build = 1 /\ IsOid(Fresh)
      /\ Fresh.funcDescs = <<>> /\ Fresh.globalDescs = <<>> /\ Fresh.typeInfos = <<>>
  BY DEF Fresh, IsOid, Fields
<1>. DEFINE Empty(p) == /\ p.pc = "done" /\ p.build = oid[d].build /\ IsOid(p)
                        /\ p.funcDescs = <<>> /\ p.globalDescs = <<>> /\ p.typeInfos = <<>>
<1>2. Empty(Exited(d, status))
  BY <1>1, FieldNames DEF Exited, IsOid
<1>3. Empty([Exited(d, status) EXCEPT !.fault = TRUE])
  BY <1>2, FieldNames DEF IsOid
<1>4. Empty([Exited(d, status) EXCEPT !.image.fatal = TRUE])
  BY <1>2, FieldNames DEF IsOid
<1>5. /\ o.pc \notin AtArgument /\ o.build \in {1, oid[d].build}
      /\ o.funcDescs = <<>> /\ o.globalDescs = <<>> /\ o.typeInfos = <<>>
  BY <1>1, <1>2, <1>3, <1>4 DEF AtArgument
<1>6. RunInfo(oid[d]) /\ ThisBuild(oid[d].build)
  BY DEF InfoInv, RunInfo
<1>7. ThisBuild(o.build)
  BY <1>5, <1>6 DEF ThisBuild
<1>8. RunInfo(o)
  BY <1>5, <1>6, <1>7, Elsewhere
<1>. QED  BY <1>8, ArchivesKept, InfoStepOf DEF InfoInv

\* A run goes on without another argument.
LEMMA GoesOn ==
  ASSUME SessionInv, InfoInv, NEW d \in Debuggers, NEW o, Become(d, o),
         UNCHANGED <<env, build, disk>>, o.pc \notin AtArgument, o.build = oid[d].build,
         o.funcDescs = oid[d].funcDescs, o.globalDescs = oid[d].globalDescs,
         o.typeInfos = oid[d].typeInfos
  PROVE  InfoInv'
<1>1. RunInfo(oid[d]) /\ ThisBuild(o.build)
  BY DEF InfoInv, RunInfo
<1>2. RunInfo(o)
  BY <1>1, Elsewhere
<1>. QED  BY <1>2, ArchivesKept, InfoStepOf DEF InfoInv

\* The steps that are about no argument.
LEMMA ElsewhereKeeps ==
  ASSUME SessionInv, InfoInv, NEW d \in Debuggers,
         \/ \E options \in env.invocations : main(d, options)
         \/ runScript(d) \/ setupLogFile(d) \/ nextArg(d) \/ link(d)
         \/ \E interrupted \in BOOLEAN : probe(d, interrupted)
         \/ Restoring(d) \/ processTargetData(d) \/ uploadCache(d) \/ kill(d)
  PROVE  InfoInv'
<1>0. IsOid(oid[d])
  BY RunAt
<1>e. ASSUME NEW status, Exit(d, status) \/ Fail(d, status), UNCHANGED <<env, build, disk>>
      PROVE  InfoInv'
  BY <1>e, ExitInfo DEF Exit, Fail
<1>p. ASSUME NEW pc, pc \notin AtArgument, Become(d, [oid[d] EXCEPT !.pc = pc]),
             UNCHANGED <<env, build, disk>>
      PROVE  InfoInv'
  <2>. DEFINE o == [oid[d] EXCEPT !.pc = pc]
  <2>1. /\ o.pc = pc /\ o.build = oid[d].build /\ o.funcDescs = oid[d].funcDescs
        /\ o.globalDescs = oid[d].globalDescs /\ o.typeInfos = oid[d].typeInfos
    BY <1>0, FieldNames DEF IsOid
  <2>2. Become(d, o)
    BY <1>p
  <2>. HIDE DEF o
  <2>. QED  BY <1>p, <2>1, <2>2, GoesOn
<1>1. ASSUME NEW options \in env.invocations, main(d, options)
      PROVE  InfoInv'
  <2>. DEFINE c == Config(options)
              st == IF c.status = "Help" THEN "Success" ELSE c.status
              pc == IF c.status = "Success" THEN "script" ELSE "done"
              o == [Fresh EXCEPT !.config = c, !.build = build, !.status = st, !.pc = pc]
  <2>1. Become(d, o) /\ UNCHANGED <<env, build, disk>> /\ pc \in {"script", "done"}
    BY <1>1 DEF main
  <2>. HIDE DEF c, st, pc
  <2>2. /\ o.pc = pc /\ o.build = build
        /\ o.funcDescs = <<>> /\ o.globalDescs = <<>> /\ o.typeInfos = <<>>
    BY DEF Fresh
  <2>. HIDE DEF o
  <2>3. RunInfo(oid[d]) /\ ThisBuild(o.build) /\ o.pc \notin AtArgument
    BY <2>1, <2>2 DEF InfoInv, AtArgument
  <2>4. RunInfo(o)
    BY <2>2, <2>3, Elsewhere
  <2>. QED  BY <2>1, <2>4, ArchivesKept, InfoStepOf DEF InfoInv
<1>2. CASE runScript(d)
  <2>1. UNCHANGED <<env, build, disk>>
    BY <1>2 DEF runScript
  <2>2. \/ \E status : Exit(d, status)
        \/ \E pc \in {"segments", "descs"} : Become(d, [oid[d] EXCEPT !.pc = pc])
    <3>. DEFINE pc == IF Attached(d) THEN "segments" ELSE "descs"
    <3>1. pc \in {"segments", "descs"}
      OBVIOUS
    <3>2. (\E status : Exit(d, status)) \/ Become(d, [oid[d] EXCEPT !.pc = pc])
      BY <1>2 DEF runScript
    <3>. HIDE DEF pc
    <3>. QED  BY <3>1, <3>2
  <2>. QED  BY <1>e, <1>p, <2>1, <2>2 DEF AtArgument
<1>3. CASE setupLogFile(d)
  <2>1. UNCHANGED <<env, build, disk>>
    BY <1>3 DEF setupLogFile
  <2>2. \/ Fail(d, "SegmentInitError") \/ Become(d, [oid[d] EXCEPT !.pc = "descs"])
        \/ \E fd : Become(d, [oid[d] EXCEPT !.pc = "descs", !.logFd = fd])
    BY <1>3 DEF setupLogFile
  <2>3. ASSUME NEW fd, Become(d, [oid[d] EXCEPT !.pc = "descs", !.logFd = fd])
        PROVE  InfoInv'
    <3>. DEFINE o == [oid[d] EXCEPT !.pc = "descs", !.logFd = fd]
    <3>1. /\ o.pc = "descs" /\ o.build = oid[d].build /\ o.funcDescs = oid[d].funcDescs
          /\ o.globalDescs = oid[d].globalDescs /\ o.typeInfos = oid[d].typeInfos
      BY <1>0, FieldNames DEF IsOid
    <3>2. Become(d, o)
      BY <2>3
    <3>. HIDE DEF o
    <3>. QED  BY <2>1, <3>1, <3>2, GoesOn DEF AtArgument
  <2>. QED  BY <1>e, <1>p, <2>1, <2>2, <2>3 DEF AtArgument
<1>4. CASE nextArg(d)
  <2>. DEFINE path == getPath(d, ".o")
              a == IF oid[d].arg < argCount(d) THEN oid[d].arg + 1 ELSE oid[d].arg
              pc == IF oid[d].arg < argCount(d) THEN "descs"
                    ELSE IF Attached(d) THEN "link" ELSE "upload"
              o == [oid[d] EXCEPT !.objectFiles = @ \cup {path}, !.arg = a, !.pc = pc]
  <2>1. Become(d, o) /\ UNCHANGED <<env, build, disk>> /\ pc \in {"descs", "link", "upload"}
    BY <1>4 DEF nextArg
  <2>. HIDE DEF path, a, pc
  <2>2. /\ o.pc = pc /\ o.build = oid[d].build /\ o.funcDescs = oid[d].funcDescs
        /\ o.globalDescs = oid[d].globalDescs /\ o.typeInfos = oid[d].typeInfos
    BY <1>0, FieldNames DEF IsOid
  <2>. HIDE DEF o
  <2>. QED  BY <2>1, <2>2, GoesOn DEF AtArgument
<1>5. CASE link(d)
  <2>1. UNCHANGED <<env, build, disk>>
    BY <1>5 DEF link
  <2>2. \/ \E status : Exit(d, status)
        \/ Become(d, [Exited(d, "Aborted") EXCEPT !.image.fatal = TRUE])
        \/ \E image, pc : /\ pc \in {"upload", "probe"}
                          /\ Become(d, [oid[d] EXCEPT !.pc = pc, !.image = image])
    BY <1>5 DEF link
  <2>3. ASSUME NEW image, NEW pc \in {"upload", "probe"},
               Become(d, [oid[d] EXCEPT !.pc = pc, !.image = image])
        PROVE  InfoInv'
    <3>. DEFINE o == [oid[d] EXCEPT !.pc = pc, !.image = image]
    <3>1. /\ o.pc = pc /\ o.build = oid[d].build /\ o.funcDescs = oid[d].funcDescs
          /\ o.globalDescs = oid[d].globalDescs /\ o.typeInfos = oid[d].typeInfos
      BY <1>0, FieldNames DEF IsOid
    <3>2. Become(d, o)
      BY <2>3
    <3>. HIDE DEF o
    <3>. QED  BY <2>1, <3>1, <3>2, GoesOn DEF AtArgument
  <2>. QED  BY <1>e, <2>1, <2>2, <2>3, ExitInfo
<1>6. ASSUME NEW interrupted, probe(d, interrupted)
      PROVE  InfoInv'
  <2>1. PICK threads : Become(d, [oid[d] EXCEPT !.pc = "restore", !.threads = threads,
                                                !.stops = AllRun, !.interrupted = interrupted])
    BY <1>6 DEF probe
  <2>. DEFINE o == [oid[d] EXCEPT !.pc = "restore", !.threads = threads,
                                  !.stops = AllRun, !.interrupted = interrupted]
  <2>2. /\ o.pc = "restore" /\ o.build = oid[d].build /\ o.funcDescs = oid[d].funcDescs
        /\ o.globalDescs = oid[d].globalDescs /\ o.typeInfos = oid[d].typeInfos
    BY <1>0, FieldNames DEF IsOid
  <2>3. Become(d, o) /\ UNCHANGED <<env, build, disk>>
    BY <1>6, <2>1 DEF probe
  <2>. HIDE DEF o
  <2>. QED  BY <2>2, <2>3, GoesOn DEF AtArgument
<1>7. CASE Restoring(d)
  <2>1. UNCHANGED <<env, build, disk>> /\ oid[d].pc = "restore"
    BY <1>7, RestoreSteps
  <2>2. ASSUME NEW pc \in {"upload", "decode"}, Become(d, [oid[d] EXCEPT !.pc = pc])
        PROVE  InfoInv'
    BY <1>p, <2>1, <2>2 DEF AtArgument
  <2>3. ASSUME NEW threads, NEW stops,
               Become(d, [oid[d] EXCEPT !.threads = threads, !.stops = stops])
        PROVE  InfoInv'
    <3>. DEFINE o == [oid[d] EXCEPT !.threads = threads, !.stops = stops]
    <3>1. /\ o.pc = "restore" /\ o.build = oid[d].build /\ o.funcDescs = oid[d].funcDescs
          /\ o.globalDescs = oid[d].globalDescs /\ o.typeInfos = oid[d].typeInfos
      BY <1>0, <2>1, FieldNames DEF IsOid
    <3>2. Become(d, o)
      BY <2>3
    <3>. HIDE DEF o
    <3>. QED  BY <2>1, <3>1, <3>2, GoesOn DEF AtArgument
  <2>. QED  BY <1>7, <2>2, <2>3, RestoreSteps
<1>8. CASE processTargetData(d) \/ uploadCache(d)
  <2>1. UNCHANGED <<env, build, disk>>
    BY <1>8 DEF processTargetData, uploadCache
  <2>2. \/ \E status : Exit(d, status) \/ Fail(d, status)
        \/ Become(d, [oid[d] EXCEPT !.pc = "upload"])
    BY <1>8 DEF processTargetData, uploadCache
  <2>. QED  BY <1>e, <1>p, <2>1, <2>2 DEF AtArgument
<1>9. CASE kill(d)
  BY <1>9, ExitInfo DEF kill
<1>. QED  BY <1>1, <1>2, <1>3, <1>4, <1>5, <1>6, <1>7, <1>8, <1>9

\* A run and its object.
LEMMA InfoAt ==
  ASSUME SessionInv, InfoInv, NEW d \in Debuggers
  PROVE  /\ RunInfo(oid[d]) /\ ThisBuild(oid[d].build) /\ WellFormed(Program(d))
         /\ FuncsOf(Program(d), oid[d].funcDescs) /\ GlobalsOf(Program(d), oid[d].globalDescs)
         /\ oid[d].pc \in AtArgument =>
              /\ targetOf(d) # Null
              /\ targetOf(d).typeName = getTypeName(CountedType(Program(d), req(d)))
              /\ IsType(CountedType(Program(d), req(d)))
<1>1. RunInfo(oid[d]) /\ ThisBuild(oid[d].build)
  BY DEF InfoInv, RunInfo
<1>2. WellFormed(Program(d))
  BY <1>1, SessionAssumption DEF SessionInv, ThisBuild, Program
<1>3. FuncsOf(Program(d), oid[d].funcDescs) /\ GlobalsOf(Program(d), oid[d].globalDescs)
  BY <1>1 DEF RunInfo, Program, programOf
<1>4. ASSUME oid[d].pc \in AtArgument
      PROVE  /\ targetOf(d) # Null
             /\ targetOf(d).typeName = getTypeName(CountedType(Program(d), req(d)))
             /\ IsType(CountedType(Program(d), req(d)))
  <2>1. targetOf(d) # Null
    BY <1>1, <1>4, RunNames DEF RunInfo, AtArgument
  <2>2. targetOf(d) = TargetObject(Program(d), Drgn(d),
                        descriptorsFor(req(d), oid[d].funcDescs, oid[d].globalDescs),
                        req(d), Attached(d))
    BY RunNames
  <2>. QED  BY <1>2, <1>3, <2>1, <2>2, ObjectDeclared
<1>. QED  BY <1>1, <1>2, <1>3, <1>4

\* Descriptors that were loaded join those that are there.
LEMMA MergedDescs ==
  ASSUME NEW prog, NEW m, NEW other
  PROVE  /\ FuncsOf(prog, m) /\ FuncsOf(prog, other) => FuncsOf(prog, merge(m, other))
         /\ GlobalsOf(prog, m) /\ GlobalsOf(prog, other) => GlobalsOf(prog, merge(m, other))
BY DEF FuncsOf, GlobalsOf, merge

\* They are of the build.
LEMMA LoadedDescs ==
  ASSUME SessionInv, InfoInv, NEW d \in Debuggers, NEW found, found = load(d, DescsExt(d)),
         NEW descs, descs = IF found = Null THEN descsOf(d) ELSE merge(descsOf(d), found)
  PROVE  /\ req(d).type = "global" => GlobalsOf(Program(d), descs)
         /\ req(d).type # "global" => FuncsOf(Program(d), descs)
<1>. DEFINE prog == Program(d)
            global == req(d).type = "global"
<1>1. FuncsOf(prog, oid[d].funcDescs) /\ GlobalsOf(prog, oid[d].globalDescs)
  BY InfoAt
<1>2. /\ preq(d).type = req(d).type
      /\ descsOf(d) = IF global THEN oid[d].globalDescs ELSE oid[d].funcDescs
  BY RunNames DEF descriptorsFor
<1>3. CASE found = Null
  BY <1>1, <1>2, <1>3
<1>4. CASE found # Null
  <2>1. DescsExt(d) = IF global THEN ".gd" ELSE ".fd"
    BY <1>2 DEF DescsExt
  <2>2. ArchiveOf(oid[d].build, getPath(d, DescsExt(d)), found)
    BY <1>4, <2>1, Loaded
  <2>3. getPath(d, DescsExt(d))[3] = DescsExt(d)
    BY DEF getPath
  <2>. HIDE DEF global
  <2>4. /\ global => GlobalsOf(prog, found)
        /\ ~global => FuncsOf(prog, found)
    BY <2>1, <2>2, <2>3 DEF ArchiveOf, Program
  <2>5. /\ global => GlobalsOf(prog, descs)
        /\ ~global => FuncsOf(prog, descs)
    BY <1>1, <1>2, <1>4, <2>4, MergedDescs
  <2>. QED  BY <2>5 DEF global
<1>. QED  BY <1>3, <1>4

\* The descriptor of the argument is found, and is the one of the build.
LEMMA LoadDescsInfo ==
  ASSUME SessionInv, InfoInv, NEW d \in Debuggers, loadDescs(d)
  PROVE  InfoInv'
<1>. DEFINE prog == Program(d)
            drgn == Drgn(d)
            att == Attached(d)
            r == req(d)
            global == r.type = "global"
            found == load(d, DescsExt(d))
            descs == IF found = Null THEN descsOf(d) ELSE merge(descsOf(d), found)
            object == TargetObject(prog, drgn, descs, r, att)
            desc == IF global THEN object ELSE findFuncDesc(prog, drgn, descs, r.func)
            all == assign(descs, r.func, desc)
            F == IF global THEN oid[d].funcDescs ELSE all
            G == IF global THEN all ELSE oid[d].globalDescs
            o == [oid[d] EXCEPT !.pc = "check", !.funcDescs = F, !.globalDescs = G]
<1>1. UNCHANGED <<env, build, disk>> /\ IsOid(oid[d])
  BY RunAt DEF loadDescs
<1>2. /\ WellFormed(prog) /\ ThisBuild(oid[d].build) /\ RunInfo(oid[d])
      /\ FuncsOf(prog, oid[d].funcDescs) /\ GlobalsOf(prog, oid[d].globalDescs)
  BY InfoAt
<1>3. preq(d).type = r.type /\ preq(d).func = r.func
      /\ descsOf(d) = IF global THEN oid[d].globalDescs ELSE oid[d].funcDescs
  BY RunNames DEF descriptorsFor
<1>4. Exit(d, "CompilationError") \/ (object # Null /\ Become(d, o))
  <2>. HIDE DEF object, descs, found, prog, drgn, att, r
  <2>1. Describe(d, descs)
    BY DEF loadDescs, descs, found
  <2>. QED  BY <1>3, <2>1 DEF Describe, object, prog, drgn, att, r
<1>5. /\ global => GlobalsOf(prog, descs)
      /\ ~global => FuncsOf(prog, descs)
  BY LoadedDescs
<1>6. CASE Exit(d, "CompilationError")
  BY <1>1, <1>6, ExitInfo DEF Exit
<1>7. CASE object # Null /\ Become(d, o)
  <2>. HIDE DEF descs, found, prog, drgn, att, r
  <2>1. DOMAIN all = DOMAIN descs \cup {r.func} /\ all[r.func] = desc
        /\ \A x \in DOMAIN all : x # r.func => all[x] = descs[x]
    <3>. HIDE DEF desc
    <3>. QED  BY DEF assign
  <2>2. CASE global
    <3>1. /\ object.typeName = getTypeName(CountedType(prog, r))
          /\ r.func \in DOMAIN prog.globals
      <4>1. object = TargetObject(prog, drgn, descriptorsFor(r, oid[d].funcDescs, descs), r, att)
        BY <2>2 DEF descriptorsFor
      <4>. HIDE DEF object
      <4>. QED  BY <1>2, <1>5, <1>7, <2>2, <4>1, ObjectDeclared
    <3>2. CountedType(prog, r) = prog.globals[r.func]
      BY <2>2 DEF CountedType, DeclaredType
    <3>3. desc = object
      BY <2>2
    <3>. HIDE DEF object, desc, all
    <3>4. GlobalsOf(prog, all)
      BY <1>5, <1>7, <2>1, <2>2, <3>1, <3>2, <3>3 DEF GlobalsOf
    <3>5. TargetObject(prog, drgn, all, r, att) # Null
      BY <1>7, <2>1, <2>2, <3>3 DEF TargetObject, findGlobalDesc
    <3>6. F = oid[d].funcDescs /\ G = all
      BY <2>2
    <3>. HIDE DEF F, G
    <3>7. /\ o.pc = "check" /\ o.funcDescs = F /\ o.globalDescs = G /\ o.build = oid[d].build
          /\ o.config = oid[d].config /\ o.arg = oid[d].arg /\ o.typeInfos = oid[d].typeInfos
      BY <1>1, FieldNames DEF IsOid
    <3>. HIDE DEF o
    <3>8. requestOf(o) = r /\ programOf(o) = prog
      BY <3>7, RunNames DEF requestOf, programOf, r, prog
    <3>9. objectOf(o) = TargetObject(prog, drgn, all, r, att)
      BY <2>2, <3>6, <3>7, <3>8 DEF objectOf, drgn, att, Drgn, Attached
    <3>10. \A x \in DOMAIN o.typeInfos : InfoOf(o, o.typeInfos[x], x)
      BY <1>2, <3>7 DEF RunInfo, InfoOf, programOf
    <3>11. RunInfo(o)
      BY <1>2, <3>4, <3>5, <3>6, <3>7, <3>8, <3>9, <3>10 DEF RunInfo
    <3>. QED  BY <1>1, <1>7, <3>11, ArchivesKept, InfoStepOf DEF InfoInv
  <2>3. CASE ~global
    <3>1. /\ desc # Null /\ desc = findFuncDesc(prog, drgn, descs, r.func)
          /\ object = getArgument(desc, r.arg)
      BY <1>7, <2>3 DEF TargetObject
    <3>2. desc = createFuncDesc(prog, r.func)
      BY <1>5, <2>3, <3>1, FoundFuncDesc
    <3>. HIDE DEF object, desc, all
    <3>4. FuncsOf(prog, all)
      BY <1>5, <2>1, <2>3, <3>1, <3>2 DEF FuncsOf
    <3>5. TargetObject(prog, drgn, all, r, att) # Null
      <4>1. findFuncDesc(prog, drgn, all, r.func) = desc
        BY <2>1 DEF findFuncDesc
      <4>. QED  BY <1>7, <2>3, <3>1, <4>1 DEF TargetObject
    <3>6. F = all /\ G = oid[d].globalDescs
      BY <2>3
    <3>. HIDE DEF F, G
    <3>7. /\ o.pc = "check" /\ o.funcDescs = F /\ o.globalDescs = G /\ o.build = oid[d].build
          /\ o.config = oid[d].config /\ o.arg = oid[d].arg /\ o.typeInfos = oid[d].typeInfos
      BY <1>1, FieldNames DEF IsOid
    <3>. HIDE DEF o
    <3>8. requestOf(o) = r /\ programOf(o) = prog
      BY <3>7, RunNames DEF requestOf, programOf, r, prog
    <3>9. objectOf(o) = TargetObject(prog, drgn, all, r, att)
      BY <2>3, <3>6, <3>7, <3>8 DEF objectOf, drgn, att, Drgn, Attached
    <3>10. \A x \in DOMAIN o.typeInfos : InfoOf(o, o.typeInfos[x], x)
      BY <1>2, <3>7 DEF RunInfo, InfoOf, programOf
    <3>11. RunInfo(o)
      BY <1>2, <3>4, <3>5, <3>6, <3>7, <3>8, <3>9, <3>10 DEF RunInfo
    <3>. QED  BY <1>1, <1>7, <3>11, ArchivesKept, InfoStepOf DEF InfoInv
  <2>. QED  BY <2>2, <2>3
<1>. QED  BY <1>4, <1>6, <1>7

\* A step that stays at the argument: what is left to show.
LEMMA StaysInfo ==
  ASSUME SessionInv, InfoInv, NEW d \in Debuggers, oid[d].pc \in AtArgument,
         NEW o, Become(d, o), env' = env, build' = build, ArchivesOf',
         Continues(o, oid[d]), SameArgument(o, oid[d]),
         \A r \in DOMAIN o.typeInfos : InfoOf(oid[d], o.typeInfos[r], r),
         o.pc = "padding" => InfoOf(oid[d], o.th, req(d)),
         o.pc \in {"compile", "store", "storing"} => req(d) \in DOMAIN o.typeInfos,
         o.pc \in {"store", "storing"} =>
           /\ o.entity = ".fd" => req(d).type # "global"
           /\ o.entity = ".gd" => req(d).type = "global",
         o.pc = "storing" => locateBuildID(Program(d)) # NoBuildId
  PROVE  InfoInv'
<1>1. RunInfo(oid[d]) /\ objectOf(oid[d]) # Null
  BY DEF InfoInv, RunInfo, AtArgument
<1>2. /\ requestOf(o) = req(d) /\ programOf(o) = Program(d)
      /\ objectOf(o) = objectOf(oid[d]) /\ programOf(oid[d]) = Program(d)
  BY RunNames, SameObject DEF Continues
<1>3. /\ o.build = oid[d].build /\ o.funcDescs = oid[d].funcDescs
      /\ o.globalDescs = oid[d].globalDescs
  BY DEF Continues, SameArgument
<1>4. \A info, r : InfoOf(o, info, r) <=> InfoOf(oid[d], info, r)
  BY <1>2, <1>3 DEF InfoOf
<1>5. RunInfo(o)
  <2>1. /\ ThisBuild(o.build)
        /\ FuncsOf(programOf(o), o.funcDescs) /\ GlobalsOf(programOf(o), o.globalDescs)
    BY <1>1, <1>2, <1>3 DEF RunInfo
  <2>. QED  BY <1>1, <1>2, <1>4, <2>1 DEF RunInfo
<1>. QED  BY <1>5, InfoStepOf

\* The type hierarchy in the cache is for the type of the argument, if its file is.
LEMMA CheckCacheInfo ==
  ASSUME SessionInv, InfoInv, NEW d \in Debuggers, checkCache(d)
  PROVE  InfoInv'
<1>1. oid[d].pc = "check" /\ UNCHANGED <<env, build, disk>> /\ IsOid(oid[d])
  BY RunAt DEF checkCache, At
<1>2. RunInfo(oid[d]) /\ oid[d].pc \in AtArgument /\ ArchivesOf'
  BY <1>1, ArchivesKept DEF InfoInv, AtArgument
<1>. DEFINE th == load(d, ".th")
<1>3. CASE th # Null /\ Become(d, [oid[d] EXCEPT !.pc = "padding", !.th = th])
  <2>. DEFINE o == [oid[d] EXCEPT !.pc = "padding", !.th = th]
              path == getPath(d, ".th")
  <2>1. ArchiveOf(oid[d].build, path, th)
    BY <1>3, Loaded
  <2>2. path[3] = ".th" /\ path[2] = <<targetOf(d).typeName.name, targetOf(d).typeName.ptr>>
    BY DEF getPath
  <2>. HIDE DEF th, path
  <2>3. /\ th.build = oid[d].build
        /\ getTypeName(th.root.type) =
             [name |-> targetOf(d).typeName.name, ptr |-> targetOf(d).typeName.ptr]
    BY <2>1, <2>2 DEF ArchiveOf
  <2>4. InfoOf(oid[d], th, req(d))
    <3>. DEFINE t == CountedType(Program(d), req(d))
    <3>1. targetOf(d).typeName = getTypeName(t) /\ IsType(t)
      BY <1>2, InfoAt
    <3>2. programOf(oid[d]) = Program(d)
      BY RunNames
    <3>. HIDE DEF t
    <3>3. getTypeName(th.root.type) = getTypeName(t)
      BY <2>3, <3>1, TypeNames
    <3>. QED  BY <2>3, <3>2, <3>3 DEF InfoOf, t
  <2>5. /\ o.pc = "padding" /\ o.th = th /\ o.typeInfos = oid[d].typeInfos
        /\ Continues(o, oid[d]) /\ SameArgument(o, oid[d])
    BY <1>1, FieldNames DEF IsOid, Continues, SameArgument
  <2>6. Become(d, o)
    BY <1>3
  <2>. HIDE DEF o
  <2>7. \A r \in DOMAIN o.typeInfos : InfoOf(oid[d], o.typeInfos[r], r)
    BY <1>2, <2>5 DEF RunInfo
  <2>. QED  BY <1>1, <1>2, <2>4, <2>5, <2>6, <2>7, StaysInfo
<1>4. CASE Become(d, [oid[d] EXCEPT !.pc = "generate"])
  <2>. DEFINE o == [oid[d] EXCEPT !.pc = "generate"]
  <2>1. /\ o.pc = "generate" /\ o.typeInfos = oid[d].typeInfos
        /\ Continues(o, oid[d]) /\ SameArgument(o, oid[d])
    BY <1>1, FieldNames DEF IsOid, Continues, SameArgument
  <2>2. Become(d, o)
    BY <1>4
  <2>. HIDE DEF o
  <2>3. \A r \in DOMAIN o.typeInfos : InfoOf(oid[d], o.typeInfos[r], r)
    BY <1>2, <2>1 DEF RunInfo
  <2>. QED  BY <1>1, <1>2, <2>1, <2>2, <2>3, StaysInfo
<1>. QED  BY <1>3, <1>4 DEF checkCache

\* t is the map m with an entry for key, which it may have had.
OneAdded(t, m, key, value) ==
  /\ DOMAIN t = DOMAIN m \cup {key}
  /\ \A r \in DOMAIN t : (r \in DOMAIN m /\ t[r] = m[r]) \/ (r = key /\ t[r] = value)

\* What emplace and the assignment do.
LEMMA Added ==
  ASSUME NEW d, NEW info, NEW t \in {emplaced(d, info), assigned(d, info)}
  PROVE  OneAdded(t, oid[d].typeInfos, req(d), info)
<1>1. CASE t = emplaced(d, info)
  BY <1>1 DEF emplaced, merge, OneAdded
<1>2. CASE t = assigned(d, info)
  BY <1>2 DEF assigned, assign, OneAdded
<1>. QED  BY <1>1, <1>2

\* It is a type hierarchy of the build and of the type that was asked for, if that
\* is what is added.
LEMMA AddedInfo ==
  ASSUME NEW d, NEW info, NEW t \in {emplaced(d, info), assigned(d, info)},
         RunInfo(oid[d]), InfoOf(oid[d], info, req(d))
  PROVE  req(d) \in DOMAIN t /\ \A r \in DOMAIN t : InfoOf(oid[d], t[r], r)
<1>1. \A r \in DOMAIN oid[d].typeInfos : InfoOf(oid[d], oid[d].typeInfos[r], r)
  BY DEF RunInfo
<1>2. OneAdded(t, oid[d].typeInfos, req(d), info)
  BY Added
<1>. QED  BY <1>1, <1>2 DEF OneAdded

\* It joins the others once the padding information is there too.
LEMMA LoadPaddingInfo ==
  ASSUME SessionInv, InfoInv, NEW d \in Debuggers, loadPadding(d)
  PROVE  InfoInv'
<1>1. oid[d].pc = "padding" /\ UNCHANGED <<env, build, disk>> /\ IsOid(oid[d])
  BY RunAt DEF loadPadding, At
<1>2. RunInfo(oid[d]) /\ oid[d].pc \in AtArgument /\ ArchivesOf'
  BY <1>1, ArchivesKept DEF InfoInv, AtArgument
<1>3. InfoOf(oid[d], oid[d].th, req(d))
  BY <1>1, <1>2, RunNames DEF RunInfo
<1>4. PICK pc \in {"next", "generate"}, t \in {emplaced(d, oid[d].th), oid[d].typeInfos} :
        Become(d, [oid[d] EXCEPT !.pc = pc, !.typeInfos = t, !.th = Null])
  <2>1. CASE load(d, ".pd") # Null
    BY <2>1 DEF loadPadding
  <2>2. CASE load(d, ".pd") = Null
    <3>1. Become(d, [oid[d] EXCEPT !.pc = "generate", !.th = Null])
      BY <2>2 DEF loadPadding
    <3>2. [oid[d] EXCEPT !.pc = "generate", !.th = Null] =
            [oid[d] EXCEPT !.pc = "generate", !.typeInfos = oid[d].typeInfos, !.th = Null]
      BY <1>1, FieldNames DEF IsOid
    <3>. QED  BY <3>1, <3>2
  <2>. QED  BY <2>1, <2>2
<1>. DEFINE o == [oid[d] EXCEPT !.pc = pc, !.typeInfos = t, !.th = Null]
<1>5. /\ o.pc = pc /\ o.typeInfos = t
      /\ Continues(o, oid[d]) /\ SameArgument(o, oid[d])
  BY <1>1, FieldNames DEF IsOid, Continues, SameArgument
<1>6. Become(d, o)
  BY <1>4
<1>. HIDE DEF o
<1>7. \A r \in DOMAIN o.typeInfos : InfoOf(oid[d], o.typeInfos[r], r)
  <2>1. CASE t = oid[d].typeInfos
    BY <1>2, <1>5, <2>1 DEF RunInfo
  <2>2. CASE t = emplaced(d, oid[d].th)
    BY <1>2, <1>3, <1>5, <2>2, AddedInfo
  <2>. QED  BY <1>4, <2>1, <2>2
<1>. QED  BY <1>1, <1>2, <1>5, <1>6, <1>7, StaysInfo

\* Code is generated for the type of the argument.
LEMMA GenerateCodeInfo ==
  ASSUME SessionInv, InfoInv, NEW d \in Debuggers, generateCode(d)
  PROVE  InfoInv'
<1>1. oid[d].pc = "generate" /\ UNCHANGED <<env, build>> /\ IsOid(oid[d])
  BY RunAt DEF generateCode, At
<1>2. RunInfo(oid[d]) /\ oid[d].pc \in AtArgument
  BY <1>1 DEF InfoInv, AtArgument
<1>. DEFINE root == getRootType(Program(d), Drgn(d), descsOf(d), req(d), Attached(d))
            config == oid[d].config.generatorConfig
            info == [build |-> oid[d].build, root |-> root, config |-> config]
<1>3. CASE Exit(d, "CompilationError") /\ UNCHANGED disk
  BY <1>1, <1>3, ExitInfo DEF Exit
<1>4. CASE /\ root # Null /\ write(getPath(d, ".cc"), [source |-> TRUE])
           /\ \E t \in {emplaced(d, info), assigned(d, info)} :
                Become(d, [oid[d] EXCEPT !.pc = "compile", !.typeInfos = t,
                                         !.doCompile = doCompile(d)])
  <2>1. PICK t \in {emplaced(d, info), assigned(d, info)} :
               Become(d, [oid[d] EXCEPT !.pc = "compile", !.typeInfos = t,
                                        !.doCompile = doCompile(d)])
    BY <1>4
  <2>2. root.type = CountedType(Program(d), req(d))
    <3>1. /\ WellFormed(Program(d)) /\ FuncsOf(Program(d), oid[d].funcDescs)
          /\ descsOf(d) = descriptorsFor(req(d), oid[d].funcDescs, oid[d].globalDescs)
      BY InfoAt, RunNames
    <3>2. root = getRootType(Program(d), Drgn(d),
                   descriptorsFor(req(d), oid[d].funcDescs, oid[d].globalDescs),
                   req(d), Attached(d))
      BY <3>1
    <3>. HIDE DEF root
    <3>. QED  BY <1>4, <3>1, <3>2, RootDeclared
  <2>. HIDE DEF root, config
  <2>3. InfoOf(oid[d], info, req(d))
    <3>1. info.build = oid[d].build /\ info.root = root
      OBVIOUS
    <3>. HIDE DEF info
    <3>. QED  BY <2>2, <3>1, RunNames DEF InfoOf
  <2>. HIDE DEF info
  <2>4. req(d) \in DOMAIN t /\ \A r \in DOMAIN t : InfoOf(oid[d], t[r], r)
    BY <1>2, <2>1, <2>3, AddedInfo
  <2>. DEFINE o == [oid[d] EXCEPT !.pc = "compile", !.typeInfos = t,
                                  !.doCompile = doCompile(d)]
  <2>5. /\ o.pc = "compile" /\ o.typeInfos = t
        /\ Continues(o, oid[d]) /\ SameArgument(o, oid[d])
    BY <1>1, FieldNames DEF IsOid, Continues, SameArgument
  <2>6. Become(d, o)
    BY <2>1
  <2>. HIDE DEF o
  <2>7. ArchivesOf'
    <3>1. getPath(d, ".cc")[3] = ".cc"
      BY DEF getPath
    <3>. QED  BY <1>1, <1>4, <3>1, Archived DEF InfoInv
  <2>. QED  BY <1>1, <1>2, <2>4, <2>5, <2>6, <2>7, StaysInfo
<1>. QED  BY <1>3, <1>4 DEF generateCode

\* The object file is no archive.
LEMMA CompileInfo ==
  ASSUME SessionInv, InfoInv, NEW d \in Debuggers, compile(d)
  PROVE  InfoInv'
<1>1. oid[d].pc = "compile" /\ UNCHANGED <<env, build>> /\ IsOid(oid[d])
  BY RunAt DEF compile, At
<1>2. RunInfo(oid[d]) /\ oid[d].pc \in AtArgument
  BY <1>1 DEF InfoInv, AtArgument
<1>. DEFINE o == [oid[d] EXCEPT
                    !.pc = IF isEnabled(d) THEN "store" ELSE "next",
                    !.entity = IF isEnabled(d) THEN DescsExt(d) ELSE "",
                    !.doCompile = FALSE]
<1>3. /\ o.pc \in {"store", "next"} /\ o.typeInfos = oid[d].typeInfos
      /\ Continues(o, oid[d]) /\ SameArgument(o, oid[d])
      /\ o.pc = "store" => o.entity = DescsExt(d)
  BY <1>1, FieldNames DEF IsOid, Continues, SameArgument
<1>4. ASSUME Become(d, o), ArchivesOf'
      PROVE  InfoInv'
  <2>. HIDE DEF o
  <2>1. /\ o.entity = DescsExt(d) =>
             /\ o.entity = ".fd" => req(d).type # "global"
             /\ o.entity = ".gd" => req(d).type = "global"
    BY RunNames DEF DescsExt
  <2>2. req(d) \in DOMAIN o.typeInfos
    BY <1>1, <1>2, <1>3, RunNames DEF RunInfo
  <2>3. \A r \in DOMAIN o.typeInfos : InfoOf(oid[d], o.typeInfos[r], r)
    BY <1>2, <1>3 DEF RunInfo
  <2>. QED  BY <1>1, <1>2, <1>3, <1>4, <2>1, <2>2, <2>3, StaysInfo
<1>5. CASE Become(d, o) /\ UNCHANGED disk
  <2>1. ArchivesOf'
    BY <1>1, <1>5, ArchivesKept DEF InfoInv
  <2>. HIDE DEF o
  <2>. QED  BY <1>4, <1>5, <2>1
<1>6. CASE Become(d, o) /\ \E contents : write(getPath(d, ".o"), contents)
  <2>1. getPath(d, ".o")[3] = ".o"
    BY DEF getPath
  <2>2. ArchivesOf'
    BY <1>1, <1>6, <2>1, Archived DEF InfoInv
  <2>. HIDE DEF o
  <2>. QED  BY <1>4, <1>6, <2>2
<1>7. CASE Fail(d, "CompilationError") /\ UNCHANGED disk
  BY <1>1, <1>7, ExitInfo DEF Fail
<1>. QED  BY <1>5, <1>6, <1>7 DEF compile

\* What follows a store is about the same.
LEMMA AfterStoreInfo ==
  ASSUME SessionInv, InfoInv, NEW d \in Debuggers, oid[d].pc \in {"store", "storing"},
         NEW o, Become(d, o), UNCHANGED <<env, build>>, ArchivesOf',
         \/ oid[d].pc = "store" /\ o = afterStore(d, oid[d].entity)
         \/ o = [afterStore(d, oid[d].entity) EXCEPT
                   !.pc = IF oid[d].entity = ".pd" THEN "next" ELSE "store"]
  PROVE  InfoInv'
<1>1. Continues(o, oid[d]) /\ SameArgument(o, oid[d])
      /\ (o.pc # "next" => o.entity \in {".th", ".pd"})
  BY AfterStore
<1>2. oid[d].entity \in {".fd", ".gd", ".th", ".pd"} /\ IsOid(oid[d])
  BY RunAt DEF FilesThere
<1>3. o.typeInfos = oid[d].typeInfos /\ o.pc \in {"store", "next"}
  <2>1. CASE oid[d].entity \in {".fd", ".gd"}
    BY <1>2, <2>1, FieldNames DEF afterStore, IsOid
  <2>2. CASE oid[d].entity = ".th"
    BY <1>2, <2>2, FieldNames DEF afterStore, IsOid
  <2>3. CASE oid[d].entity = ".pd"
    BY <1>2, <2>3, FieldNames DEF afterStore, IsOid
  <2>. QED  BY <1>2, <2>1, <2>2, <2>3
<1>4. RunInfo(oid[d]) /\ oid[d].pc \in AtArgument
  BY DEF InfoInv, AtArgument
<1>5. req(d) \in DOMAIN o.typeInfos
  BY <1>3, <1>4, RunNames DEF RunInfo
<1>6. \A r \in DOMAIN o.typeInfos : InfoOf(oid[d], o.typeInfos[r], r)
  BY <1>3, <1>4 DEF RunInfo
<1>. QED  BY <1>1, <1>3, <1>4, <1>5, <1>6, StaysInfo

\* An archive that is opened has a build id to be written to it.
LEMMA StoreOpenInfo ==
  ASSUME SessionInv, InfoInv, NEW d \in Debuggers, storeOpen(d)
  PROVE  InfoInv'
<1>1. oid[d].pc = "store" /\ UNCHANGED <<env, build>> /\ IsOid(oid[d])
  BY RunAt DEF storeOpen, At
<1>2. RunInfo(oid[d]) /\ oid[d].pc \in AtArgument
  BY <1>1 DEF InfoInv, AtArgument
<1>3. CASE /\ locateBuildID(Program(d)) # NoBuildId
           /\ write(getPath(d, oid[d].entity), Partial)
           /\ Become(d, [oid[d] EXCEPT !.pc = "storing"])
  <2>. DEFINE o == [oid[d] EXCEPT !.pc = "storing"]
  <2>1. /\ o.pc = "storing" /\ o.typeInfos = oid[d].typeInfos /\ o.entity = oid[d].entity
        /\ Continues(o, oid[d]) /\ SameArgument(o, oid[d])
    BY <1>1, FieldNames DEF IsOid, Continues, SameArgument
  <2>2. Become(d, o)
    BY <1>3
  <2>. HIDE DEF o
  <2>3. ArchivesOf'
    BY <1>1, <1>3, Archived DEF InfoInv
  <2>4. /\ req(d) \in DOMAIN o.typeInfos
        /\ o.entity = ".fd" => req(d).type # "global"
        /\ o.entity = ".gd" => req(d).type = "global"
    BY <1>1, <1>2, <2>1, RunNames DEF RunInfo
  <2>5. \A r \in DOMAIN o.typeInfos : InfoOf(oid[d], o.typeInfos[r], r)
    BY <1>2, <2>1 DEF RunInfo
  <2>. QED  BY <1>1, <1>2, <1>3, <2>1, <2>2, <2>3, <2>4, <2>5, StaysInfo
<1>4. CASE Become(d, afterStore(d, oid[d].entity)) /\ UNCHANGED disk
  <2>1. ArchivesOf'
    BY <1>1, <1>4, ArchivesKept DEF InfoInv
  <2>. QED  BY <1>1, <1>4, <2>1, AfterStoreInfo
<1>. QED  BY <1>3, <1>4 DEF storeOpen

\* What is stored is of the build whose id is stored with it.
LEMMA StoreWriteInfo ==
  ASSUME SessionInv, InfoInv, NEW d \in Debuggers, storeWrite(d)
  PROVE  InfoInv'
<1>1. oid[d].pc = "storing" /\ UNCHANGED <<env, build>>
  BY DEF storeWrite, At
<1>2. /\ RunInfo(oid[d]) /\ ThisBuild(oid[d].build)
      /\ FuncsOf(Program(d), oid[d].funcDescs) /\ GlobalsOf(Program(d), oid[d].globalDescs)
      /\ targetOf(d).typeName = getTypeName(CountedType(Program(d), req(d)))
      /\ IsType(CountedType(Program(d), req(d)))
  BY <1>1, InfoAt DEF AtArgument
<1>3. locateBuildID(Program(d)) # NoBuildId /\ Program(d) = env.programs[oid[d].build]
  BY <1>1, <1>2, RunNames DEF RunInfo, Program
<1>. DEFINE ext == oid[d].entity
            path == getPath(d, ext)
            data == CASE ext \in {".fd", ".gd"} -> descsOf(d)
                      [] ext = ".th" -> oid[d].typeInfos[req(d)]
                      [] ext = ".pd" -> [padding |-> oid[d].build]
            contents == [buildId |-> locateBuildID(Program(d)), data |-> data]
            o == [afterStore(d, ext) EXCEPT !.pc = IF ext = ".pd" THEN "next" ELSE "store"]
<1>4. write(path, contents) /\ Become(d, o)
  BY DEF storeWrite
<1>5. path[3] = ext /\ (ext = ".th" =>
        path[2] = <<targetOf(d).typeName.name, targetOf(d).typeName.ptr>>)
  BY DEF getPath
<1>. HIDE DEF path
<1>6. ArchiveOf(oid[d].build, path, data)
  <2>1. CASE ext \in {".fd", ".gd"}
    <3>1. data = descsOf(d)
      BY <2>1
    <3>2. /\ ext = ".fd" => req(d).type # "global"
          /\ ext = ".gd" => req(d).type = "global"
      BY <1>1, <1>2, RunNames DEF RunInfo
    <3>3. /\ ext = ".fd" => data = oid[d].funcDescs
          /\ ext = ".gd" => data = oid[d].globalDescs
      BY <3>1, <3>2, RunNames DEF descriptorsFor
    <3>. HIDE DEF data, ext
    <3>. QED  BY <1>2, <1>3, <1>5, <2>1, <3>3 DEF ArchiveOf
  <2>2. CASE ext = ".th"
    <3>1. data = oid[d].typeInfos[req(d)]
      BY <2>2
    <3>2. InfoOf(oid[d], data, req(d))
      <4>. HIDE DEF data
      <4>. QED  BY <1>1, <1>2, <3>1, RunNames DEF RunInfo
    <3>3. programOf(oid[d]) = Program(d)
      BY RunNames
    <3>. DEFINE t == CountedType(Program(d), req(d))
                n == targetOf(d).typeName
    <3>4. n = getTypeName(t) /\ IsType(t)
      BY <1>2
    <3>5. path[2][1] = n.name /\ path[2][2] = n.ptr
      BY <1>5, <2>2
    <3>6. data.build = oid[d].build /\ getTypeName(data.root.type) = getTypeName(t)
      BY <3>2, <3>3 DEF InfoOf
    <3>. HIDE DEF t, n, data, ext
    <3>7. getTypeName(t) = [name |-> path[2][1], ptr |-> path[2][2]]
      BY <3>4, <3>5, TypeNames
    <3>. QED  BY <1>5, <2>2, <3>6, <3>7 DEF ArchiveOf
  <2>3. CASE ext \notin {".fd", ".gd", ".th"}
    BY <1>5, <2>3 DEF ArchiveOf
  <2>. QED  BY <2>1, <2>2, <2>3
<1>. HIDE DEF data
<1>7. contents.buildId = locateBuildID(Program(d)) /\ contents.data = data
  OBVIOUS
<1>. HIDE DEF contents
<1>8. oid[d].build \in {1, 2}
  BY <1>2 DEF ThisBuild
<1>9. ArchivesOf'
  BY <1>1, <1>2, <1>3, <1>4, <1>6, <1>7, <1>8, Archived DEF InfoInv
<1>. QED  BY <1>1, <1>4, <1>9, AfterStoreInfo

\* The invariant holds at the start.
LEMMA InfoInit == Init => InfoInv
<1>. SUFFICES ASSUME Init
              PROVE  InfoInv
  OBVIOUS
<1>1. ThisBuild(build) /\ DOMAIN disk = {}
  BY DEF Init, ThisBuild
<1>2. ASSUME NEW d \in Debuggers
      PROVE  RunInfo(oid[d])
  <2>1. oid[d] = Fresh
    BY DEF Init
  <2>2. /\ Fresh.pc = "idle" /\ Fresh.build = 1
        /\ DOMAIN Fresh.funcDescs = {} /\ DOMAIN Fresh.globalDescs = {}
        /\ DOMAIN Fresh.typeInfos = {}
    BY DEF Fresh
  <2>. QED  BY <2>1, <2>2 DEF RunInfo, FuncsOf, GlobalsOf, ThisBuild
<1>. QED  BY <1>1, <1>2 DEF InfoInv, ArchivesOf

\* Every step keeps it.
LEMMA InfoStep == SessionInv /\ InfoInv /\ [Next]_vars => InfoInv'
<1>. SUFFICES ASSUME SessionInv, InfoInv, [Next]_vars
              PROVE  InfoInv'
  OBVIOUS
<1>1. ASSUME env' = env, disk' = disk, oid' = oid, ThisBuild(build')
      PROVE  InfoInv'
  <2>1. ASSUME NEW d \in Debuggers
        PROVE  RunInfo(oid[d])'
    BY <1>1 DEF InfoInv, RunInfo, InfoOf, objectOf, programOf, ThisBuild
  <2>2. ArchivesOf'
    BY <1>1, ArchivesKept DEF InfoInv
  <2>. QED  BY <1>1, <2>1, <2>2 DEF InfoInv, ThisBuild
<1>2. CASE rebuild
  BY <1>1, <1>2 DEF rebuild, ThisBuild
<1>3. ASSUME NEW d \in Debuggers, openFile(d) \/ \E fd \in 0 .. LastFd : closeFile(d, fd)
      PROVE  InfoInv'
  BY <1>1, <1>3 DEF openFile, closeFile, InfoInv, ThisBuild
<1>4. CASE UNCHANGED vars
  BY <1>1, <1>4 DEF vars, InfoInv, ThisBuild
<1>. QED
  BY <1>2, <1>3, <1>4, LoadDescsInfo, CheckCacheInfo, LoadPaddingInfo, GenerateCodeInfo,
     CompileInfo, StoreOpenInfo, StoreWriteInfo, ElsewhereKeeps DEF Next, Restoring

-----------------------------------------------------------------------------
(***************************************************************************)
(* The code in the target: the invariant, which is about the object files  *)
(* a run has counted and about what all the files are named after          *)
(***************************************************************************)

\* The request for argument j of a run, the name of its type, and the object file
\* for that type.
requestAt(o, j) ==
  LET p == o.config.script.reqs[1] IN
  irequest(p.type, p.func, IF p.type = "global" THEN NoArg ELSE p.args[j])
nameAt(o, j) == getTypeName(CountedType(programOf(o), requestAt(o, j)))
objectPath(o, j) ==
  <<o.config.cacheBasePath, <<nameAt(o, j).name, nameAt(o, j).ptr>>, ".o">>
argCountOf(o) ==
  LET p == o.config.script.reqs[1] IN IF p.type = "global" THEN 1 ELSE Len(p.args)

\* Argument j has a type hierarchy and an object file, and it was found.
Compiled(o, j) ==
  LET r == requestAt(o, j)
      fd == createFuncDesc(programOf(o), r.func)
  IN /\ r \in DOMAIN o.typeInfos
     /\ objectPath(o, j) \in o.objectFiles
     /\ IsType(CountedType(programOf(o), r))
     /\ r.type # "global" => fd # Null /\ getArgument(fd, r.arg) # Null

\* The arguments in front of the one at hand have been compiled.
Counted(o) ==
  /\ o.arg \in Nat \ {0} /\ (o.pc \in {"script", "segments"} => o.arg = 1)
  /\ o.pc \in AtArgument \cup {"descs", "next", "link"} => o.arg \in 1 .. argCountOf(o)
  /\ o.pc \in AtArgument \cup {"descs", "next"} => \A j \in 1 .. (o.arg - 1) : Compiled(o, j)
  /\ o.pc = "link" => \A j \in 1 .. argCountOf(o) : Compiled(o, j)
  /\ o.pc \in AtArgument \cup {"next", "link"} =>
       requestOf(o).func \in DOMAIN descriptorsFor(requestOf(o), o.funcDescs, o.globalDescs)
  /\ o.pc = "next" => requestOf(o) \in DOMAIN o.typeInfos /\ objectOf(o) # Null

\* The configuration of a run is that of a command line, and, if a cache directory
\* is used with one configuration, that of all its type hierarchies.
Configs == {Config(options) : options \in env.invocations}
Given(o) ==
  /\ o.pc \notin {"idle", "done"} => o.config \in Configs /\ o.config.status = "Success"
  /\ o.pc \notin {"idle", "script", "done"} => Proceeds(o.config)
OneConfig == oneConfigPerCache(env)
Configured(o) ==
  OneConfig =>
    /\ \A r \in DOMAIN o.typeInfos : o.typeInfos[r].config = o.config.generatorConfig
    /\ o.pc = "padding" => o.th.config = o.config.generatorConfig

\* g is the configuration the directory dir is used with.
ConfigOf(dir, g) ==
  OneConfig =>
    \A c \in Configs : Proceeds(c) /\ c.cacheBasePath = dir => c.generatorConfig = g

\* What SteadyCodeMatches says of a run.
Matches(o) ==
  OneConfig /\ o.image.written =>
    \A i \in 1 .. argCountOf(o) :
      LET info == o.typeInfos[requestAt(o, i)]
          code == o.image.code[o.image.calls[i]]
      IN /\ code.build = info.build /\ code.config = info.config
         /\ code.type = getTypeName(info.root.type)

\* The run uses no cache, and no other run its directory.
Alone(d, o) == o.config.cacheBasePath = "" /\ env.debuggers = {d}

ObjectFiles(o) ==
  /\ IsFiniteSet(o.objectFiles)
  /\ \A p \in o.objectFiles : p[1] = o.config.cacheBasePath /\ p[3] = ".o"
  /\ \A p \in o.objectFiles : \E j \in 1 .. argCountOf(o) : p = objectPath(o, j)

RunCode(d, o) ==
  /\ Given(o) /\ Counted(o) /\ Configured(o) /\ ObjectFiles(o)
  /\ o.pc # "idle" => d \in env.debuggers
  /\ build = 1 => o.build = 1
  /\ o.pc \notin {"probe", "restore", "decode", "upload"} => ~o.image.written
  /\ build = 1 \/ Alone(d, o) => Matches(o)

\* Without a cache the object files are the run's own.
OwnFiles(d, o, files) ==
  Alone(d, o) =>
    /\ o.pc \notin {"padding", "store", "storing"}
    /\ o.pc = "compile" => o.doCompile
    /\ \A p \in o.objectFiles : files[p].build = o.build
    /\ o.pc = "next" => files[objectPath(o, o.arg)].build = o.build

\* An object file is of the type its name says, and it and a type hierarchy are of
\* the configuration of their directory.
FileCode(p, contents) ==
  /\ p[3] = ".o" =>
       /\ contents.type = [name |-> p[2][1], ptr |-> p[2][2]]
       /\ ConfigOf(p[1], contents.config)
       /\ build = 1 => contents.build = 1
  /\ p[3] = ".th" /\ contents # Partial => ConfigOf(p[1], contents.data.config)
FilesCode == \A p \in DOMAIN disk : FileCode(p, disk[p])

CodeInv ==
  /\ FilesCode
  /\ \A d \in Debuggers : RunCode(d, oid[d]) /\ OwnFiles(d, oid[d], disk)

-----------------------------------------------------------------------------
(***************************************************************************)
(* The code in the target: the steps                                       *)
(***************************************************************************)

\* The actions' words for the requests and the number of arguments.
LEMMA RequestNames ==
  ASSUME NEW d, NEW j
  PROVE  /\ requestOf(oid[d]) = requestAt(oid[d], oid[d].arg)
         /\ getReqForArg(d, j) = requestAt(oid[d], j) /\ argCount(d) = argCountOf(oid[d])
         /\ requestAt(oid[d], j).type = preq(d).type
         /\ requestAt(oid[d], j).func = preq(d).func
         /\ preq(d).type = "global" => requestAt(oid[d], j) = requestOf(oid[d])
BY DEF requestOf, requestAt, getReqForArg, argCount, argCountOf, preq, irequest

\* What is compiled stays so while type hierarchies are added.
LEMMA CompiledKept ==
  ASSUME NEW o, NEW p, o.config = p.config, o.build = p.build, NEW j, Compiled(p, j),
         p.objectFiles \subseteq o.objectFiles, DOMAIN p.typeInfos \subseteq DOMAIN o.typeInfos
  PROVE  Compiled(o, j)
<1>1. requestAt(o, j) = requestAt(p, j) /\ programOf(o) = programOf(p)
  BY DEF requestAt, programOf
<1>2. objectPath(o, j) = objectPath(p, j)
  BY <1>1 DEF objectPath, nameAt
<1>. QED  BY <1>1, <1>2 DEF Compiled

\* A run keeps its object files.
LEMMA ObjectFilesKept ==
  ASSUME NEW o, NEW p, o.config = p.config, o.build = p.build, ObjectFiles(p),
         o.objectFiles = p.objectFiles
  PROVE  ObjectFiles(o)
<1>1. argCountOf(o) = argCountOf(p) /\ \A j : objectPath(o, j) = objectPath(p, j)
  BY DEF objectPath, nameAt, requestAt, programOf, argCountOf
<1>. QED  BY <1>1 DEF ObjectFiles

\* The object file of the argument at hand.
LEMMA ObjectPathAt ==
  ASSUME SessionInv, InfoInv, NEW d \in Debuggers, objectOf(oid[d]) # Null
  PROVE  /\ getPath(d, ".o") = objectPath(oid[d], oid[d].arg)
         /\ targetOf(d).typeName = nameAt(oid[d], oid[d].arg)
         /\ nameAt(oid[d], oid[d].arg) = [name |-> targetOf(d).typeName.name,
                                          ptr |-> targetOf(d).typeName.ptr]
         /\ IsType(CountedType(Program(d), req(d)))
<1>1. targetOf(d) = TargetObject(Program(d), Drgn(d),
                      descriptorsFor(req(d), oid[d].funcDescs, oid[d].globalDescs),
                      req(d), Attached(d)) /\ targetOf(d) # Null
  BY RunNames
<1>2. /\ WellFormed(Program(d)) /\ FuncsOf(Program(d), oid[d].funcDescs)
      /\ GlobalsOf(Program(d), oid[d].globalDescs)
  BY InfoAt
<1>. DEFINE t == CountedType(Program(d), req(d))
<1>3. targetOf(d).typeName = getTypeName(t) /\ IsType(t)
  BY <1>1, <1>2, ObjectDeclared
<1>4. nameAt(oid[d], oid[d].arg) = getTypeName(t)
  BY RequestNames, RunNames DEF nameAt
<1>5. getTypeName(t) = [name |-> getTypeName(t).name, ptr |-> getTypeName(t).ptr]
  BY <1>3, TypeNames
<1>. HIDE DEF t
<1>. QED  BY <1>3, <1>4, <1>5 DEF getPath, objectPath, t

\* What a run without files and hierarchies has to show.
LEMMA NothingYet ==
  ASSUME NEW d, NEW o, NEW files, o.pc \in {"idle", "script", "done"}, o.arg = 1,
         o.typeInfos = <<>>, o.objectFiles = {}, ~o.image.written,
         o.pc # "idle" => d \in env.debuggers, build = 1 => o.build = 1, Given(o)
  PROVE  RunCode(d, o) /\ OwnFiles(d, o, files)
<1>1. DOMAIN o.typeInfos = {} /\ IsFiniteSet({})
  BY FS_EmptySet
<1>2. Counted(o)
  BY DEF Counted, AtArgument
<1>3. Configured(o) /\ ObjectFiles(o)
  BY <1>1 DEF Configured, ObjectFiles
<1>4. Matches(o)
  BY DEF Matches
<1>. QED  BY <1>2, <1>3, <1>4 DEF RunCode, OwnFiles

\* What is left to show for a step of one debugger.
LEMMA CodeStepOf ==
  ASSUME SessionInv, CodeInv, NEW d \in Debuggers, NEW o, Become(d, o), env' = env,
         build' = build, FilesCode', d \in env.debuggers, RunCode(d, o), OwnFiles(d, o, disk')
  PROVE  CodeInv'
<1>1. oid'[d] = o /\ \A e \in Debuggers \ {d} : oid'[e] = oid[e]
  BY DEF SessionInv, Become
<1>2. ASSUME NEW e \in Debuggers
      PROVE  RunCode(e, oid[e])' /\ OwnFiles(e, oid[e], disk)'
  <2>1. RunCode(e, oid'[e])
    BY <1>1 DEF CodeInv
  <2>2. OwnFiles(e, oid'[e], disk')
    <3>1. CASE e = d
      BY <1>1, <3>1
    <3>2. CASE e # d
      BY <3>2 DEF OwnFiles, Alone
    <3>. QED  BY <3>1, <3>2
  <2>. DEFINE p == oid'[e]
  <2>3. /\ Given(p) <=> Given(oid[e])'
        /\ Matches(p) <=> Matches(oid[e])'
        /\ Configured(p) <=> Configured(oid[e])'
        /\ ObjectFiles(p) <=> ObjectFiles(oid[e])'
        /\ Alone(e, p) <=> Alone(e, oid[e])'
    BY DEF Given, Configs, Matches, Configured, ObjectFiles, Alone, requestAt, argCountOf,
           Proceeds, OneConfig, objectPath, nameAt, programOf
  <2>4. Counted(p) <=> Counted(oid[e])'
    BY DEF Counted, Compiled, requestAt, objectPath, nameAt, requestOf, objectOf,
           programOf, argCountOf, descriptorsFor
  <2>5. objectPath(p, p.arg) = objectPath(oid[e], oid[e].arg)'
    BY DEF objectPath, nameAt, programOf, requestAt
  <2>6. RunCode(e, oid[e])'
    BY <2>1, <2>3, <2>4 DEF RunCode
  <2>7. OwnFiles(e, oid[e], disk)'
    BY <2>2, <2>3, <2>5 DEF OwnFiles
  <2>. QED  BY <2>6, <2>7
<1>. QED  BY <1>2 DEF CodeInv

\* The files stay as they are,
LEMMA FilesCodeKept ==
  ASSUME FilesCode, env' = env, build' = build, disk' = disk
  PROVE  FilesCode'
BY DEF FilesCode, FileCode, ConfigOf, Configs, Proceeds, OneConfig

\* or one is written that is as it should be.
LEMMA FileCodeWritten ==
  ASSUME FilesCode, env' = env, build' = build, NEW path, NEW contents,
         write(path, contents), FileCode(path, contents)
  PROVE  /\ FilesCode' /\ path \in DOMAIN disk' /\ disk'[path] = contents
         /\ \A p \in DOMAIN disk : p # path => disk'[p] = disk[p]
<1>1. /\ DOMAIN disk' = DOMAIN disk \cup {path}
      /\ \A p \in DOMAIN disk' : disk'[p] = IF p = path THEN contents ELSE disk[p]
  BY DEF write, assign
<1>2. \A p \in DOMAIN disk' : FileCode(p, disk'[p])
  BY <1>1 DEF FilesCode
<1>3. FilesCode'
  BY <1>2 DEF FilesCode, FileCode, ConfigOf, Configs, Proceeds, OneConfig
<1>. QED  BY <1>1, <1>3

\* The configuration of a run is that of its directory.
LEMMA OwnConfig ==
  ASSUME SessionInv, argumentsListed(env), NEW o, Given(o),
         o.pc \notin {"idle", "script", "done"}
  PROVE  /\ ConfigOf(o.config.cacheBasePath, o.config.generatorConfig)
         /\ \A g : OneConfig /\ ConfigOf(o.config.cacheBasePath, g)
                    => g = o.config.generatorConfig
         /\ argCountOf(o) \in Nat \ {0}
<1>1. o.config \in Configs /\ Proceeds(o.config)
  BY DEF Given
<1>2. ASSUME OneConfig, NEW c \in Configs, Proceeds(c),
             c.cacheBasePath = o.config.cacheBasePath
      PROVE  c.generatorConfig = o.config.generatorConfig
  BY <1>1, <1>2 DEF OneConfig, oneConfigPerCache, proceeding, Configs
<1>3. LET p == o.config.script.reqs[1] IN
      Len(p.args) \in Nat /\ (p.type # "global" => Len(p.args) > 0)
  BY <1>1 DEF argumentsListed, proceeding, Configs
<1>. QED  BY <1>1, <1>2, <1>3 DEF ConfigOf, argCountOf

\* A run ends.
LEMMA CodeEnds ==
  ASSUME SessionInv, CodeInv, NEW d \in Debuggers, NEW status, NEW o, Become(d, o),
         o \in {Fresh, Exited(d, status), [Exited(d, status) EXCEPT !.fault = TRUE],
                [Exited(d, status) EXCEPT !.image.fatal = TRUE]},
         oid[d].pc # "idle", UNCHANGED <<env, build, disk>>
  PROVE  CodeInv'
<1>. DEFINE Empty(p) == /\ IsOid(p) /\ p.pc \in {"idle", "done"} /\ p.arg = 1
                        /\ p.build \in {1, oid[d].build} /\ p.typeInfos = <<>>
                        /\ p.objectFiles = {} /\ ~p.image.written
<1>1. Empty(Fresh)
  BY DEF Fresh, IsOid, Fields, NoImage
<1>2. Empty(Exited(d, status))
  BY <1>1, FieldNames DEF Exited, IsOid
<1>3. Empty([Exited(d, status) EXCEPT !.fault = TRUE])
  BY <1>2, FieldNames DEF IsOid
<1>4. Empty([Exited(d, status) EXCEPT !.image.fatal = TRUE])
  <2>. DEFINE q == Exited(d, status)
              p == [q EXCEPT !.image.fatal = TRUE]
  <2>1. q.image = NoImage
    BY FieldNames DEF Exited, Fresh
  <2>2. p.image = [NoImage EXCEPT !.fatal = TRUE]
    BY <1>2, <2>1, FieldNames DEF IsOid
  <2>3. ~p.image.written
    BY <2>2 DEF NoImage
  <2>4. /\ IsOid(p) /\ p.pc = q.pc /\ p.arg = q.arg /\ p.build = q.build
        /\ p.typeInfos = q.typeInfos /\ p.objectFiles = q.objectFiles
    BY <1>2, FieldNames DEF IsOid
  <2>. QED  BY <1>2, <2>3, <2>4
<1>5. Empty(o)
  BY <1>1, <1>2, <1>3, <1>4
<1>6. RunCode(d, oid[d])
  BY DEF CodeInv
<1>7. d \in env.debuggers /\ Given(o) /\ (build = 1 => o.build = 1)
  BY <1>5, <1>6 DEF RunCode, Given
<1>8. RunCode(d, o) /\ OwnFiles(d, o, disk')
  BY <1>5, <1>7, NothingYet
<1>. QED  BY <1>7, <1>8, FilesCodeKept, CodeStepOf DEF CodeInv

\* A run goes on without another argument.
LEMMA CodeGoesOn ==
  ASSUME SessionInv, CodeInv, argumentsListed(env), NEW d \in Debuggers, NEW o, Become(d, o),
         UNCHANGED <<env, build, disk>>, o.build = oid[d].build, o.config = oid[d].config,
         SameArgument(o, oid[d]), o.typeInfos = oid[d].typeInfos, o.image = oid[d].image,
         \/ /\ oid[d].pc \in {"script", "segments"} /\ o.pc \in {"segments", "descs"}
            /\ Proceeds(oid[d].config)
         \/ /\ oid[d].pc \in {"probe", "restore", "decode"}
            /\ o.pc \in {"restore", "decode", "upload"}
  PROVE  CodeInv'
<1>1. RunCode(d, oid[d]) /\ OwnFiles(d, oid[d], disk)
  BY DEF CodeInv
<1>2. /\ o.build = oid[d].build /\ o.config = oid[d].config /\ o.arg = oid[d].arg
      /\ o.objectFiles = oid[d].objectFiles
  BY DEF SameArgument
<1>3. Given(o) /\ d \in env.debuggers
  BY <1>1, <1>2 DEF RunCode, Given
<1>4. Counted(o)
  <2>1. oid[d].arg \in Nat \ {0} /\ (oid[d].pc \in {"script", "segments"} => o.arg = 1)
    BY <1>1, <1>2 DEF RunCode, Counted
  <2>2. o.pc = "descs" => 1 .. (o.arg - 1) = {}
    BY <2>1
  <2>3. o.pc = "descs" => o.arg \in 1 .. argCountOf(o)
    BY <1>3, <2>1, OwnConfig
  <2>. QED  BY <1>2, <2>1, <2>2, <2>3 DEF Counted, AtArgument
<1>5. Configured(o) /\ ObjectFiles(o)
  BY <1>1, <1>2, ObjectFilesKept DEF RunCode, Configured
<1>6. build = 1 \/ Alone(d, o) => Matches(o)
  <2>1. Alone(d, o) <=> Alone(d, oid[d])
    BY <1>2 DEF Alone
  <2>2. Matches(oid[d]) => Matches(o)
    <3>1. /\ \A i : requestAt(o, i) = requestAt(oid[d], i)
          /\ argCountOf(o) = argCountOf(oid[d])
      BY <1>2 DEF requestAt, argCountOf
    <3>. QED  BY <3>1 DEF Matches
  <2>. QED  BY <1>1, <2>1, <2>2 DEF RunCode
<1>7. RunCode(d, o)
  BY <1>1, <1>2, <1>3, <1>4, <1>5, <1>6 DEF RunCode
<1>8. OwnFiles(d, o, disk')
  BY <1>1, <1>2 DEF OwnFiles, Alone
<1>. QED  BY <1>3, <1>7, <1>8, FilesCodeKept, CodeStepOf DEF CodeInv

\* The steps that compile nothing.
LEMMA ElsewhereCode ==
  ASSUME SessionInv, CodeInv, argumentsListed(env), NEW d \in Debuggers,
         \/ \E options \in env.invocations : main(d, options)
         \/ runScript(d) \/ setupLogFile(d)
         \/ \E interrupted \in BOOLEAN : probe(d, interrupted)
         \/ Restoring(d) \/ processTargetData(d) \/ uploadCache(d) \/ kill(d)
  PROVE  CodeInv'
<1>0. IsOid(oid[d]) /\ RunCode(d, oid[d])
  BY RunAt DEF CodeInv
<1>e. ASSUME NEW status, Exit(d, status) \/ Fail(d, status), oid[d].pc # "idle",
             UNCHANGED <<env, build, disk>>
      PROVE  CodeInv'
  BY <1>e, CodeEnds DEF Exit, Fail
<1>p. ASSUME NEW pc, Become(d, [oid[d] EXCEPT !.pc = pc]), UNCHANGED <<env, build, disk>>,
             \/ /\ oid[d].pc \in {"script", "segments"} /\ pc \in {"segments", "descs"}
                /\ Proceeds(oid[d].config)
             \/ /\ oid[d].pc \in {"probe", "restore", "decode"}
                /\ pc \in {"restore", "decode", "upload"}
      PROVE  CodeInv'
  <2>. DEFINE o == [oid[d] EXCEPT !.pc = pc]
  <2>1. /\ o.pc = pc /\ o.build = oid[d].build /\ o.config = oid[d].config
        /\ SameArgument(o, oid[d])
        /\ o.typeInfos = oid[d].typeInfos /\ o.image = oid[d].image
    BY <1>0, FieldNames DEF IsOid, SameArgument
  <2>2. Become(d, o)
    BY <1>p
  <2>. HIDE DEF o
  <2>. QED  BY <1>p, <2>1, <2>2, CodeGoesOn
<1>1. ASSUME NEW options \in env.invocations, main(d, options)
      PROVE  CodeInv'
  <2>. DEFINE c == Config(options)
              st == IF c.status = "Help" THEN "Success" ELSE c.status
              pc == IF c.status = "Success" THEN "script" ELSE "done"
              o == [Fresh EXCEPT !.config = c, !.build = build, !.status = st, !.pc = pc]
  <2>1. /\ Become(d, o) /\ UNCHANGED <<env, build, disk>> /\ pc \in {"script", "done"}
        /\ d \in env.debuggers /\ (pc = "script" => c.status = "Success")
    BY <1>1 DEF main
  <2>2. c \in Configs
    BY DEF Configs
  <2>. HIDE DEF c, st, pc
  <2>3. /\ o.pc = pc /\ o.build = build /\ o.config = c /\ o.arg = 1
        /\ o.typeInfos = <<>> /\ o.objectFiles = {} /\ ~o.image.written
    BY DEF Fresh, NoImage
  <2>. HIDE DEF o
  <2>4. Given(o)
    BY <2>1, <2>2, <2>3 DEF Given
  <2>5. RunCode(d, o) /\ OwnFiles(d, o, disk')
    BY <2>1, <2>3, <2>4, NothingYet
  <2>. QED  BY <2>1, <2>5, FilesCodeKept, CodeStepOf DEF CodeInv
<1>2. CASE runScript(d)
  <2>1. UNCHANGED <<env, build, disk>> /\ oid[d].pc = "script"
    BY <1>2 DEF runScript, At
  <2>2. oid[d].config.status = "Success"
    BY <1>0, <2>1 DEF RunCode, Given
  <2>3. \/ \E status : Exit(d, status)
        \/ /\ Proceeds(oid[d].config)
           /\ \E pc \in {"segments", "descs"} : Become(d, [oid[d] EXCEPT !.pc = pc])
    <3>. DEFINE pc == IF Attached(d) THEN "segments" ELSE "descs"
    <3>1. pc \in {"segments", "descs"}
      OBVIOUS
    <3>2. (\E status : Exit(d, status)) \/
          /\ oid[d].config.script.reqs # <<>> /\ ~(Len(oid[d].config.script.reqs) > 1)
          /\ Become(d, [oid[d] EXCEPT !.pc = pc])
      BY <1>2 DEF runScript
    <3>. HIDE DEF pc
    <3>. QED  BY <2>2, <3>1, <3>2 DEF Proceeds
  <2>. QED  BY <1>e, <1>p, <2>1, <2>3
<1>3. CASE setupLogFile(d)
  <2>1. UNCHANGED <<env, build, disk>> /\ oid[d].pc = "segments"
    BY <1>3 DEF setupLogFile, At
  <2>2. Proceeds(oid[d].config)
    BY <1>0, <2>1 DEF RunCode, Given
  <2>3. \/ Fail(d, "SegmentInitError") \/ Become(d, [oid[d] EXCEPT !.pc = "descs"])
        \/ \E fd : Become(d, [oid[d] EXCEPT !.pc = "descs", !.logFd = fd])
    BY <1>3 DEF setupLogFile
  <2>4. ASSUME NEW fd, Become(d, [oid[d] EXCEPT !.pc = "descs", !.logFd = fd])
        PROVE  CodeInv'
    <3>. DEFINE o == [oid[d] EXCEPT !.pc = "descs", !.logFd = fd]
    <3>1. /\ o.pc = "descs" /\ SameArgument(o, oid[d]) /\ IsOid(o)
          /\ o.build = oid[d].build /\ o.config = oid[d].config
          /\ o.typeInfos = oid[d].typeInfos /\ o.image = oid[d].image
      BY <1>0, FieldNames DEF IsOid, SameArgument
    <3>2. Become(d, o)
      BY <2>4
    <3>. HIDE DEF o
    <3>. QED  BY <2>1, <2>2, <3>1, <3>2, CodeGoesOn
  <2>. QED  BY <1>e, <1>p, <2>1, <2>2, <2>3, <2>4
<1>6. ASSUME NEW interrupted, probe(d, interrupted)
      PROVE  CodeInv'
  <2>1. PICK threads : Become(d, [oid[d] EXCEPT !.pc = "restore", !.threads = threads,
                                                !.stops = AllRun, !.interrupted = interrupted])
    BY <1>6 DEF probe
  <2>. DEFINE o == [oid[d] EXCEPT !.pc = "restore", !.threads = threads,
                                  !.stops = AllRun, !.interrupted = interrupted]
  <2>2. /\ o.pc = "restore" /\ o.build = oid[d].build /\ o.config = oid[d].config
        /\ SameArgument(o, oid[d])
        /\ o.typeInfos = oid[d].typeInfos /\ o.image = oid[d].image
    BY <1>0, FieldNames DEF IsOid, SameArgument
  <2>3. Become(d, o) /\ UNCHANGED <<env, build, disk>> /\ oid[d].pc = "probe"
    BY <1>6, <2>1 DEF probe, At
  <2>. HIDE DEF o
  <2>. QED  BY <2>2, <2>3, CodeGoesOn
<1>7. CASE Restoring(d)
  <2>1. UNCHANGED <<env, build, disk>> /\ oid[d].pc = "restore"
    BY <1>7, RestoreSteps
  <2>2. ASSUME NEW pc \in {"upload", "decode"}, Become(d, [oid[d] EXCEPT !.pc = pc])
        PROVE  CodeInv'
    BY <1>p, <2>1, <2>2
  <2>3. ASSUME NEW threads, NEW stops,
               Become(d, [oid[d] EXCEPT !.threads = threads, !.stops = stops])
        PROVE  CodeInv'
    <3>. DEFINE o == [oid[d] EXCEPT !.threads = threads, !.stops = stops]
    <3>1. /\ o.pc = "restore" /\ o.build = oid[d].build /\ o.config = oid[d].config
          /\ SameArgument(o, oid[d])
          /\ o.typeInfos = oid[d].typeInfos /\ o.image = oid[d].image
      BY <1>0, <2>1, FieldNames DEF IsOid, SameArgument
    <3>2. Become(d, o)
      BY <2>3
    <3>. HIDE DEF o
    <3>. QED  BY <2>1, <3>1, <3>2, CodeGoesOn
  <2>. QED  BY <1>7, <2>2, <2>3, RestoreSteps
<1>8. CASE processTargetData(d) \/ uploadCache(d)
  <2>1. UNCHANGED <<env, build, disk>> /\ oid[d].pc \in {"decode", "upload"}
    BY <1>8 DEF processTargetData, uploadCache, At
  <2>2. \/ \E status : Exit(d, status) \/ Fail(d, status)
        \/ oid[d].pc = "decode" /\ Become(d, [oid[d] EXCEPT !.pc = "upload"])
    BY <1>8 DEF processTargetData, uploadCache, At
  <2>. QED  BY <1>e, <1>p, <2>1, <2>2
<1>9. CASE kill(d)
  <2>1. Become(d, Fresh) /\ oid[d].pc # "idle" /\ UNCHANGED <<env, build, disk>>
    BY <1>9 DEF kill
  <2>. QED  BY <2>1, CodeEnds
<1>. QED  BY <1>1, <1>2, <1>3, <1>6, <1>7, <1>8, <1>9

\* The files of an argument, where it is at hand.
LEMMA CodeAt ==
  ASSUME SessionInv, InfoInv, CodeInv, NEW d \in Debuggers, oid[d].pc \in AtArgument
  PROVE  /\ RunCode(d, oid[d]) /\ OwnFiles(d, oid[d], disk) /\ d \in env.debuggers
         /\ Given(oid[d]) /\ Configured(oid[d])
         /\ objectOf(oid[d]) # Null
         /\ oid[d].objectFiles \subseteq DOMAIN disk
         /\ \A p \in oid[d].objectFiles : p[3] = ".o"
<1>1. RunCode(d, oid[d]) /\ OwnFiles(d, oid[d], disk) /\ RunInfo(oid[d])
  BY DEF CodeInv, InfoInv
<1>2. objectOf(oid[d]) # Null
  BY <1>1 DEF RunInfo, AtArgument
<1>3. oid[d].objectFiles \subseteq DOMAIN disk
  BY RunAt DEF FilesThere
<1>. QED  BY <1>1, <1>2, <1>3 DEF RunCode, ObjectFiles, AtArgument

\* A step that stays at the argument: what is left to show.
LEMMA StaysCode ==
  ASSUME SessionInv, InfoInv, CodeInv, NEW d \in Debuggers, oid[d].pc \in AtArgument,
         NEW o, Become(d, o), env' = env, build' = build, FilesCode',
         o.pc \in AtArgument \cup {"next"}, Continues(o, oid[d]), SameArgument(o, oid[d]),
         o.image = oid[d].image, DOMAIN oid[d].typeInfos \subseteq DOMAIN o.typeInfos,
         Configured(o), o.pc = "next" => req(d) \in DOMAIN o.typeInfos,
         Alone(d, oid[d]) =>
           /\ o.pc \notin {"padding", "store", "storing"}
           /\ o.pc = "compile" => o.doCompile
           /\ \A p \in oid[d].objectFiles : disk'[p].build = oid[d].build
           /\ o.pc = "next" => disk'[getPath(d, ".o")].build = oid[d].build
  PROVE  CodeInv'
<1>1. RunCode(d, oid[d]) /\ d \in env.debuggers /\ objectOf(oid[d]) # Null
  BY CodeAt
<1>2. /\ o.build = oid[d].build /\ o.config = oid[d].config /\ o.arg = oid[d].arg
      /\ o.objectFiles = oid[d].objectFiles /\ o.funcDescs = oid[d].funcDescs
      /\ o.globalDescs = oid[d].globalDescs
  BY DEF Continues, SameArgument
<1>3. requestOf(o) = req(d) /\ objectOf(o) = objectOf(oid[d]) /\ requestOf(oid[d]) = req(d)
  BY <1>2, SameObject, RunNames
<1>4. Given(o)
  BY <1>1, <1>2 DEF RunCode, Given, AtArgument
<1>5. Counted(o)
  <2>1. /\ oid[d].arg \in Nat \ {0} /\ oid[d].arg \in 1 .. argCountOf(oid[d])
        /\ \A j \in 1 .. (oid[d].arg - 1) : Compiled(oid[d], j)
        /\ requestOf(oid[d]).func \in
             DOMAIN descriptorsFor(requestOf(oid[d]), oid[d].funcDescs, oid[d].globalDescs)
    BY <1>1 DEF RunCode, Counted
  <2>2. ASSUME NEW j \in 1 .. (o.arg - 1)
        PROVE  Compiled(o, j)
    BY <1>2, <2>1, CompiledKept
  <2>3. argCountOf(o) = argCountOf(oid[d])
    BY <1>2 DEF argCountOf
  <2>. QED  BY <1>1, <1>2, <1>3, <2>1, <2>2, <2>3 DEF Counted, AtArgument
<1>6. ObjectFiles(o)
  BY <1>1, <1>2, ObjectFilesKept DEF RunCode
<1>7. ~o.image.written
  BY <1>1 DEF RunCode, AtArgument
<1>8. RunCode(d, o)
  BY <1>1, <1>2, <1>4, <1>5, <1>6, <1>7 DEF RunCode, Matches
<1>9. OwnFiles(d, o, disk')
  <2>1. getPath(d, ".o") = objectPath(oid[d], oid[d].arg)
    BY <1>1, ObjectPathAt
  <2>2. objectPath(oid[d], oid[d].arg) = objectPath(o, o.arg)
    BY <1>2 DEF objectPath, nameAt, programOf, requestAt
  <2>3. Alone(d, o) <=> Alone(d, oid[d])
    BY <1>2 DEF Alone
  <2>. QED  BY <1>2, <2>1, <2>2, <2>3 DEF OwnFiles
<1>. QED  BY <1>1, <1>8, <1>9, CodeStepOf

\* The arguments that were compiled are not forgotten when the descriptors of the
\* next one are found, and it has one.
LEMMA LoadDescsCode ==
  ASSUME SessionInv, InfoInv, CodeInv, NEW d \in Debuggers, loadDescs(d)
  PROVE  CodeInv'
<1>1. oid[d].pc = "descs" /\ UNCHANGED <<env, build, disk>> /\ IsOid(oid[d])
  BY RunAt DEF loadDescs, At
<1>2. RunCode(d, oid[d]) /\ OwnFiles(d, oid[d], disk)
  BY DEF CodeInv
<1>3. CASE Exit(d, "CompilationError")
  BY <1>1, <1>3, CodeEnds DEF Exit
<1>4. CASE ~Exit(d, "CompilationError")
  <2>. DEFINE global == preq(d).type = "global"
              found == load(d, DescsExt(d))
              descs == IF found = Null THEN descsOf(d) ELSE merge(descsOf(d), found)
              target == TargetObject(Program(d), Drgn(d), descs, req(d), Attached(d))
              desc == IF global THEN target
                      ELSE findFuncDesc(Program(d), Drgn(d), descs, preq(d).func)
              all == assign(descs, preq(d).func, desc)
              F == IF global THEN oid[d].funcDescs ELSE all
              G == IF global THEN all ELSE oid[d].globalDescs
              o == [oid[d] EXCEPT !.pc = "check", !.funcDescs = F, !.globalDescs = G]
  <2>1. Become(d, o)
    BY <1>4 DEF loadDescs, Describe
  <2>2. preq(d).func \in DOMAIN all
    BY DEF assign
  <2>. HIDE DEF all
  <2>3. global => G = all
    OBVIOUS
  <2>4. ~global => F = all
    OBVIOUS
  <2>. HIDE DEF F, G
  <2>5. /\ o.pc = "check" /\ o.funcDescs = F /\ o.globalDescs = G /\ o.build = oid[d].build
        /\ o.config = oid[d].config /\ o.arg = oid[d].arg /\ o.typeInfos = oid[d].typeInfos
        /\ o.objectFiles = oid[d].objectFiles /\ o.image = oid[d].image
    <3>1. o.pc = "check" /\ o.funcDescs = F /\ o.globalDescs = G
      BY <1>1, FieldNames DEF IsOid
    <3>2. \A x \in Fields \ {"pc", "funcDescs", "globalDescs"} : o[x] = oid[d][x]
      BY <1>1 DEF IsOid
    <3>3. {"build", "config", "arg", "typeInfos", "objectFiles", "image"} \subseteq
            Fields \ {"pc", "funcDescs", "globalDescs"}
      BY FieldNames
    <3>. HIDE DEF o
    <3>. QED  BY <3>1, <3>2, <3>3
  <2>. HIDE DEF o
  <2>6. requestOf(o) = req(d) /\ req(d).func = preq(d).func /\ (req(d).type = "global" <=> global)
    BY <2>5, RunNames DEF requestOf
  <2>7. Counted(o)
    <3>1. /\ oid[d].arg \in Nat \ {0} /\ oid[d].arg \in 1 .. argCountOf(oid[d])
          /\ \A j \in 1 .. (oid[d].arg - 1) : Compiled(oid[d], j)
      BY <1>1, <1>2 DEF RunCode, Counted
    <3>2. ASSUME NEW j \in 1 .. (o.arg - 1)
          PROVE  Compiled(o, j)
      BY <2>5, <3>1, CompiledKept
    <3>3. requestOf(o).func \in DOMAIN descriptorsFor(requestOf(o), o.funcDescs, o.globalDescs)
      <4>. HIDE DEF global
      <4>. QED  BY <2>2, <2>3, <2>4, <2>5, <2>6 DEF descriptorsFor
    <3>4. argCountOf(o) = argCountOf(oid[d])
      BY <2>5 DEF argCountOf
    <3>. QED  BY <2>5, <3>1, <3>2, <3>3, <3>4 DEF Counted
  <2>8. Given(o) /\ Configured(o) /\ ObjectFiles(o) /\ ~o.image.written /\ d \in env.debuggers
    BY <1>1, <1>2, <2>5, ObjectFilesKept DEF RunCode, Given, Configured
  <2>9. RunCode(d, o)
    BY <1>2, <2>5, <2>7, <2>8 DEF RunCode, Matches
  <2>10. OwnFiles(d, o, disk')
    BY <1>1, <1>2, <2>5 DEF OwnFiles, Alone
  <2>. QED  BY <1>1, <2>1, <2>8, <2>9, <2>10, FilesCodeKept, CodeStepOf DEF CodeInv
<1>. QED  BY <1>3, <1>4

\* What is loaded was made with the configuration of the run.
LEMMA CheckCacheCode ==
  ASSUME SessionInv, InfoInv, CodeInv, argumentsListed(env),
         NEW d \in Debuggers,
         checkCache(d)
  PROVE  CodeInv'
<1>1. oid[d].pc = "check" /\ UNCHANGED <<env, build, disk>> /\ IsOid(oid[d])
  BY RunAt DEF checkCache, At
<1>2. /\ oid[d].pc \in AtArgument /\ FilesCode'
      /\ OwnFiles(d, oid[d], disk) /\ Given(oid[d]) /\ Configured(oid[d])
  BY <1>1, CodeAt, FilesCodeKept DEF CodeInv, AtArgument
<1>3. \A p \in oid[d].objectFiles : Alone(d, oid[d]) => disk'[p].build = oid[d].build
  BY <1>1, <1>2 DEF OwnFiles
<1>. DEFINE th == load(d, ".th")
<1>4. CASE th # Null /\ Become(d, [oid[d] EXCEPT !.pc = "padding", !.th = th])
  <2>. DEFINE o == [oid[d] EXCEPT !.pc = "padding", !.th = th]
              path == getPath(d, ".th")
  <2>1. /\ isEnabled(d) /\ path \in DOMAIN disk /\ disk[path] # Partial
        /\ th = disk[path].data
    BY <1>4 DEF load, exists
  <2>2. path[1] = oid[d].config.cacheBasePath /\ path[3] = ".th"
    BY DEF getPath
  <2>. HIDE DEF th, path
  <2>3. ConfigOf(oid[d].config.cacheBasePath, th.config)
    BY <2>1, <2>2 DEF CodeInv, FilesCode, FileCode
  <2>4. OneConfig => th.config = oid[d].config.generatorConfig
    BY <1>1, <1>2, <2>3, OwnConfig
  <2>5. /\ o.pc = "padding" /\ o.th = th /\ o.typeInfos = oid[d].typeInfos
        /\ Continues(o, oid[d]) /\ SameArgument(o, oid[d]) /\ o.image = oid[d].image
    BY <1>1, FieldNames DEF IsOid, Continues, SameArgument
  <2>6. Become(d, o)
    BY <1>4
  <2>. HIDE DEF o
  <2>7. Configured(o) /\ ~Alone(d, oid[d])
    BY <1>2, <2>1, <2>4, <2>5 DEF Configured, Continues, Alone, isEnabled
  <2>. QED  BY <1>1, <1>2, <2>5, <2>6, <2>7, StaysCode DEF AtArgument
<1>5. CASE Become(d, [oid[d] EXCEPT !.pc = "generate"])
  <2>. DEFINE o == [oid[d] EXCEPT !.pc = "generate"]
  <2>1. /\ o.pc = "generate" /\ o.typeInfos = oid[d].typeInfos
        /\ Continues(o, oid[d]) /\ SameArgument(o, oid[d]) /\ o.image = oid[d].image
    BY <1>1, FieldNames DEF IsOid, Continues, SameArgument
  <2>2. Become(d, o)
    BY <1>5
  <2>. HIDE DEF o
  <2>3. Configured(o)
    BY <1>2, <2>1 DEF Configured, Continues
  <2>. QED  BY <1>1, <1>2, <1>3, <2>1, <2>2, <2>3, StaysCode DEF AtArgument
<1>. QED  BY <1>4, <1>5 DEF checkCache

\* Without a cache nothing is loaded.
LEMMA LoadPaddingCode ==
  ASSUME SessionInv, InfoInv, CodeInv, NEW d \in Debuggers, loadPadding(d)
  PROVE  CodeInv'
<1>1. oid[d].pc = "padding" /\ UNCHANGED <<env, build, disk>> /\ IsOid(oid[d])
  BY RunAt DEF loadPadding, At
<1>2. /\ oid[d].pc \in AtArgument /\ FilesCode'
      /\ OwnFiles(d, oid[d], disk) /\ Configured(oid[d])
  BY <1>1, CodeAt, FilesCodeKept DEF CodeInv, AtArgument
<1>3. ~Alone(d, oid[d]) /\ (OneConfig => oid[d].th.config = oid[d].config.generatorConfig)
  BY <1>1, <1>2 DEF OwnFiles, Configured
<1>4. CASE Become(d, [oid[d] EXCEPT !.pc = "next", !.typeInfos = emplaced(d, oid[d].th),
                                    !.th = Null])
  <2>. DEFINE t == emplaced(d, oid[d].th)
              o == [oid[d] EXCEPT !.pc = "next", !.typeInfos = t, !.th = Null]
  <2>1. /\ DOMAIN t = DOMAIN oid[d].typeInfos \cup {req(d)}
        /\ OneConfig => \A r \in DOMAIN t : t[r].config = oid[d].config.generatorConfig
    <3>. HIDE DEF t
    <3>1. t \in {emplaced(d, oid[d].th), assigned(d, oid[d].th)}
      BY DEF t
    <3>2. OneAdded(t, oid[d].typeInfos, req(d), oid[d].th)
      BY <3>1, Added
    <3>. QED  BY <1>2, <1>3, <3>2 DEF Configured, OneAdded
  <2>. HIDE DEF t
  <2>2. /\ o.pc = "next" /\ o.typeInfos = t
        /\ Continues(o, oid[d]) /\ SameArgument(o, oid[d]) /\ o.image = oid[d].image
    BY <1>1, FieldNames DEF IsOid, Continues, SameArgument
  <2>3. Become(d, o)
    BY <1>4 DEF t
  <2>. HIDE DEF o
  <2>4. Configured(o)
    BY <2>1, <2>2 DEF Configured, Continues
  <2>. QED  BY <1>1, <1>2, <1>3, <2>1, <2>2, <2>3, <2>4, StaysCode DEF AtArgument
<1>5. CASE Become(d, [oid[d] EXCEPT !.pc = "generate", !.th = Null])
  <2>. DEFINE o == [oid[d] EXCEPT !.pc = "generate", !.th = Null]
  <2>1. /\ o.pc = "generate" /\ o.typeInfos = oid[d].typeInfos
        /\ Continues(o, oid[d]) /\ SameArgument(o, oid[d]) /\ o.image = oid[d].image
    BY <1>1, FieldNames DEF IsOid, Continues, SameArgument
  <2>2. Become(d, o)
    BY <1>5
  <2>. HIDE DEF o
  <2>3. Configured(o)
    BY <1>2, <2>1 DEF Configured, Continues
  <2>. QED  BY <1>1, <1>2, <1>3, <2>1, <2>2, <2>3, StaysCode DEF AtArgument
<1>. QED  BY <1>4, <1>5 DEF loadPadding

\* Code is generated with the configuration of the run, and without a cache it
\* will be compiled.
LEMMA GenerateCodeCode ==
  ASSUME SessionInv, InfoInv, CodeInv, NEW d \in Debuggers, generateCode(d)
  PROVE  CodeInv'
<1>1. oid[d].pc = "generate" /\ UNCHANGED <<env, build>> /\ IsOid(oid[d])
  BY RunAt DEF generateCode, At
<1>2. /\ oid[d].pc \in AtArgument /\ OwnFiles(d, oid[d], disk) /\ Configured(oid[d])
      /\ oid[d].objectFiles \subseteq DOMAIN disk
      /\ \A p \in oid[d].objectFiles : p[3] = ".o"
  BY <1>1, CodeAt DEF AtArgument
<1>. DEFINE root == getRootType(Program(d), Drgn(d), descsOf(d), req(d), Attached(d))
            config == oid[d].config.generatorConfig
            info == [build |-> oid[d].build, root |-> root, config |-> config]
<1>3. CASE Exit(d, "CompilationError") /\ UNCHANGED disk
  BY <1>1, <1>3, CodeEnds DEF Exit
<1>4. CASE /\ write(getPath(d, ".cc"), [source |-> TRUE])
           /\ \E t \in {emplaced(d, info), assigned(d, info)} :
                Become(d, [oid[d] EXCEPT !.pc = "compile", !.typeInfos = t,
                                         !.doCompile = doCompile(d)])
  <2>1. PICK t \in {emplaced(d, info), assigned(d, info)} :
               Become(d, [oid[d] EXCEPT !.pc = "compile", !.typeInfos = t,
                                        !.doCompile = doCompile(d)])
    BY <1>4
  <2>. HIDE DEF root
  <2>2. info.config = config
    OBVIOUS
  <2>. HIDE DEF info, config
  <2>3. /\ DOMAIN t = DOMAIN oid[d].typeInfos \cup {req(d)}
        /\ OneConfig => \A r \in DOMAIN t : t[r].config = oid[d].config.generatorConfig
    <3>1. OneAdded(t, oid[d].typeInfos, req(d), info)
      BY <2>1, Added
    <3>. QED  BY <1>2, <2>2, <3>1 DEF Configured, config, OneAdded
  <2>. DEFINE o == [oid[d] EXCEPT !.pc = "compile", !.typeInfos = t,
                                  !.doCompile = doCompile(d)]
  <2>4. /\ o.pc = "compile" /\ o.typeInfos = t /\ o.doCompile = doCompile(d)
        /\ Continues(o, oid[d]) /\ SameArgument(o, oid[d]) /\ o.image = oid[d].image
    BY <1>1, FieldNames DEF IsOid, Continues, SameArgument
  <2>5. Become(d, o)
    BY <2>1
  <2>. HIDE DEF o
  <2>. DEFINE path == getPath(d, ".cc")
  <2>6. path[3] = ".cc"
    BY DEF getPath
  <2>. HIDE DEF path
  <2>7. FilesCode' /\ \A p \in DOMAIN disk : p # path => disk'[p] = disk[p]
    <3>1. FileCode(path, [source |-> TRUE]) /\ write(path, [source |-> TRUE])
      BY <1>4, <2>6 DEF FileCode, path
    <3>. QED  BY <1>1, <3>1, FileCodeWritten DEF CodeInv
  <2>8. Alone(d, oid[d]) => /\ o.doCompile
                            /\ \A p \in oid[d].objectFiles : disk'[p].build = oid[d].build
    BY <1>2, <2>4, <2>6, <2>7 DEF doCompile, Alone, isEnabled, OwnFiles
  <2>9. Configured(o)
    BY <2>3, <2>4 DEF Configured, Continues
  <2>. QED  BY <1>1, <1>2, <2>3, <2>4, <2>5, <2>7, <2>8, <2>9, StaysCode DEF AtArgument
<1>. QED  BY <1>3, <1>4 DEF generateCode

\* The object file is of the type it is named after, of the configuration of the
\* run and of the build of its type hierarchy.
LEMMA CompileCode ==
  ASSUME SessionInv, InfoInv, CodeInv, argumentsListed(env),
         NEW d \in Debuggers, compile(d)
  PROVE  CodeInv'
<1>1. oid[d].pc = "compile" /\ UNCHANGED <<env, build>> /\ IsOid(oid[d])
  BY RunAt DEF compile, At
<1>2. /\ oid[d].pc \in AtArgument /\ RunCode(d, oid[d]) /\ OwnFiles(d, oid[d], disk)
      /\ Configured(oid[d]) /\ Given(oid[d]) /\ objectOf(oid[d]) # Null
      /\ oid[d].objectFiles \subseteq DOMAIN disk
  BY <1>1, CodeAt DEF AtArgument
<1>3. RunInfo(oid[d]) /\ req(d) \in DOMAIN oid[d].typeInfos
  BY <1>1, RunNames DEF InfoInv, RunInfo
<1>. DEFINE info == oid[d].typeInfos[req(d)]
            path == getPath(d, ".o")
            o == [oid[d] EXCEPT
                    !.pc = IF isEnabled(d) THEN "store" ELSE "next",
                    !.entity = IF isEnabled(d) THEN DescsExt(d) ELSE "",
                    !.doCompile = FALSE]
<1>4. /\ o.pc = IF isEnabled(d) THEN "store" ELSE "next"
      /\ o.typeInfos = oid[d].typeInfos /\ o.image = oid[d].image
      /\ Continues(o, oid[d]) /\ SameArgument(o, oid[d])
  BY <1>1, FieldNames DEF IsOid, Continues, SameArgument
<1>5. Alone(d, oid[d]) => oid[d].doCompile /\ ~isEnabled(d)
  BY <1>1, <1>2 DEF OwnFiles, Alone, isEnabled
<1>6. ASSUME Become(d, o), FilesCode',
             Alone(d, oid[d]) =>
               /\ \A p \in oid[d].objectFiles : disk'[p].build = oid[d].build
               /\ disk'[path].build = oid[d].build
      PROVE  CodeInv'
  <2>. HIDE DEF o
  <2>1. Configured(o)
    BY <1>2, <1>4 DEF Configured, Continues
  <2>. QED  BY <1>1, <1>2, <1>3, <1>4, <1>5, <1>6, <2>1, StaysCode DEF AtArgument
<1>7. CASE ~oid[d].doCompile /\ Become(d, o) /\ UNCHANGED disk
  <2>1. FilesCode'
    BY <1>1, <1>7, FilesCodeKept DEF CodeInv
  <2>. HIDE DEF o, path
  <2>. QED  BY <1>5, <1>6, <1>7, <2>1
<1>8. CASE /\ write(path, [build |-> info.build, config |-> info.config,
                           type |-> getTypeName(info.root.type),
                           custom |-> oid[d].config.customCode])
           /\ Become(d, o)
  <2>. DEFINE contents == [build |-> info.build, config |-> info.config,
                           type |-> getTypeName(info.root.type),
                           custom |-> oid[d].config.customCode]
              n == nameAt(oid[d], oid[d].arg)
  <2>1. /\ contents.build = info.build /\ contents.config = info.config
        /\ contents.type = getTypeName(info.root.type)
    OBVIOUS
  <2>2. /\ InfoOf(oid[d], info, req(d))
        /\ OneConfig => info.config = oid[d].config.generatorConfig
    BY <1>2, <1>3 DEF RunInfo, Configured
  <2>. HIDE DEF contents, info, path, o
  <2>3. info.build = oid[d].build /\ getTypeName(info.root.type) = n
    <3>1. req(d) = requestAt(oid[d], oid[d].arg)
      BY RunNames, RequestNames
    <3>. QED  BY <2>2, <3>1 DEF InfoOf, nameAt
  <2>4. /\ path = objectPath(oid[d], oid[d].arg) /\ n = [name |-> n.name, ptr |-> n.ptr]
    BY <1>2, ObjectPathAt DEF path
  <2>. HIDE DEF n
  <2>5. /\ path[1] = oid[d].config.cacheBasePath /\ path[3] = ".o"
        /\ path[2][1] = n.name /\ path[2][2] = n.ptr
    BY <2>4 DEF objectPath, n
  <2>6. ConfigOf(path[1], contents.config)
    BY <1>1, <1>2, <2>1, <2>2, <2>5, OwnConfig DEF ConfigOf
  <2>7. contents.type = [name |-> path[2][1], ptr |-> path[2][2]]
    BY <2>1, <2>3, <2>4, <2>5
  <2>8. FileCode(path, contents)
    BY <1>2, <2>1, <2>3, <2>5, <2>6, <2>7 DEF FileCode, RunCode
  <2>9. /\ FilesCode' /\ disk'[path] = contents
        /\ \A p \in DOMAIN disk : p # path => disk'[p] = disk[p]
    <3>1. write(path, contents)
      BY <1>8 DEF contents
    <3>. QED  BY <1>1, <2>8, <3>1, FileCodeWritten DEF CodeInv
  <2>10. disk'[path].build = oid[d].build
    BY <2>1, <2>3, <2>9
  <2>11. Alone(d, oid[d]) => \A p \in oid[d].objectFiles : disk'[p].build = oid[d].build
    BY <1>2, <2>9, <2>10 DEF OwnFiles
  <2>. QED  BY <1>6, <1>8, <2>9, <2>10, <2>11
<1>9. CASE Fail(d, "CompilationError") /\ UNCHANGED disk
  BY <1>1, <1>9, CodeEnds DEF Fail
<1>. QED  BY <1>7, <1>8, <1>9 DEF compile

\* What follows a store, or takes its place, leaves the object files alone.
LEMMA StoreCode ==
  ASSUME SessionInv, InfoInv, CodeInv, argumentsListed(env),
         NEW d \in Debuggers,
         storeOpen(d) \/ storeWrite(d)
  PROVE  CodeInv'
<1>1. oid[d].pc \in {"store", "storing"} /\ UNCHANGED <<env, build>> /\ IsOid(oid[d])
  BY RunAt DEF storeOpen, storeWrite, At
<1>2. /\ oid[d].pc \in AtArgument /\ Configured(oid[d]) /\ Given(oid[d])
      /\ ~Alone(d, oid[d])
  BY <1>1, CodeAt DEF AtArgument, OwnFiles
<1>3. RunInfo(oid[d]) /\ req(d) \in DOMAIN oid[d].typeInfos
  BY <1>1, RunNames DEF InfoInv, RunInfo
<1>4. oid[d].entity \in {".fd", ".gd", ".th", ".pd"}
  BY <1>1, RunAt DEF FilesThere
<1>. DEFINE ext == oid[d].entity
            path == getPath(d, ext)
            after == afterStore(d, ext)
            last == [after EXCEPT !.pc = IF ext = ".pd" THEN "next" ELSE "store"]
            open == [oid[d] EXCEPT !.pc = "storing"]
<1>5. path[1] = oid[d].config.cacheBasePath /\ path[3] = ext
  BY DEF getPath
<1>. HIDE DEF path
<1>6. ASSUME NEW o, Become(d, o), FilesCode',
             \/ o = open
             \/ oid[d].pc = "store" /\ o = after
             \/ o = last
      PROVE  CodeInv'
  <2>1. /\ Continues(o, oid[d]) /\ SameArgument(o, oid[d])
        /\ o.typeInfos = oid[d].typeInfos /\ o.image = oid[d].image
        /\ o.pc \in {"store", "storing", "next"}
    <3>1. CASE o = open
      BY <1>1, <3>1, FieldNames DEF IsOid, Continues, SameArgument
    <3>2. ASSUME NEW e \in {".th", ".pd"}, after = [oid[d] EXCEPT !.entity = e],
                 ext # ".pd", o # open
          PROVE  /\ Continues(o, oid[d]) /\ SameArgument(o, oid[d])
                 /\ o.typeInfos = oid[d].typeInfos /\ o.image = oid[d].image
                 /\ o.pc \in {"store", "storing", "next"}
      <4>1. last = [oid[d] EXCEPT !.entity = e, !.pc = "store"]
        BY <3>2
      <4>. HIDE DEF last, open, after
      <4>2. \/ oid[d].pc = "store" /\ o = [oid[d] EXCEPT !.entity = e]
            \/ o = [oid[d] EXCEPT !.entity = e, !.pc = "store"]
        BY <1>6, <3>2, <4>1, Zenon
      <4>. QED  BY <1>1, <4>2, FieldNames DEF IsOid, Continues, SameArgument
    <3>3. CASE ext \in {".fd", ".gd"} /\ o # open
      <4>1. after = [oid[d] EXCEPT !.entity = ".th"]
        BY <3>3 DEF afterStore
      <4>. HIDE DEF last, open, after
      <4>. QED  BY <3>2, <3>3, <4>1
    <3>4. CASE ext = ".th" /\ o # open
      <4>1. after = [oid[d] EXCEPT !.entity = ".pd"]
        BY <3>4 DEF afterStore
      <4>. HIDE DEF last, open, after
      <4>. QED  BY <3>2, <3>4, <4>1
    <3>5. CASE ext = ".pd" /\ o # open
      <4>1. after = [oid[d] EXCEPT !.pc = "next", !.entity = ""]
        BY <3>5 DEF afterStore
      <4>2. last = [after EXCEPT !.pc = "next"]
        BY <3>5
      <4>. HIDE DEF last, open, after
      <4>3. after.pc = "next" /\ DOMAIN after = Fields
        BY <1>1, <4>1, FieldNames DEF IsOid
      <4>4. last = after
        BY <4>1, <4>2, <4>3
      <4>5. o = [oid[d] EXCEPT !.pc = "next", !.entity = ""]
        BY <1>6, <3>5, <4>1, <4>4, Zenon
      <4>. QED  BY <1>1, <4>5, FieldNames DEF IsOid, Continues, SameArgument
    <3>. QED  BY <1>4, <3>1, <3>3, <3>4, <3>5
  <2>2. Configured(o)
    BY <1>2, <2>1 DEF Configured, Continues
  <2>. QED  BY <1>1, <1>2, <1>3, <1>6, <2>1, <2>2, StaysCode DEF AtArgument
<1>7. ASSUME NEW contents, write(path, contents),
             OneConfig /\ ext = ".th" /\ contents # Partial =>
               contents.data.config = oid[d].config.generatorConfig
      PROVE  FilesCode'
  <2>1. ConfigOf(path[1], oid[d].config.generatorConfig)
    BY <1>1, <1>2, <1>5, OwnConfig
  <2>2. FileCode(path, contents)
    BY <1>4, <1>5, <1>7, <2>1 DEF FileCode, ConfigOf
  <2>. QED  BY <1>1, <1>7, <2>2, FileCodeWritten DEF CodeInv
<1>8. CASE storeOpen(d)
  <2>1. \/ write(path, Partial) /\ Become(d, open)
        \/ oid[d].pc = "store" /\ Become(d, after) /\ UNCHANGED disk
    BY <1>8 DEF storeOpen, At, path
  <2>2. UNCHANGED disk => FilesCode'
    BY <1>1, FilesCodeKept DEF CodeInv
  <2>. HIDE DEF open, after, last
  <2>. QED  BY <1>6, <1>7, <2>1, <2>2
<1>9. CASE storeWrite(d)
  <2>. DEFINE data == CASE ext \in {".fd", ".gd"} -> descsOf(d)
                        [] ext = ".th" -> oid[d].typeInfos[req(d)]
                        [] ext = ".pd" -> [padding |-> oid[d].build]
              contents == [buildId |-> locateBuildID(Program(d)), data |-> data]
  <2>1. write(path, contents) /\ Become(d, last)
    BY <1>9, Zenon DEF storeWrite, path
  <2>2. ext = ".th" => data = oid[d].typeInfos[req(d)]
    OBVIOUS
  <2>. HIDE DEF data
  <2>3. contents.data = data
    OBVIOUS
  <2>. HIDE DEF contents, open, after, last
  <2>4. OneConfig /\ ext = ".th" => contents.data.config = oid[d].config.generatorConfig
    BY <1>2, <1>3, <2>2, <2>3 DEF Configured
  <2>. QED  BY <1>6, <1>7, <2>1, <2>4
<1>. QED  BY <1>8, <1>9

\* A run at the end of an argument: it has been compiled.
LEMMA NextCompiled ==
  ASSUME SessionInv, InfoInv, CodeInv, NEW d \in Debuggers, oid[d].pc = "next",
         NEW o, o.config = oid[d].config, o.build = oid[d].build,
         o.typeInfos = oid[d].typeInfos,
         o.objectFiles = oid[d].objectFiles \cup {getPath(d, ".o")}
  PROVE  Compiled(o, oid[d].arg)
<1>1. RunCode(d, oid[d])
  BY DEF CodeInv
<1>2. /\ req(d) \in DOMAIN oid[d].typeInfos /\ objectOf(oid[d]) # Null
      /\ req(d).func \in DOMAIN descriptorsFor(req(d), oid[d].funcDescs, oid[d].globalDescs)
  <2>1. Counted(oid[d])
    BY <1>1 DEF RunCode
  <2>. QED  BY <2>1, RunNames DEF Counted
<1>3. requestAt(o, oid[d].arg) = req(d) /\ programOf(o) = Program(d)
  <2>1. requestAt(o, oid[d].arg) = requestAt(oid[d], oid[d].arg) /\ programOf(o) = programOf(oid[d])
    BY DEF requestAt, programOf
  <2>. QED  BY <2>1, RunNames, RequestNames
<1>4. objectPath(o, oid[d].arg) = getPath(d, ".o") /\ IsType(CountedType(Program(d), req(d)))
  <2>1. objectPath(o, oid[d].arg) = objectPath(oid[d], oid[d].arg)
    BY DEF objectPath, nameAt, requestAt, programOf
  <2>. QED  BY <1>2, <2>1, ObjectPathAt
<1>5. ASSUME req(d).type # "global"
      PROVE  LET fd == createFuncDesc(Program(d), req(d).func) IN
             fd # Null /\ getArgument(fd, req(d).arg) # Null
  <2>1. /\ descsOf(d) = oid[d].funcDescs /\ req(d).func \in DOMAIN oid[d].funcDescs
        /\ objectOf(oid[d]) = TargetObject(Program(d), Drgn(d), descsOf(d), req(d), Attached(d))
    BY <1>2, <1>5, RunNames DEF descriptorsFor
  <2>2. LET fd == oid[d].funcDescs[req(d).func] IN fd # Null /\ getArgument(fd, req(d).arg) # Null
    BY <1>2, <1>5, <2>1 DEF TargetObject, findFuncDesc
  <2>3. oid[d].funcDescs[req(d).func] = createFuncDesc(Program(d), req(d).func)
    BY <2>1, InfoAt DEF FuncsOf
  <2>. QED  BY <2>2, <2>3
<1>. QED  BY <1>2, <1>3, <1>4, <1>5 DEF Compiled

\* The next argument, or the end of the loop.
LEMMA NextArgCode ==
  ASSUME SessionInv, InfoInv, CodeInv, argumentsListed(env),
         NEW d \in Debuggers, nextArg(d)
  PROVE  CodeInv'
<1>1. oid[d].pc = "next" /\ UNCHANGED <<env, build, disk>> /\ IsOid(oid[d])
  BY RunAt DEF nextArg, At
<1>2. RunCode(d, oid[d]) /\ OwnFiles(d, oid[d], disk) /\ d \in env.debuggers
  BY <1>1 DEF CodeInv, RunCode
<1>. DEFINE path == getPath(d, ".o")
            n == argCount(d)
            a == IF oid[d].arg < n THEN oid[d].arg + 1 ELSE oid[d].arg
            pc == IF oid[d].arg < n THEN "descs" ELSE IF Attached(d) THEN "link" ELSE "upload"
            o == [oid[d] EXCEPT !.objectFiles = @ \cup {path}, !.arg = a, !.pc = pc]
<1>3. Become(d, o)
  BY <1>1 DEF nextArg
<1>4. n \in Nat /\ oid[d].arg \in Nat \ {0} /\ n = argCountOf(oid[d]) /\ oid[d].arg \in 1 .. n
  <2>1. n = argCountOf(oid[d])
    BY RequestNames
  <2>. QED  BY <1>1, <1>2, <2>1, OwnConfig DEF RunCode, Counted
<1>. HIDE DEF n
<1>5. \/ oid[d].arg < n /\ a = oid[d].arg + 1 /\ pc = "descs"
      \/ ~(oid[d].arg < n) /\ a = oid[d].arg /\ pc \in {"link", "upload"}
  OBVIOUS
<1>. HIDE DEF path, a, pc
<1>6. /\ o.pc = pc /\ o.arg = a /\ o.objectFiles = oid[d].objectFiles \cup {path}
      /\ o.build = oid[d].build /\ o.config = oid[d].config /\ o.image = oid[d].image
      /\ o.typeInfos = oid[d].typeInfos /\ o.funcDescs = oid[d].funcDescs
      /\ o.globalDescs = oid[d].globalDescs
  BY <1>1, FieldNames DEF IsOid
<1>. HIDE DEF o
<1>7. objectOf(oid[d]) # Null /\ path = objectPath(oid[d], oid[d].arg)
  <2>1. objectOf(oid[d]) # Null
    BY <1>1, <1>2 DEF RunCode, Counted
  <2>. QED  BY <2>1, ObjectPathAt DEF path
<1>8. ASSUME NEW j \in 1 .. oid[d].arg
      PROVE  Compiled(o, j)
  <2>1. CASE j = oid[d].arg
    BY <1>1, <1>6, <2>1, NextCompiled DEF path
  <2>2. CASE j # oid[d].arg
    <3>1. j \in 1 .. (oid[d].arg - 1)
      BY <1>4, <2>2
    <3>2. Compiled(oid[d], j)
      BY <1>1, <1>2, <3>1 DEF RunCode, Counted
    <3>. QED  BY <1>6, <3>2, CompiledKept
  <2>. QED  BY <2>1, <2>2
<1>9. Counted(o)
  <2>1. argCountOf(o) = n
    BY <1>4, <1>6 DEF argCountOf
  <2>2. CASE oid[d].arg < n
    <3>1. o.pc = "descs" /\ o.arg = oid[d].arg + 1
      BY <1>5, <1>6, <2>2
    <3>2. o.arg \in Nat \ {0} /\ o.arg - 1 = oid[d].arg /\ o.arg \in 1 .. n
      BY <1>4, <2>2, <3>1
    <3>. QED  BY <1>8, <2>1, <3>1, <3>2 DEF Counted, AtArgument
  <2>3. CASE ~(oid[d].arg < n)
    <3>1. o.pc \in {"link", "upload"} /\ o.arg = oid[d].arg
      BY <1>5, <1>6, <2>3
    <3>2. 1 .. n \subseteq 1 .. oid[d].arg
      BY <1>4, <2>3
    <3>3. requestOf(o) = requestOf(oid[d])
      BY <1>6, <3>1 DEF requestOf
    <3>4. requestOf(oid[d]).func \in
            DOMAIN descriptorsFor(requestOf(oid[d]), oid[d].funcDescs, oid[d].globalDescs)
      BY <1>1, <1>2 DEF RunCode, Counted
    <3>. QED  BY <1>4, <1>6, <1>8, <2>1, <3>1, <3>2, <3>3, <3>4 DEF Counted, AtArgument
  <2>. QED  BY <2>2, <2>3
<1>10. Given(o) /\ Configured(o) /\ ~o.image.written
  BY <1>1, <1>2, <1>5, <1>6 DEF RunCode, Given, Configured
<1>11. ObjectFiles(o)
  <2>1. path[1] = o.config.cacheBasePath /\ path[3] = ".o"
    BY <1>6, <1>7 DEF objectPath
  <2>2. IsFiniteSet(oid[d].objectFiles)
    BY <1>2 DEF RunCode, ObjectFiles
  <2>3. IsFiniteSet(oid[d].objectFiles \cup {path})
    BY <2>2, FS_AddElement
  <2>4. ASSUME NEW p \in o.objectFiles
        PROVE  \E j \in 1 .. argCountOf(o) : p = objectPath(o, j)
    <3>1. PICK j \in 1 .. n : p = objectPath(oid[d], j)
      BY <1>2, <1>4, <1>6, <1>7, <2>4 DEF RunCode, ObjectFiles
    <3>2. objectPath(o, j) = objectPath(oid[d], j) /\ argCountOf(o) = n
      BY <1>4, <1>6 DEF objectPath, nameAt, requestAt, programOf, argCountOf
    <3>. QED  BY <3>1, <3>2
  <2>. QED  BY <1>2, <1>6, <2>1, <2>3, <2>4 DEF RunCode, ObjectFiles
<1>12. RunCode(d, o)
  BY <1>2, <1>6, <1>9, <1>10, <1>11 DEF RunCode, Matches
<1>13. OwnFiles(d, o, disk')
  <2>1. o.pc \notin {"padding", "store", "storing", "compile", "next"}
    BY <1>5, <1>6
  <2>2. Alone(d, o) => Alone(d, oid[d])
    BY <1>6 DEF Alone
  <2>. QED  BY <1>1, <1>2, <1>6, <1>7, <2>1, <2>2 DEF OwnFiles
<1>. QED  BY <1>1, <1>2, <1>3, <1>12, <1>13, FilesCodeKept, CodeStepOf DEF CodeInv

\* A sequence of all the elements of a set.
LEMMA AllInSequence ==
  ASSUME NEW S, IsFiniteSet(S)
  PROVE  /\ Cardinality(S) \in Nat /\ DOMAIN SetToSeq(S) = 1 .. Cardinality(S)
         /\ Range(SetToSeq(S)) = S
         /\ \A i, j \in 1 .. Cardinality(S) : SetToSeq(S)[i] = SetToSeq(S)[j] => i = j
<1>. DEFINE n == Cardinality(S)
            f == SetToSeq(S)
<1>1. n \in Nat /\ ExistsBijection(1 .. n, S)
  BY FS_CardinalityType
<1>2. f \in Injection(1 .. n, S)
  <2>1. \E g \in [1 .. n -> S] : IsInjective(g)
    BY <1>1 DEF ExistsBijection, Bijection, Injection
  <2>. QED  BY <2>1, Zenon DEF SetToSeq, Injection
<1>3. Cardinality(1 .. n) = n
  BY <1>1, FS_Interval
<1>. HIDE DEF f, n
<1>4. Cardinality(1 .. n) = Cardinality(S)
  BY <1>3 DEF n
<1>5. f \in Surjection(1 .. n, S)
  BY <1>2, <1>4, FS_Injection
<1>6. f \in [1 .. n -> S]
  BY <1>5 DEF Surjection
<1>7. DOMAIN f = 1 .. n
  BY <1>6
<1>8. \A i, j \in 1 .. n : f[i] = f[j] => i = j
  BY <1>2, <1>7, Zenon DEF Injection, IsInjective
<1>. QED  BY <1>1, <1>5, <1>7, <1>8 DEF Surjection, Range, f, n

\* The object that is called for argument i.
LEMMA CalledObject ==
  ASSUME SessionInv, InfoInv, CodeInv, NEW d \in Debuggers, oid[d].pc = "link",
         NEW i \in 1 .. argCount(d)
  PROVE  /\ TargetObject(Program(d), Drgn(d), descsOf(d), getReqForArg(d, i),
                         Attached(d)).typeName = nameAt(oid[d], i)
         /\ Compiled(oid[d], i)
<1>. DEFINE r == getReqForArg(d, i)
            object == TargetObject(Program(d), Drgn(d), descsOf(d), r, Attached(d))
<1>1. RunCode(d, oid[d])
  BY DEF CodeInv
<1>2. /\ r = requestAt(oid[d], i) /\ r.type = preq(d).type /\ r.func = preq(d).func
      /\ argCount(d) = argCountOf(oid[d]) /\ req(d).func = r.func /\ req(d).type = r.type
  BY RunNames, RequestNames
<1>3. Compiled(oid[d], i)
  BY <1>1, <1>2 DEF RunCode, Counted
<1>4. /\ descsOf(d) = descriptorsFor(r, oid[d].funcDescs, oid[d].globalDescs)
      /\ r.func \in DOMAIN descsOf(d)
  <2>1. req(d).func \in DOMAIN descriptorsFor(req(d), oid[d].funcDescs, oid[d].globalDescs)
    BY <1>1, RunNames DEF RunCode, Counted
  <2>. QED  BY <1>2, <2>1, RunNames DEF descriptorsFor
<1>5. /\ WellFormed(Program(d)) /\ FuncsOf(Program(d), oid[d].funcDescs)
      /\ GlobalsOf(Program(d), oid[d].globalDescs)
  BY InfoAt
<1>6. object # Null
  <2>1. CASE r.type = "global"
    BY <1>4, <1>5, <2>1 DEF TargetObject, findGlobalDesc, descriptorsFor, GlobalsOf
  <2>2. CASE r.type # "global"
    <3>1. oid[d].funcDescs[r.func] = createFuncDesc(Program(d), r.func)
      BY <1>4, <1>5, <2>2 DEF FuncsOf, descriptorsFor
    <3>2. LET fd == createFuncDesc(Program(d), r.func) IN
          fd # Null /\ getArgument(fd, r.arg) # Null
      BY <1>2, <1>3, <2>2, RunNames DEF Compiled
    <3>. QED  BY <1>4, <2>2, <3>1, <3>2 DEF TargetObject, findFuncDesc, descriptorsFor
  <2>. QED  BY <2>1, <2>2
<1>7. object.typeName = getTypeName(CountedType(Program(d), r))
  <2>1. object = TargetObject(Program(d), Drgn(d),
                   descriptorsFor(r, oid[d].funcDescs, oid[d].globalDescs), r, Attached(d))
    BY <1>4
  <2>. HIDE DEF object, r
  <2>. QED  BY <1>5, <1>6, <2>1, ObjectDeclared
<1>. QED  BY <1>2, <1>3, <1>7, RunNames DEF nameAt

\* The code each call reaches is the code of the type hierarchy of its argument.
LEMMA LinkCode ==
  ASSUME SessionInv, InfoInv, CodeInv, argumentsListed(env),
         NEW d \in Debuggers, link(d)
  PROVE  CodeInv'
<1>0. At(d, "link") /\ UNCHANGED <<env, build, disk, fds>>
  BY Zenon DEF link
<1>1. oid[d].pc = "link" /\ UNCHANGED <<env, build, disk>> /\ IsOid(oid[d])
  BY <1>0, RunAt DEF At
<1>2. RunCode(d, oid[d]) /\ OwnFiles(d, oid[d], disk) /\ d \in env.debuggers
  <2>1. RunCode(d, oid[d]) /\ OwnFiles(d, oid[d], disk)
    BY Zenon DEF CodeInv
  <2>. QED  BY <1>1, <2>1 DEF RunCode
<1>. DEFINE paths == SetToSeq(oid[d].objectFiles)
            files == [i \in DOMAIN paths |-> disk[paths[i]]]
            target(i) == TargetObject(Program(d), Drgn(d), descsOf(d),
                                      getReqForArg(d, i), Attached(d)).typeName
            code == [t \in {f.type : f \in Range(files)} |->
                       CHOOSE f \in Range(files) : f.type = t]
            calls == [i \in 1 .. argCount(d) |-> target(i)]
<1>3. \/ \E status : Exit(d, status)
      \/ Become(d, [Exited(d, "Aborted") EXCEPT !.image.fatal = TRUE])
      \/ \E pc \in {"upload", "probe"} : \E fits, sections, externals :
           Become(d, [oid[d] EXCEPT
             !.pc = pc,
             !.image = [written |-> TRUE, fatal |-> FALSE, fits |-> fits,
                        sections |-> sections, externals |-> externals, code |-> code,
                        calls |-> calls, logFile |-> oid[d].logFd]])
  <2>. DEFINE res == relocated(d, files)
              image == [written |-> TRUE, fatal |-> FALSE, fits |-> res.fits,
                        sections |-> res.sections, externals |-> res.externals,
                        code |-> code, calls |-> calls, logFile |-> oid[d].logFd]
              pc == IF oid[d].config.compAndExit THEN "upload" ELSE "probe"
  <2>1. CASE res.fatal = TRUE
    BY <2>1, Zenon DEF link
  <2>2. CASE ~res.fatal
    <3>1. \/ Exit(d, "CompilationError") \/ Exit(d, "Aborted")
          \/ Become(d, [oid[d] EXCEPT !.pc = pc, !.image = image])
      BY <2>2, Zenon DEF link
    <3>2. pc \in {"upload", "probe"}
      BY Zenon
    <3>. HIDE DEF pc, code, calls, res
    <3>. QED  BY <3>1, <3>2, Zenon
  <2>. QED  BY <2>1, <2>2, Zenon
<1>4. CASE \E status : Exit(d, status)
  BY <1>1, <1>4, CodeEnds DEF Exit
<1>5. CASE Become(d, [Exited(d, "Aborted") EXCEPT !.image.fatal = TRUE])
  BY <1>1, <1>5, CodeEnds
<1>6. ASSUME NEW pc \in {"upload", "probe"}, NEW image, image.written, image.code = code,
             image.calls = calls, Become(d, [oid[d] EXCEPT !.pc = pc, !.image = image])
      PROVE  CodeInv'
  <2>. DEFINE o == [oid[d] EXCEPT !.pc = pc, !.image = image]
  <2>1. /\ o.pc = pc /\ o.image = image /\ o.arg = oid[d].arg /\ o.build = oid[d].build
        /\ o.config = oid[d].config /\ o.typeInfos = oid[d].typeInfos
        /\ o.objectFiles = oid[d].objectFiles
    BY <1>1, FieldNames DEF IsOid
  <2>2. Become(d, o)
    BY <1>6
  <2>. HIDE DEF o
  <2>3. Given(o) /\ Configured(o) /\ ObjectFiles(o)
    BY <1>1, <1>2, <2>1, ObjectFilesKept DEF RunCode, Given, Configured
  <2>4. Counted(o)
    BY <1>2, <2>1 DEF RunCode, Counted, AtArgument
  <2>5. Range(files) = {disk[p] : p \in oid[d].objectFiles}
    <3>1. Range(paths) = oid[d].objectFiles
      BY <1>2, AllInSequence DEF RunCode, ObjectFiles
    <3>. HIDE DEF paths
    <3>. QED  BY <3>1 DEF Range
  <2>6. ASSUME OneConfig, build = 1 \/ Alone(d, oid[d]), NEW i \in 1 .. argCountOf(oid[d])
        PROVE  LET info == oid[d].typeInfos[requestAt(oid[d], i)]
                   c == code[calls[i]]
               IN /\ c.build = info.build /\ c.config = info.config
                  /\ c.type = getTypeName(info.root.type)
    <3>. DEFINE n == nameAt(oid[d], i)
                info == oid[d].typeInfos[requestAt(oid[d], i)]
                c == code[n]
                q == objectPath(oid[d], i)
    <3>1. i \in 1 .. argCount(d)
      BY <2>6, RequestNames
    <3>2. target(i) = n /\ Compiled(oid[d], i)
      BY <1>1, <3>1, CalledObject
    <3>3. calls[i] = n
      <4>. HIDE DEF target, n
      <4>. QED  BY <3>1, <3>2
    <3>4. q \in oid[d].objectFiles /\ requestAt(oid[d], i) \in DOMAIN oid[d].typeInfos
          /\ n = [name |-> n.name, ptr |-> n.ptr]
      <4>1. IsType(CountedType(programOf(oid[d]), requestAt(oid[d], i)))
        BY <3>2 DEF Compiled
      <4>. QED  BY <3>2, <4>1, TypeNames DEF Compiled, nameAt
    <3>5. q[2][1] = n.name /\ q[2][2] = n.ptr
      BY DEF objectPath
    <3>. HIDE DEF n, info, q
    <3>6. oid[d].objectFiles \subseteq DOMAIN disk
      BY RunAt DEF FilesThere
    <3>7. ASSUME NEW p \in oid[d].objectFiles
          PROVE  /\ disk[p].type = [name |-> p[2][1], ptr |-> p[2][2]]
                 /\ disk[p].config = oid[d].config.generatorConfig
                 /\ disk[p].build = oid[d].build
      <4>1. p[1] = oid[d].config.cacheBasePath /\ p[3] = ".o"
        BY <1>2 DEF RunCode, ObjectFiles
      <4>2. /\ disk[p].type = [name |-> p[2][1], ptr |-> p[2][2]]
            /\ ConfigOf(p[1], disk[p].config) /\ (build = 1 => disk[p].build = 1)
        BY <3>6, <4>1 DEF CodeInv, FilesCode, FileCode
      <4>3. disk[p].config = oid[d].config.generatorConfig
        BY <1>1, <1>2, <2>6, <4>1, <4>2, OwnConfig DEF RunCode
      <4>4. disk[p].build = oid[d].build
        BY <1>2, <2>6, <4>2 DEF RunCode, OwnFiles
      <4>. QED  BY <4>2, <4>3, <4>4
    <3>8. disk[q].type = n
      BY <3>4, <3>5, <3>7
    <3>. DEFINE R == Range(files)
    <3>9. disk[q] \in R
      BY <2>5, <3>4
    <3>10. c \in R /\ c.type = n
      <4>. HIDE DEF files, R
      <4>1. n \in {f.type : f \in R}
        BY <3>8, <3>9
      <4>2. c = CHOOSE f \in R : f.type = n
        BY <4>1 DEF R
      <4>. QED  BY <3>8, <3>9, <4>2
    <3>. HIDE DEF c, code, calls
    <3>11. PICK p \in oid[d].objectFiles : c = disk[p]
      BY <2>5, <3>10
    <3>12. InfoOf(oid[d], info, requestAt(oid[d], i))
           /\ info.config = oid[d].config.generatorConfig
      BY <1>2, <2>6, <3>4 DEF InfoInv, RunInfo, RunCode, Configured, info
    <3>13. info.build = oid[d].build /\ getTypeName(info.root.type) = n
      BY <3>12 DEF InfoOf, n, nameAt
    <3>14. /\ c.build = info.build /\ c.config = info.config
           /\ c.type = getTypeName(info.root.type)
      BY <3>7, <3>10, <3>11, <3>12, <3>13
    <3>. QED  BY <3>3, <3>14 DEF c, info
  <2>. HIDE DEF code, calls
  <2>7. build = 1 \/ Alone(d, o) => Matches(o)
    <3>1. /\ \A i : requestAt(o, i) = requestAt(oid[d], i)
          /\ argCountOf(o) = argCountOf(oid[d]) /\ (Alone(d, o) <=> Alone(d, oid[d]))
      BY <2>1 DEF requestAt, argCountOf, Alone
    <3>. QED  BY <1>6, <2>1, <2>6, <3>1 DEF Matches
  <2>8. RunCode(d, o)
    BY <1>2, <2>1, <2>3, <2>4, <2>7 DEF RunCode
  <2>9. OwnFiles(d, o, disk')
    BY <1>1, <1>2, <2>1 DEF OwnFiles, Alone
  <2>. QED  BY <1>1, <1>2, <2>2, <2>8, <2>9, FilesCodeKept, CodeStepOf DEF CodeInv
<1>7. ASSUME NEW pc \in {"upload", "probe"}, NEW fits, NEW sections, NEW externals,
             Become(d, [oid[d] EXCEPT
               !.pc = pc,
               !.image = [written |-> TRUE, fatal |-> FALSE, fits |-> fits,
                          sections |-> sections, externals |-> externals, code |-> code,
                          calls |-> calls, logFile |-> oid[d].logFd]])
      PROVE  CodeInv'
  <2>. DEFINE image == [written |-> TRUE, fatal |-> FALSE, fits |-> fits,
                        sections |-> sections, externals |-> externals, code |-> code,
                        calls |-> calls, logFile |-> oid[d].logFd]
  <2>. HIDE DEF code, calls
  <2>1. image.written /\ image.code = code /\ image.calls = calls
    OBVIOUS
  <2>2. Become(d, [oid[d] EXCEPT !.pc = pc, !.image = image])
    BY <1>7
  <2>. HIDE DEF image
  <2>. QED  BY <1>6, <2>1, <2>2
<1>. HIDE DEF code, calls
<1>. QED  BY <1>3, <1>4, <1>5, <1>7

\* The invariant holds at the start.
LEMMA CodeInit == Init => CodeInv
<1>. SUFFICES ASSUME Init
              PROVE  CodeInv
  OBVIOUS
<1>1. DOMAIN disk = {}
  BY DEF Init
<1>2. ASSUME NEW d \in Debuggers
      PROVE  RunCode(d, oid[d]) /\ OwnFiles(d, oid[d], disk)
  <2>1. PICK o : o = Fresh
    OBVIOUS
  <2>2. o.pc = "idle" /\ o.build = 1
    BY <2>1 DEF Fresh
  <2>3. o.arg = 1 /\ o.typeInfos = <<>> /\ o.objectFiles = {}
    BY <2>1 DEF Fresh
  <2>4. ~o.image.written
    BY <2>1 DEF Fresh, NoImage
  <2>5. Given(o)
    BY <2>2 DEF Given
  <2>6. RunCode(d, o) /\ OwnFiles(d, o, disk)
    BY <2>2, <2>3, <2>4, <2>5, NothingYet
  <2>. QED  BY <2>1, <2>6 DEF Init
<1>. QED  BY <1>1, <1>2 DEF CodeInv, FilesCode

\* Every step keeps it.
LEMMA CodeStep ==
  ASSUME \A e \in Envs : argumentsListed(e)
  PROVE  SessionInv /\ InfoInv /\ CodeInv /\ [Next]_vars => CodeInv'
<1>. SUFFICES ASSUME SessionInv, InfoInv, CodeInv, [Next]_vars
              PROVE  CodeInv'
  OBVIOUS
<1>1. argumentsListed(env)
  BY DEF SessionInv
<1>2. ASSUME env' = env, disk' = disk, oid' = oid, build' = build \/ build' # 1
      PROVE  CodeInv'
  <2>1. ASSUME NEW d \in Debuggers
        PROVE  RunCode(d, oid[d])' /\ OwnFiles(d, oid[d], disk)'
    <3>1. RunCode(d, oid[d]) /\ OwnFiles(d, oid[d], disk)
      BY DEF CodeInv
    <3>2. /\ Given(oid[d])' <=> Given(oid[d])
          /\ Matches(oid[d])' <=> Matches(oid[d])
          /\ Configured(oid[d])' <=> Configured(oid[d])
          /\ ObjectFiles(oid[d])' <=> ObjectFiles(oid[d])
          /\ Alone(d, oid[d])' <=> Alone(d, oid[d])
      BY <1>2 DEF Given, Configs, Matches, Configured, ObjectFiles, Alone, requestAt,
                  argCountOf, Proceeds, OneConfig, objectPath, nameAt, programOf
    <3>3. Counted(oid[d])' <=> Counted(oid[d])
      BY <1>2 DEF Counted, Compiled, requestAt, objectPath, nameAt, requestOf, objectOf,
                  programOf, argCountOf, descriptorsFor
    <3>4. objectPath(oid[d], oid[d].arg)' = objectPath(oid[d], oid[d].arg)
      BY <1>2 DEF objectPath, nameAt, programOf, requestAt
    <3>. QED  BY <1>2, <3>1, <3>2, <3>3, <3>4 DEF RunCode, OwnFiles
  <2>2. FilesCode'
    BY <1>2 DEF CodeInv, FilesCode, FileCode, ConfigOf, Configs, Proceeds, OneConfig
  <2>. QED  BY <2>1, <2>2 DEF CodeInv
<1>3. CASE rebuild
  BY <1>2, <1>3 DEF rebuild
<1>4. ASSUME NEW d \in Debuggers, openFile(d) \/ \E fd \in 0 .. LastFd : closeFile(d, fd)
      PROVE  CodeInv'
  BY <1>2, <1>4 DEF openFile, closeFile
<1>5. CASE UNCHANGED vars
  BY <1>2, <1>5 DEF vars
<1>. QED
  BY <1>1, <1>3, <1>4, <1>5, LoadDescsCode, CheckCacheCode, LoadPaddingCode,
     GenerateCodeCode, CompileCode, StoreCode, NextArgCode, LinkCode, ElsewhereCode
     DEF Next, Restoring

-----------------------------------------------------------------------------
(***************************************************************************)
(* The code in the target: where its sections and its symbols are          *)
(***************************************************************************)

\* The sections of all object files, and what holds of them in the target: no two
\* overlap, each is aligned and behind the prologue and the constants, and the last
\* slab ends where the first began in a page.
RelocatedTo(sections, objects, f) ==
  sections = UNION {{[s EXCEPT !.addr = f[i] + @] :
                       s \in Range(slabsOf(objects)[i].sections)} : i \in DOMAIN objects}
PlacedIn(sections, objects, f) ==
  /\ \A s, t \in sections : s # t => Disjoint(s, t)
  /\ \A s \in sections :
       /\ s.addr \in Nat /\ s.section.size \in Nat
       /\ s.addr % s.section.align = 0 /\ s.addr >= 128
       /\ \A n : n = Len(objects) =>
            s.addr + s.section.size <= f[n] + slabsOf(objects)[n].allocatedSize
  /\ \A n : n = Len(objects) /\ n # 0 =>
       /\ f[n] + slabsOf(objects)[n].allocatedSize \in Nat
       /\ (f[n] + slabsOf(objects)[n].allocatedSize) % 4096 = 128

\* It does, when the first slab is where the code starts.
LEMMA Placed ==
  ASSUME NEW objects, Len(objects) \in Nat, DOMAIN objects = 1 .. Len(objects),
         \A i \in DOMAIN objects : IsObject(objects[i]),
         NEW f, Follows(f, Len(objects), slabsOf(objects), jitCodeStart),
         NEW S, RelocatedTo(S, objects, f)
  PROVE  PlacedIn(S, objects, f)
<1>. DEFINE N == Len(objects)
            slabs == slabsOf(objects)
<1>1. \A i \in 1 .. N : slabs[i] = loadObject(objects[i])
  BY DEF slabsOf
<1>2. \A i \in 1 .. N : slabs[i].allocatedSize \in Nat /\ slabs[i].allocatedSize % 4096 = 0
  BY <1>1, SlabOfObject
<1>. HIDE DEF N, slabs
<1>3. N \in Nat /\ DOMAIN objects = 1 .. N /\ Follows(f, N, slabs, jitCodeStart)
  BY DEF N, slabs
<1>b. \A i \in 1 .. N : IsObject(objects[i])
  BY <1>3
<1>a. jitCodeStart = 128
  BY DEF jitCodeStart, constStart, constLength, prologueLength
<1>4. /\ \A i \in 1 .. N : f[i] \in Nat /\ f[i] % 4096 = 128
      /\ \A i \in 1 .. (N - 1) : f[i + 1] = f[i] + slabs[i].allocatedSize
  BY <1>2, <1>3, <1>a, SlabsFollow
<1>5. \A i, j \in 1 .. N : i < j => f[i] + slabs[i].allocatedSize <= f[j]
  <2>1. ASSUME NEW i \in 1 .. N, NEW j \in 1 .. N, i < j
        PROVE  f[i] + slabs[i].allocatedSize <= f[j]
    <3>1. /\ \A m \in 1 .. N : f[m] \in Nat
          /\ \A m \in 1 .. N : slabs[m].allocatedSize \in Nat
          /\ \A m \in 1 .. (N - 1) : f[m + 1] = f[m] + slabs[m].allocatedSize
          /\ N \in Nat
      BY ONLY <1>2, <1>3, <1>4
    <3>. QED  BY ONLY <2>1, <3>1, SlabsApart
  <2>. QED  BY <2>1
<1>6. ASSUME NEW s \in S
      PROVE  \E i \in 1 .. N : \E p \in Range(slabs[i].sections) :
               /\ s = [p EXCEPT !.addr = f[i] + @]
               /\ p.addr \in Nat /\ s.section = p.section /\ s.addr = f[i] + p.addr
               /\ s.addr \in Nat /\ s.section.size \in Nat /\ f[i] <= s.addr
               /\ s.addr + s.section.size <= f[i] + slabs[i].allocatedSize
               /\ s.addr % s.section.align = 0
  <2>1. PICK i \in 1 .. N : \E p \in Range(slabs[i].sections) : s = [p EXCEPT !.addr = f[i] + @]
    BY <1>3, <1>6 DEF slabs, RelocatedTo
  <2>2. PICK p \in Range(slabs[i].sections) : s = [p EXCEPT !.addr = f[i] + @]
    BY <2>1
  <2>3. /\ IsObject(objects[i]) /\ slabs[i] = loadObject(objects[i])
        /\ f[i] \in Nat /\ f[i] % 4096 = 128
    BY <1>1, <1>3, <1>4, SMTT(30)
  <2>4. /\ p.addr \in Nat /\ s.section = p.section /\ s.addr = f[i] + p.addr
        /\ s.addr \in Nat /\ s.section.size \in Nat /\ f[i] <= s.addr
        /\ s.addr + s.section.size <= f[i] + slabs[i].allocatedSize
        /\ s.addr % s.section.align = 0
    BY ONLY <2>2, <2>3, SlotPlaced
  <2>. QED  BY <2>2, <2>4, Zenon
<1>7. ASSUME NEW s \in S, NEW t \in S, s # t
      PROVE  Disjoint(s, t)
  <2>a. PICK i \in 1 .. N : \E p \in Range(slabs[i].sections) :
          /\ s = [p EXCEPT !.addr = f[i] + @]
          /\ p.addr \in Nat /\ s.section = p.section /\ s.addr = f[i] + p.addr
          /\ s.addr \in Nat /\ s.section.size \in Nat /\ f[i] <= s.addr
          /\ s.addr + s.section.size <= f[i] + slabs[i].allocatedSize
    BY <1>6, Zenon
  <2>1. PICK p \in Range(slabs[i].sections) :
          /\ s = [p EXCEPT !.addr = f[i] + @]
          /\ p.addr \in Nat /\ s.section = p.section /\ s.addr = f[i] + p.addr
          /\ s.addr \in Nat /\ s.section.size \in Nat /\ f[i] <= s.addr
          /\ s.addr + s.section.size <= f[i] + slabs[i].allocatedSize
    BY <2>a, Zenon
  <2>b. PICK j \in 1 .. N : \E q \in Range(slabs[j].sections) :
          /\ t = [q EXCEPT !.addr = f[j] + @]
          /\ q.addr \in Nat /\ t.section = q.section /\ t.addr = f[j] + q.addr
          /\ t.addr \in Nat /\ t.section.size \in Nat /\ f[j] <= t.addr
          /\ t.addr + t.section.size <= f[j] + slabs[j].allocatedSize
    BY <1>6, Zenon
  <2>2. PICK q \in Range(slabs[j].sections) :
          /\ t = [q EXCEPT !.addr = f[j] + @]
          /\ q.addr \in Nat /\ t.section = q.section /\ t.addr = f[j] + q.addr
          /\ t.addr \in Nat /\ t.section.size \in Nat /\ f[j] <= t.addr
          /\ t.addr + t.section.size <= f[j] + slabs[j].allocatedSize
    BY <2>b, Zenon
  <2>3. CASE i = j
    <3>1. p # q
      BY <1>7, <2>1, <2>2, <2>3, Zenon
    <3>2. IsObject(objects[i]) /\ slabs[i] = loadObject(objects[i]) /\ f[i] \in Nat
      BY ONLY <1>1, <1>4, <1>b
    <3>3. /\ p \in Range(slabs[i].sections) /\ q \in Range(slabs[i].sections)
          /\ s.section = p.section /\ t.section = q.section
          /\ s.addr = f[i] + p.addr /\ t.addr = f[i] + q.addr
      BY <2>1, <2>2, <2>3, Zenon
    <3>. QED  BY ONLY <3>1, <3>2, <3>3, SlotsPlacedApart
  <2>4. CASE i < j
    <3>1. f[i] + slabs[i].allocatedSize <= f[j] /\ f[i] \in Nat /\ f[j] \in Nat
          /\ slabs[i].allocatedSize \in Nat
      BY <1>2, <1>4, <1>5, <2>4
    <3>2. s.addr + s.section.size <= t.addr
      BY ONLY <2>1, <2>2, <3>1
    <3>. QED  BY <3>2 DEF Disjoint
  <2>5. CASE j < i
    <3>1. f[j] + slabs[j].allocatedSize <= f[i] /\ f[i] \in Nat /\ f[j] \in Nat
          /\ slabs[j].allocatedSize \in Nat
      BY <1>2, <1>4, <1>5, <2>5
    <3>2. t.addr + t.section.size <= s.addr
      BY ONLY <2>1, <2>2, <3>1
    <3>. QED  BY <3>2 DEF Disjoint
  <2>. QED  BY <2>3, <2>4, <2>5
<1>8. ASSUME NEW s \in S
      PROVE  /\ s.addr \in Nat /\ s.section.size \in Nat
             /\ s.addr % s.section.align = 0 /\ s.addr >= 128
             /\ s.addr + s.section.size <= f[N] + slabs[N].allocatedSize
  <2>1. PICK i \in 1 .. N :
          /\ s.addr \in Nat /\ s.section.size \in Nat /\ f[i] <= s.addr
          /\ s.addr + s.section.size <= f[i] + slabs[i].allocatedSize
          /\ s.addr % s.section.align = 0
    BY <1>6, Zenon
  <2>2. f[i] \in Nat /\ f[i] % 4096 = 128 /\ f[N] \in Nat
        /\ slabs[i].allocatedSize \in Nat /\ slabs[N].allocatedSize \in Nat
    <3>1. N \in 1 .. N
      BY <1>3
    <3>. QED  BY <1>2, <1>4, <3>1
  <2>3. f[i] >= 128
    <3>1. PICK x \in Nat : x = f[i] /\ x % 4096 = 128
      BY <2>2
    <3>2. x >= 128
      BY ONLY <3>1
    <3>. QED  BY <3>1, <3>2
  <2>4. f[i] + slabs[i].allocatedSize <= f[N] + slabs[N].allocatedSize
    <3>1. CASE i = N
      BY <2>2, <3>1
    <3>2. CASE i # N
      <4>1. i < N /\ N \in 1 .. N
        BY <1>3, <3>2
      <4>2. f[i] + slabs[i].allocatedSize <= f[N]
        BY <1>5, <4>1
      <4>. QED  BY <2>2, <4>2
    <3>. QED  BY <3>1, <3>2
  <2>5. s.addr >= 128 /\ s.addr + s.section.size <= f[N] + slabs[N].allocatedSize
    <3>1. s.addr \in Nat /\ s.section.size \in Nat /\ f[i] <= s.addr
          /\ s.addr + s.section.size <= f[i] + slabs[i].allocatedSize
      BY <2>1
    <3>2. f[i] \in Nat /\ f[N] \in Nat
          /\ slabs[i].allocatedSize \in Nat /\ slabs[N].allocatedSize \in Nat
      BY <2>2
    <3>. QED  BY ONLY <2>3, <2>4, <3>1, <3>2
  <2>. QED  BY <2>1, <2>5
<1>9. ASSUME N # 0
      PROVE  /\ f[N] + slabs[N].allocatedSize \in Nat
             /\ (f[N] + slabs[N].allocatedSize) % 4096 = 128
  <2>1. N \in 1 .. N
    BY <1>3, <1>9
  <2>2. PICK x \in Nat, y \in Nat :
          x = f[N] /\ x % 4096 = 128 /\ y = slabs[N].allocatedSize /\ y % 4096 = 0
    BY <1>2, <1>4, <2>1
  <2>3. x + y \in Nat /\ (x + y) % 4096 = 128
    BY ONLY <2>2
  <2>. QED  BY <2>2, <2>3
<1>10. ASSUME NEW s \in S, NEW n, n = Len(objects)
       PROVE  s.addr + s.section.size <= f[n] + slabsOf(objects)[n].allocatedSize
  BY ONLY <1>8, <1>10 DEF N, slabs
<1>11. ASSUME NEW n, n = Len(objects), n # 0
       PROVE  /\ f[n] + slabsOf(objects)[n].allocatedSize \in Nat
              /\ (f[n] + slabsOf(objects)[n].allocatedSize) % 4096 = 128
  <2>1. n = N /\ slabs = slabsOf(objects)
    BY <1>11 DEF N, slabs
  <2>. QED  BY ONLY <1>9, <1>11, <2>1
<1>12. ASSUME NEW s \in S
       PROVE  /\ s.addr \in Nat /\ s.section.size \in Nat
              /\ s.addr % s.section.align = 0 /\ s.addr >= 128
  BY <1>8
<1>13. \A s, t \in S : s # t => Disjoint(s, t)
  BY ONLY <1>7
<1>14. \A n : n = Len(objects) /\ n # 0 =>
         /\ f[n] + slabsOf(objects)[n].allocatedSize \in Nat
         /\ (f[n] + slabsOf(objects)[n].allocatedSize) % 4096 = 128
  BY ONLY <1>11
<1>15. \A s \in S :
         /\ s.addr \in Nat /\ s.section.size \in Nat
         /\ s.addr % s.section.align = 0 /\ s.addr >= 128
         /\ \A n : n = Len(objects) =>
              s.addr + s.section.size <= f[n] + slabsOf(objects)[n].allocatedSize
  BY ONLY <1>10, <1>12
<1>. QED  BY ONLY <1>13, <1>14, <1>15 DEF PlacedIn

\* moduleCallback returns a symbol of the module.
LEMMA SymbolOfModule ==
  ASSUME NEW mod, IsList(mod.symbols), NEW x, NEW ranges, moduleCallback(mod, x, ranges) # 0
  PROVE  /\ ~mod.debuginfo
         /\ \E s \in Range(mod.symbols) :
              s.name = x /\ s.defined /\ s.value = moduleCallback(mod, x, ranges)
<1>. DEFINE matches(s) == /\ s.defined /\ s.name = x
                          /\ \/ s.kind = "object"
                             \/ s.kind = "func" /\ isExecutableAddr(s.value, ranges)
            I == {i \in 1 .. Len(mod.symbols) : matches(mod.symbols[i])}
            k == IF I # {} THEN Min(I) ELSE 0
<1>1. moduleCallback(mod, x, ranges) =
        IF mod.debuginfo \/ k = 0 THEN 0 ELSE mod.symbols[k].value
  BY Zenon DEF moduleCallback, SelectInSeq
<1>2. ~mod.debuginfo /\ k # 0 /\ moduleCallback(mod, x, ranges) = mod.symbols[k].value
  <2>. HIDE DEF k
  <2>. QED  BY <1>1
<1>3. I # {} /\ k = Min(I)
  <2>. HIDE DEF I
  <2>. QED  BY <1>2
<1>4. k \in I
  <2>1. I \subseteq Nat /\ I # {}
    BY <1>3 DEF IsList
  <2>. HIDE DEF I, k
  <2>2. PICK m \in I : \A y \in I : m <= y
    BY <2>1, MinExists
  <2>. QED  BY <1>3, <2>2 DEF Min
<1>. HIDE DEF k
<1>5. k \in 1 .. Len(mod.symbols) /\ mod.symbols[k].defined /\ mod.symbols[k].name = x
  BY <1>4
<1>6. mod.symbols[k] \in Range(mod.symbols)
  BY <1>5 DEF IsList, Range
<1>. QED  BY <1>2, <1>5, <1>6

\* What locateSymbol finds is defined in the program.
LEMMA SymbolDefined ==
  ASSUME NEW prog, WellFormed(prog), NEW x, NEW attached, locateSymbol(prog, x, attached) # 0
  PROVE  locateSymbol(prog, x, attached) \in definitions(prog, x)
<1>. DEFINE ranges == executableAddrs(prog, attached)
            I == {i \in 1 .. Len(prog.modules) : moduleCallback(prog.modules[i], x, ranges) # 0}
            k == IF I # {} THEN Min(I) ELSE 0
<1>1. locateSymbol(prog, x, attached) =
        IF k = 0 THEN 0 ELSE moduleCallback(prog.modules[k], x, ranges)
  BY Zenon DEF locateSymbol, SelectInSeq
<1>. HIDE DEF ranges
<1>2. k # 0 /\ locateSymbol(prog, x, attached) = moduleCallback(prog.modules[k], x, ranges)
  <2>. HIDE DEF k
  <2>. QED  BY <1>1
<1>3. I # {} /\ k = Min(I)
  <2>. HIDE DEF I
  <2>. QED  BY <1>2
<1>0. IsList(prog.modules) /\ \A m \in Range(prog.modules) : IsList(m.symbols)
  BY DEF WellFormed
<1>4. k \in I
  <2>1. I \subseteq Nat /\ I # {}
    BY <1>0, <1>3 DEF IsList
  <2>. HIDE DEF I, k
  <2>2. PICK m \in I : \A y \in I : m <= y
    BY <2>1, MinExists
  <2>. QED  BY <1>3, <2>2 DEF Min
<1>. HIDE DEF k
<1>5. k \in 1 .. Len(prog.modules) /\ moduleCallback(prog.modules[k], x, ranges) # 0
  BY <1>4
<1>6. prog.modules[k] \in Range(prog.modules)
  BY <1>0, <1>5 DEF IsList, Range
<1>7. PICK mod : mod = prog.modules[k]
  OBVIOUS
<1>8. /\ mod \in Range(prog.modules) /\ ~mod.debuginfo
      /\ \E s \in Range(mod.symbols) :
           s.name = x /\ s.defined /\ s.value = moduleCallback(mod, x, ranges)
  BY <1>0, <1>5, <1>6, <1>7, SymbolOfModule
<1>. QED  BY <1>2, <1>7, <1>8 DEF definitions

\* Where a symbol is that code refers to.
LEMMA SymbolResolved ==
  ASSUME NEW prog, WellFormed(prog), NEW x, NEW weak, NEW v,
         v = findSymbol(x, syntheticSymbols, prog, weak), v # 0
  PROVE  IF x \in DOMAIN syntheticSymbols THEN v = syntheticSymbols[x]
         ELSE v \in definitions(prog, x) \/ (x \in weak /\ v = Unresolved)
<1>1. CASE x \in DOMAIN syntheticSymbols
  BY <1>1, Zenon DEF findSymbol
<1>2. CASE x \notin DOMAIN syntheticSymbols
  <2>1. v = IF locateSymbol(prog, x, TRUE) # 0 THEN locateSymbol(prog, x, TRUE)
            ELSE IF x \in weak THEN Unresolved ELSE 0
    BY <1>2, Zenon DEF findSymbol
  <2>2. locateSymbol(prog, x, TRUE) # 0
          => locateSymbol(prog, x, TRUE) \in definitions(prog, x)
    BY SymbolDefined
  <2>3. v \in definitions(prog, x) \/ (x \in weak /\ v = Unresolved)
    BY <2>1, <2>2
  <2>. QED  BY <1>2, <2>3, Zenon
<1>. QED  BY <1>1, <1>2

\* What CodeLinked says of the sections, and of the symbols of a program.
SectionsPlaced(sections) ==
  /\ \A s, t \in sections : s # t => Disjoint(s, t)
  /\ \A s \in sections :
       /\ s.addr % s.section.align = 0
       /\ s.addr >= jitCodeStart
       /\ s.addr + s.section.size <= textSegSize - replayInstSize
SymbolsFound(externals, prog, weak) ==
  \A x \in DOMAIN externals :
    IF x \in DOMAIN syntheticSymbols THEN externals[x] = syntheticSymbols[x]
    ELSE externals[x] \in definitions(prog, x) \/ (x \in weak /\ externals[x] = Unresolved)

\* Object files whose padding is within the 128 bytes can be relocated, and if the
\* code is not too large for the segment, it is in front of the replay area.
LEMMA Linked ==
  ASSUME NEW objects, Len(objects) \in Nat, DOMAIN objects = 1 .. Len(objects),
         \A i \in DOMAIN objects :
           IsObject(objects[i]) /\ dataPadding(objects[i].sections) <= 128,
         NEW prog, WellFormed(prog), NEW weak, NEW res,
         res = applyRelocs(jitCodeStart, objects, syntheticSymbols, prog, weak)
  PROVE  /\ ~res.fatal /\ res.fits
         /\ ~tooLarge(res.relocInfos) => SectionsPlaced(res.sections)
         /\ ~res.failed => SymbolsFound(res.externals, prog, weak)
<1>. DEFINE N == Len(objects)
            slabs == slabsOf(objects)
<1>1. PICK f : /\ Follows(f, N, slabs, jitCodeStart)
               /\ Relocation(res, objects, f, syntheticSymbols, prog, weak)
  BY Relocates
<1>2. \A i \in DOMAIN objects : ~slabs[i].fatal /\ slabFits(slabs[i])
  <2>1. ASSUME NEW i \in DOMAIN objects
        PROVE  ~slabs[i].fatal /\ slabFits(slabs[i])
    <3>1. slabs[i] = loadObject(objects[i])
      BY DEF slabsOf
    <3>2. IsObject(objects[i]) /\ dataPadding(objects[i].sections) <= 128
      OBVIOUS
    <3>. HIDE DEF slabs
    <3>3. ~loadObject(objects[i]).fatal
      BY ONLY <3>2, ReservationSuffices
    <3>4. slabFits(loadObject(objects[i]))
      BY ONLY <3>2, SlabOfObject
    <3>. QED  BY ONLY <3>1, <3>3, <3>4
  <2>. QED  BY <2>1
<1>3. ~res.fatal /\ res.fits
  <2>1. /\ res.fatal = (\E i \in DOMAIN objects : slabs[i].fatal)
        /\ res.fits = (\A i \in DOMAIN objects : slabFits(slabs[i]))
    BY <1>1, Zenon DEF Relocation
  <2>. HIDE DEF slabs
  <2>. QED  BY ONLY <1>2, <2>1
<1>4. ASSUME ~tooLarge(res.relocInfos)
      PROVE  SectionsPlaced(res.sections)
  <2>0. jitCodeStart = 128
    BY DEF jitCodeStart, constStart, constLength, prologueLength
  <2>1. res.sections = UNION {{[s EXCEPT !.addr = f[i] + @] :
                                s \in Range(slabs[i].sections)} : i \in DOMAIN objects}
    BY <1>1, Zenon DEF Relocation
  <2>2. /\ \A s, t \in res.sections : s # t => Disjoint(s, t)
        /\ \A s \in res.sections :
             /\ s.addr \in Nat /\ s.section.size \in Nat
             /\ s.addr % s.section.align = 0 /\ s.addr >= 128
             /\ \A n : n = N => s.addr + s.section.size <= f[n] + slabs[n].allocatedSize
        /\ \A n : n = N /\ n # 0 =>
             /\ f[n] + slabs[n].allocatedSize \in Nat
             /\ (f[n] + slabs[n].allocatedSize) % 4096 = 128
    <3>1. /\ Len(objects) \in Nat /\ DOMAIN objects = 1 .. Len(objects)
          /\ \A i \in DOMAIN objects : IsObject(objects[i])
          /\ Follows(f, Len(objects), slabsOf(objects), jitCodeStart)
      BY <1>1
    <3>2. RelocatedTo(res.sections, objects, f)
      BY ONLY <2>1 DEF RelocatedTo
    <3>3. PlacedIn(res.sections, objects, f)
      BY ONLY <3>1, <3>2, Placed
    <3>. QED  BY ONLY <3>3 DEF PlacedIn
  <2>3. CASE N = 0
    <3>1. DOMAIN objects = {}
      BY <2>3
    <3>2. res.sections = {}
      <4>. HIDE DEF slabs
      <4>. QED  BY <2>1, <3>1
    <3>. QED  BY <3>2 DEF SectionsPlaced
  <2>4. CASE N # 0
    <3>. DEFINE end == f[N] + slabs[N].allocatedSize
    <3>1. end \in Nat /\ end % 4096 = 128
      <4>. HIDE DEF N, slabs
      <4>. QED  BY <2>2, <2>4
    <3>2. end <= textSegSize
      <4>1. N \in DOMAIN objects /\ DOMAIN objects = 1 .. N /\ N \in Nat
        BY <2>4
      <4>2. res.relocInfos =
              [i \in DOMAIN objects |-> [RelocAddr |-> f[i], Size |-> slabs[i].allocatedSize]]
        BY <1>1, Zenon DEF Relocation
      <4>. HIDE DEF N, slabs
      <4>3. Len(res.relocInfos) = N /\ res.relocInfos[N].RelocAddr = f[N]
            /\ res.relocInfos[N].Size = slabs[N].allocatedSize
        BY <4>1, <4>2
      <4>4. ~(end > textSegSize)
        BY <1>4, <4>3 DEF tooLarge
      <4>. HIDE DEF end
      <4>5. textSegSize \in Nat
        BY DEF textSegSize
      <4>. QED  BY <3>1, <4>4, <4>5
    <3>. HIDE DEF end
    <3>3. end <= textSegSize - replayInstSize
      BY ONLY <3>1, <3>2 DEF textSegSize, replayInstSize
    <3>4. textSegSize - replayInstSize \in Nat
      BY DEF textSegSize, replayInstSize
    <3>5. ASSUME NEW s \in res.sections
          PROVE  /\ s.addr % s.section.align = 0
                 /\ s.addr >= jitCodeStart
                 /\ s.addr + s.section.size <= textSegSize - replayInstSize
      <4>1. /\ s.addr \in Nat /\ s.section.size \in Nat /\ s.addr >= 128
            /\ s.addr + s.section.size <= end
        <5>. HIDE DEF N, slabs
        <5>. QED  BY <2>2 DEF end
      <4>2. s.addr % s.section.align = 0
        BY <2>2
      <4>3. s.addr >= jitCodeStart
        BY ONLY <2>0, <4>1
      <4>4. s.addr + s.section.size <= textSegSize - replayInstSize
        BY ONLY <3>1, <3>3, <3>4, <4>1
      <4>. QED  BY ONLY <4>2, <4>3, <4>4
    <3>6. ASSUME NEW s \in res.sections, NEW t \in res.sections, s # t
          PROVE  Disjoint(s, t)
      BY <2>2, <3>6
    <3>. QED  BY ONLY <3>5, <3>6 DEF SectionsPlaced
  <2>. QED  BY <2>3, <2>4
<1>5. ASSUME ~res.failed
      PROVE  SymbolsFound(res.externals, prog, weak)
  <2>1. /\ res.failed = (\E x \in DOMAIN res.externals : res.externals[x] = 0)
        /\ \A x \in DOMAIN res.externals :
             res.externals[x] = findSymbol(x, syntheticSymbols, prog, weak)
    BY <1>1, Zenon DEF Relocation
  <2>2. ASSUME NEW x \in DOMAIN res.externals
        PROVE  IF x \in DOMAIN syntheticSymbols THEN res.externals[x] = syntheticSymbols[x]
               ELSE \/ res.externals[x] \in definitions(prog, x)
                    \/ x \in weak /\ res.externals[x] = Unresolved
    <3>1. res.externals[x] # 0
          /\ res.externals[x] = findSymbol(x, syntheticSymbols, prog, weak)
      BY <1>5, <2>1
    <3>. QED  BY <3>1, SymbolResolved, Zenon
  <2>. QED  BY ONLY <2>2 DEF SymbolsFound
<1>. QED  BY <1>3, <1>4, <1>5

\* Every object file holds code for a type of the program, and what was written to
\* a target is linked.
HasCode(file) == file.build \in {1, 2} /\ file.type.name \in DOMAIN env.objects[file.build]
ObjectsTyped == \A p \in DOMAIN disk : p[3] = ".o" => HasCode(disk[p])
ImageLinked(image, prog) ==
  /\ ~image.fatal /\ image.fits
  /\ image.written =>
       /\ SectionsPlaced(image.sections)
       /\ SymbolsFound(image.externals, prog, env.weak)
RunLinked(o) ==
  /\ IsFiniteSet(o.objectFiles) /\ \A p \in o.objectFiles : p[3] = ".o"
  /\ ImageLinked(o.image, programOf(o))
LinkInv == ObjectsTyped /\ \A d \in Debuggers : RunLinked(oid[d])

\* There is code for the type of what is found.
LEMMA ObjectCoded ==
  ASSUME NEW prog, WellFormed(prog), NEW drgn, NEW attached, NEW r,
         NEW funcDescs, FuncsOf(prog, funcDescs), NEW globalDescs, GlobalsOf(prog, globalDescs),
         NEW object, object # Null,
         object = TargetObject(prog, drgn, descriptorsFor(r, funcDescs, globalDescs), r, attached)
  PROVE  CountedType(prog, r) \in codeTypes(prog)
<1>1. CASE r.type = "global"
  <2>1. r.func \in DOMAIN prog.globals
    BY <1>1, ObjectDeclared
  <2>2. CountedType(prog, r) = prog.globals[r.func]
    BY <1>1 DEF CountedType, DeclaredType
  <2>. QED  BY <2>1, <2>2 DEF codeTypes
<1>2. CASE r.type # "global"
  <2>. DEFINE fd == createFuncDesc(prog, r.func)
              f == prog.funcs[r.func]
  <2>1. fd # Null /\ object = getArgument(fd, r.arg)
    <3>1. findFuncDesc(prog, drgn, funcDescs, r.func) # Null
          /\ object = getArgument(findFuncDesc(prog, drgn, funcDescs, r.func), r.arg)
      BY <1>2 DEF TargetObject, descriptorsFor
    <3>. QED  BY <3>1, FoundFuncDesc
  <2>2. r.func \in DOMAIN prog.funcs /\ f \in Range(prog.funcs)
    <3>1. r.func \in DOMAIN prog.funcs
      BY <2>1, FuncDesc
    <3>. QED  BY <3>1 DEF Range
  <2>3. fd.retval.valid => getTypeName(f.ret) # Void
    <3>. DEFINE ret == [valid |-> getTypeName(f.ret) # Void, typeName |-> getTypeName(f.ret)]
    <3>1. fd.retval = ret
      BY <2>1 DEF createFuncDesc
    <3>. DEFINE valued == getTypeName(f.ret) # Void
    <3>2. ret = [valid |-> valued, typeName |-> getTypeName(f.ret)]
      OBVIOUS
    <3>. HIDE DEF fd, f, ret, valued
    <3>3. ret.valid = valued
      BY <3>2
    <3>. QED  BY <3>1, <3>3 DEF valued
  <2>4. CASE r.arg = Retval
    <3>1. CountedType(prog, r) = f.ret
      <4>1. Retval # This /\ ~(Retval.n >= 0)
        BY DEF Retval, This
      <4>. QED  BY <1>2, <2>4, <4>1 DEF CountedType, DeclaredType
    <3>2. fd.retval.valid
      <4>. HIDE DEF fd
      <4>. QED  BY <2>1, <2>4 DEF getArgument
    <3>3. f.ret \in {g.ret : g \in {g \in Range(prog.funcs) : getTypeName(g.ret) # Void}}
      <4>. HIDE DEF fd, f
      <4>. QED  BY <2>2, <2>3, <3>2
    <3>. QED  BY <3>1, <3>3 DEF codeTypes
  <2>5. CASE r.arg # Retval
    <3>. DEFINE i == getArgumentIndex(fd, r.arg)
    <3>1. i # 0
      <4>. HIDE DEF fd
      <4>. QED  BY <2>1, <2>5 DEF getArgument
    <3>2. i \in DOMAIN f.params /\ CountedType(prog, r) = f.params[i].type
      BY <1>2, <2>1, <3>1, ArgumentDeclared
    <3>. HIDE DEF i, fd, f
    <3>3. f.params[i].type
            \in UNION {{g.params[k].type : k \in DOMAIN g.params} : g \in Range(prog.funcs)}
      BY <2>2, <3>2
    <3>. QED  BY <3>2, <3>3 DEF codeTypes
  <2>. QED  BY <2>4, <2>5
<1>. QED  BY <1>1, <1>2

\* What compile writes is for such a type.
LEMMA CompiledType ==
  ASSUME SessionInv, InfoInv, NEW d \in Debuggers, oid[d].pc = "compile",
         NEW info, info = oid[d].typeInfos[req(d)]
  PROVE  /\ info.build \in {1, 2}
         /\ getTypeName(info.root.type).name \in DOMAIN env.objects[info.build]
<1>. DEFINE type == CountedType(Program(d), req(d))
<1>1. /\ WellFormed(Program(d)) /\ targetOf(d) # Null /\ IsType(type)
      /\ FuncsOf(Program(d), oid[d].funcDescs) /\ GlobalsOf(Program(d), oid[d].globalDescs)
      /\ RunInfo(oid[d]) /\ ThisBuild(oid[d].build)
  BY InfoAt DEF AtArgument
<1>2. targetOf(d) = TargetObject(Program(d), Drgn(d),
                      descriptorsFor(req(d), oid[d].funcDescs, oid[d].globalDescs),
                      req(d), Attached(d))
  BY RunNames
<1>3. type \in codeTypes(Program(d))
  BY <1>1, <1>2, ObjectCoded
<1>4. type.name \in DOMAIN env.objects[oid[d].build]
  <2>1. env \in Envs /\ oid[d].build \in {1, 2}
    BY <1>1 DEF SessionInv, ThisBuild
  <2>. HIDE DEF type
  <2>. QED  BY <1>3, <2>1, SessionAssumption DEF Program
<1>5. getTypeName(info.root.type) = getTypeName(type) /\ info.build = oid[d].build
  BY <1>1, RunNames DEF RunInfo, InfoOf
<1>6. getTypeName(type).name = type.name
  <2>. HIDE DEF type
  <2>1. type = [name |-> type.name, ptr |-> type.ptr]
    BY <1>1 DEF IsType
  <2>. QED  BY <2>1 DEF getTypeName
<1>. HIDE DEF type
<1>. QED  BY <1>1, <1>4, <1>5, <1>6 DEF ThisBuild

\* The files stay as they are or one is written.
LEMMA TypedKept ==
  ASSUME ObjectsTyped, env' = env,
         \/ disk' = disk
         \/ \E path, contents :
              /\ write(path, contents)
              /\ path[3] = ".o" => HasCode(contents)
  PROVE  ObjectsTyped'
<1>1. CASE disk' = disk
  BY <1>1 DEF ObjectsTyped, HasCode
<1>2. ASSUME NEW path, NEW contents, write(path, contents),
             path[3] = ".o" => HasCode(contents)
      PROVE  ObjectsTyped'
  <2>1. /\ DOMAIN disk' = DOMAIN disk \cup {path}
        /\ \A p \in DOMAIN disk' : disk'[p] = IF p = path THEN contents ELSE disk[p]
    BY <1>2 DEF write, assign
  <2>. QED  BY <1>2, <2>1 DEF ObjectsTyped, HasCode
<1>. QED  BY <1>1, <1>2

\* A step of one debugger.
LEMMA LinkStepOf ==
  ASSUME SessionInv, LinkInv, NEW d \in Debuggers, NEW o, Become(d, o), env' = env,
         ObjectsTyped', RunLinked(o)
  PROVE  LinkInv'
<1>1. oid'[d] = o /\ \A e \in Debuggers \ {d} : oid'[e] = oid[e]
  BY DEF SessionInv, Become
<1>2. ASSUME NEW e \in Debuggers
      PROVE  RunLinked(oid[e])'
  <2>1. RunLinked(oid'[e])
    BY <1>1 DEF LinkInv
  <2>. QED  BY <2>1 DEF RunLinked, ImageLinked, programOf
<1>. QED  BY <1>2 DEF LinkInv

\* A run that keeps its object files and its image, and one that has none.
KeepsImage(o, p) == o.objectFiles = p.objectFiles /\ o.image = p.image /\ o.build = p.build
Imageless(o) == o.objectFiles = {} /\ o.image = NoImage

\* What is linked stays so, and a run that has ended has nothing.
LEMMA LinkedKept ==
  ASSUME SessionInv, LinkInv, NEW d \in Debuggers, NEW o, Become(d, o), env' = env,
         ObjectsTyped', KeepsImage(o, oid[d]) \/ Imageless(o)
  PROVE  LinkInv'
<1>1. CASE KeepsImage(o, oid[d])
  <2>1. RunLinked(oid[d])
    BY DEF LinkInv
  <2>2. RunLinked(o)
    BY <1>1, <2>1 DEF RunLinked, KeepsImage, programOf
  <2>. QED  BY <2>2, LinkStepOf
<1>2. CASE Imageless(o)
  <2>1. ~NoImage.fatal /\ NoImage.fits /\ ~NoImage.written
    BY DEF NoImage
  <2>2. RunLinked(o)
    BY <1>2, <2>1, FS_EmptySet DEF RunLinked, ImageLinked, Imageless
  <2>. QED  BY <2>2, LinkStepOf
<1>. QED  BY <1>1, <1>2

\* A run that has ended has neither.
LEMMA LinkEnds ==
  ASSUME NEW d, NEW status
  PROVE  /\ Imageless(Fresh) /\ Imageless(Exited(d, status))
         /\ Imageless([Exited(d, status) EXCEPT !.fault = TRUE])
<1>1. Fresh.objectFiles = {} /\ Fresh.image = NoImage /\ IsOid(Fresh)
  BY DEF Fresh, IsOid, Fields
<1>2. Exited(d, status).objectFiles = {} /\ Exited(d, status).image = NoImage
      /\ IsOid(Exited(d, status))
  BY <1>1, FieldNames DEF Exited, IsOid
<1>3. Imageless([Exited(d, status) EXCEPT !.fault = TRUE])
  BY <1>2, FieldNames DEF IsOid, Imageless
<1>. QED  BY <1>1, <1>2, <1>3 DEF Imageless

\* Most steps leave the object files and the image as they are.
LEMMA StepKeepsImage ==
  ASSUME SessionInv, NEW d \in Debuggers,
         \/ \E options \in env.invocations : main(d, options)
         \/ runScript(d) \/ setupLogFile(d) \/ loadDescs(d) \/ checkCache(d) \/ loadPadding(d)
         \/ generateCode(d) \/ compile(d) \/ storeOpen(d) \/ storeWrite(d)
         \/ \E interrupted \in BOOLEAN : probe(d, interrupted)
         \/ Restoring(d) \/ processTargetData(d) \/ uploadCache(d) \/ kill(d)
  PROVE  env' = env /\ \E o : Become(d, o) /\ (KeepsImage(o, oid[d]) \/ Imageless(o))
<1>. DEFINE kept(o) == KeepsImage(o, oid[d]) \/ Imageless(o)
            goal == \E o : Become(d, o) /\ kept(o)
<1>0. IsOid(oid[d])
  BY RunAt
<1>e. ASSUME NEW status, Exit(d, status) \/ Fail(d, status)
      PROVE  goal
  BY <1>e, LinkEnds DEF Exit, Fail
<1>1. ASSUME NEW options \in env.invocations, main(d, options)
      PROVE  goal
  <2>. DEFINE c == Config(options)
              st == IF c.status = "Help" THEN "Success" ELSE c.status
              pc == IF c.status = "Success" THEN "script" ELSE "done"
              o == [Fresh EXCEPT !.config = c, !.build = build, !.status = st, !.pc = pc]
  <2>1. Become(d, o)
    BY <1>1 DEF main
  <2>. HIDE DEF c, st, pc
  <2>2. Imageless(o)
    BY DEF Fresh, Imageless
  <2>. HIDE DEF o
  <2>. QED  BY <2>1, <2>2
<1>2. ASSUME NEW pc, Become(d, [oid[d] EXCEPT !.pc = pc])
      PROVE  goal
  <2>. DEFINE o == [oid[d] EXCEPT !.pc = pc]
  <2>1. KeepsImage(o, oid[d])
    BY <1>0, FieldNames DEF IsOid, KeepsImage
  <2>2. Become(d, o)
    BY <1>2
  <2>. HIDE DEF o
  <2>. QED  BY <2>1, <2>2
<1>3. ASSUME runScript(d)
      PROVE  goal
  <2>1. (\E status : Exit(d, status)) \/ \E pc : Become(d, [oid[d] EXCEPT !.pc = pc])
    BY <1>3 DEF runScript
  <2>. QED  BY <1>2, <1>e, <2>1
<1>4. ASSUME setupLogFile(d)
      PROVE  goal
  <2>1. \/ Fail(d, "SegmentInitError") \/ Become(d, [oid[d] EXCEPT !.pc = "descs"])
        \/ \E fd : Become(d, [oid[d] EXCEPT !.pc = "descs", !.logFd = fd])
    BY <1>4 DEF setupLogFile
  <2>2. ASSUME NEW fd, Become(d, [oid[d] EXCEPT !.pc = "descs", !.logFd = fd])
        PROVE  goal
    <3>. DEFINE o == [oid[d] EXCEPT !.pc = "descs", !.logFd = fd]
    <3>1. KeepsImage(o, oid[d])
      BY <1>0, FieldNames DEF IsOid, KeepsImage
    <3>2. Become(d, o)
      BY <2>2
    <3>. HIDE DEF o
    <3>. QED  BY <3>1, <3>2
  <2>. HIDE DEF goal
  <2>. QED  BY <1>2, <1>e, <2>1, <2>2
<1>5. ASSUME loadDescs(d)
      PROVE  goal
  <2>1. \/ Exit(d, "CompilationError")
        \/ \E fs, gs : Become(d, [oid[d] EXCEPT !.pc = "check", !.funcDescs = fs,
                                                !.globalDescs = gs])
    BY <1>5 DEF loadDescs, Describe
  <2>2. ASSUME NEW fs, NEW gs, Become(d, [oid[d] EXCEPT !.pc = "check", !.funcDescs = fs,
                                                        !.globalDescs = gs])
        PROVE  goal
    <3>. DEFINE o == [oid[d] EXCEPT !.pc = "check", !.funcDescs = fs, !.globalDescs = gs]
    <3>1. KeepsImage(o, oid[d])
      BY <1>0, FieldNames DEF IsOid, KeepsImage
    <3>2. Become(d, o)
      BY <2>2
    <3>. HIDE DEF o
    <3>. QED  BY <3>1, <3>2
  <2>. HIDE DEF goal
  <2>. QED  BY <1>e, <2>1, <2>2
<1>6. ASSUME NEW pc, NEW infos, NEW th,
             Become(d, [oid[d] EXCEPT !.pc = pc, !.typeInfos = infos, !.th = th])
      PROVE  goal
  <2>. DEFINE o == [oid[d] EXCEPT !.pc = pc, !.typeInfos = infos, !.th = th]
  <2>1. KeepsImage(o, oid[d])
    BY <1>0, FieldNames DEF IsOid, KeepsImage
  <2>2. Become(d, o)
    BY <1>6
  <2>. HIDE DEF o
  <2>. QED  BY <2>1, <2>2
<1>7. ASSUME NEW pc, NEW th, Become(d, [oid[d] EXCEPT !.pc = pc, !.th = th])
      PROVE  goal
  <2>. DEFINE o == [oid[d] EXCEPT !.pc = pc, !.th = th]
  <2>1. KeepsImage(o, oid[d])
    BY <1>0, FieldNames DEF IsOid, KeepsImage
  <2>2. Become(d, o)
    BY <1>7
  <2>. HIDE DEF o
  <2>. QED  BY <2>1, <2>2
<1>8. ASSUME checkCache(d) \/ loadPadding(d)
      PROVE  goal
  <2>1. \/ \E pc : Become(d, [oid[d] EXCEPT !.pc = pc])
        \/ \E pc, th : Become(d, [oid[d] EXCEPT !.pc = pc, !.th = th])
        \/ \E pc, infos, th :
             Become(d, [oid[d] EXCEPT !.pc = pc, !.typeInfos = infos, !.th = th])
    <3>1. CASE checkCache(d)
      BY <3>1 DEF checkCache
    <3>2. CASE loadPadding(d)
      BY <3>2 DEF loadPadding
    <3>. QED  BY <1>8, <3>1, <3>2
  <2>. HIDE DEF goal
  <2>. QED  BY <1>2, <1>6, <1>7, <2>1
<1>9. ASSUME generateCode(d)
      PROVE  goal
  <2>1. \/ Exit(d, "CompilationError")
        \/ \E infos, todo : Become(d, [oid[d] EXCEPT !.pc = "compile", !.typeInfos = infos,
                                                     !.doCompile = todo])
    BY <1>9 DEF generateCode
  <2>2. ASSUME NEW infos, NEW todo,
               Become(d, [oid[d] EXCEPT !.pc = "compile", !.typeInfos = infos,
                                        !.doCompile = todo])
        PROVE  goal
    <3>. DEFINE o == [oid[d] EXCEPT !.pc = "compile", !.typeInfos = infos, !.doCompile = todo]
    <3>1. KeepsImage(o, oid[d])
      BY <1>0, FieldNames DEF IsOid, KeepsImage
    <3>2. Become(d, o)
      BY <2>2
    <3>. HIDE DEF o
    <3>. QED  BY <3>1, <3>2
  <2>. HIDE DEF goal
  <2>. QED  BY <1>e, <2>1, <2>2
<1>10. ASSUME compile(d)
       PROVE  goal
  <2>1. \/ Fail(d, "CompilationError")
        \/ \E pc, entity : Become(d, [oid[d] EXCEPT !.pc = pc, !.entity = entity,
                                                    !.doCompile = FALSE])
    BY <1>10 DEF compile
  <2>2. ASSUME NEW pc, NEW entity, Become(d, [oid[d] EXCEPT !.pc = pc, !.entity = entity,
                                                            !.doCompile = FALSE])
        PROVE  goal
    <3>. DEFINE o == [oid[d] EXCEPT !.pc = pc, !.entity = entity, !.doCompile = FALSE]
    <3>1. KeepsImage(o, oid[d])
      BY <1>0, FieldNames DEF IsOid, KeepsImage
    <3>2. Become(d, o)
      BY <2>2
    <3>. HIDE DEF o
    <3>. QED  BY <3>1, <3>2
  <2>. HIDE DEF goal
  <2>. QED  BY <1>e, <2>1, <2>2
<1>11. ASSUME storeOpen(d) \/ storeWrite(d)
       PROVE  goal
  <2>1. oid[d].pc \in {"store", "storing"}
    BY <1>11 DEF storeOpen, storeWrite, At
  <2>. DEFINE next == afterStore(d, oid[d].entity)
              pc == IF oid[d].entity = ".pd" THEN "next" ELSE "store"
  <2>2. \/ Become(d, [oid[d] EXCEPT !.pc = "storing"]) \/ Become(d, next)
        \/ Become(d, [next EXCEPT !.pc = pc])
    BY <1>11 DEF storeOpen, storeWrite
  <2>3. oid[d].entity \in {".fd", ".gd", ".th", ".pd"}
    BY <2>1, RunAt DEF FilesThere
  <2>. HIDE DEF pc
  <2>4. KeepsImage(next, oid[d]) /\ IsOid(next)
    <3>1. CASE oid[d].entity \in {".fd", ".gd"}
      BY <1>0, <3>1, FieldNames DEF afterStore, IsOid, KeepsImage
    <3>2. CASE oid[d].entity = ".th"
      BY <1>0, <3>2, FieldNames DEF afterStore, IsOid, KeepsImage
    <3>3. CASE oid[d].entity = ".pd"
      BY <1>0, <3>3, FieldNames DEF afterStore, IsOid, KeepsImage
    <3>. QED  BY <2>3, <3>1, <3>2, <3>3
  <2>. HIDE DEF next
  <2>5. KeepsImage([next EXCEPT !.pc = pc], oid[d])
    BY <2>4, FieldNames DEF IsOid, KeepsImage
  <2>6. kept(next) /\ kept([next EXCEPT !.pc = pc])
    BY <2>4, <2>5
  <2>. HIDE DEF kept
  <2>. QED  BY <1>2, <2>2, <2>6
<1>12. ASSUME NEW interrupted \in BOOLEAN, probe(d, interrupted)
       PROVE  goal
  <2>1. PICK threads : Become(d, [oid[d] EXCEPT !.pc = "restore", !.threads = threads,
                                                !.stops = AllRun, !.interrupted = interrupted])
    BY <1>12 DEF probe
  <2>. DEFINE o == [oid[d] EXCEPT !.pc = "restore", !.threads = threads,
                                  !.stops = AllRun, !.interrupted = interrupted]
  <2>2. KeepsImage(o, oid[d])
    BY <1>0, FieldNames DEF IsOid, KeepsImage
  <2>3. Become(d, o)
    BY <2>1
  <2>. HIDE DEF o
  <2>. QED  BY <2>2, <2>3
<1>13. ASSUME Restoring(d)
       PROVE  env' = env /\ goal
  <2>1. /\ env' = env
        /\ \/ \E pc : Become(d, [oid[d] EXCEPT !.pc = pc])
           \/ \E threads, stops :
                Become(d, [oid[d] EXCEPT !.threads = threads, !.stops = stops])
    BY <1>13, RestoreSteps
  <2>2. ASSUME NEW threads, NEW stops,
               Become(d, [oid[d] EXCEPT !.threads = threads, !.stops = stops])
        PROVE  goal
    <3>. DEFINE o == [oid[d] EXCEPT !.threads = threads, !.stops = stops]
    <3>1. KeepsImage(o, oid[d])
      BY <1>0, FieldNames DEF IsOid, KeepsImage
    <3>2. Become(d, o)
      BY <2>2
    <3>. HIDE DEF o
    <3>. QED  BY <3>1, <3>2
  <2>. HIDE DEF goal
  <2>. QED  BY <1>2, <2>1, <2>2
<1>14. ASSUME processTargetData(d) \/ uploadCache(d)
       PROVE  goal
  <2>1. \/ \E status : Exit(d, status) \/ Fail(d, status)
        \/ Become(d, [oid[d] EXCEPT !.pc = "upload"])
    BY <1>14 DEF processTargetData, uploadCache
  <2>. QED  BY <1>2, <1>e, <2>1
<1>15. ASSUME kill(d)
       PROVE  goal
  BY <1>15, LinkEnds DEF kill
<1>16. env' = env
  BY <1>13 DEF main, runScript, setupLogFile, loadDescs, checkCache, loadPadding,
               generateCode, compile, storeOpen, storeWrite, probe, processTargetData,
               uploadCache, kill
<1>. HIDE DEF goal
<1>17. goal
  BY <1>1, <1>3, <1>4, <1>5, <1>8, <1>9, <1>10, <1>11, <1>12, <1>13, <1>14, <1>15
<1>. QED  BY <1>16, <1>17 DEF goal

Linkable == \A e \in Envs : objectsLinkable(e)

\* Naming the function it defines changes nothing for the memory manager.
LEMMA MergedObject ==
  ASSUME NEW obj, IsObject(obj), NEW names, NEW m, m = merge([defines |-> names], obj)
  PROVE  IsObject(m) /\ m.sections = obj.sections /\ m.defines = names
<1>1. "sections" \in DOMAIN obj
  BY DEF IsObject
<1>. DEFINE r == [defines |-> names]
<1>2. DOMAIN r = {"defines"} /\ r.defines = names /\ "sections" # "defines"
  OBVIOUS
<1>. HIDE DEF r
<1>3. m = [x \in DOMAIN r \cup DOMAIN obj |-> IF x \in DOMAIN r THEN r[x] ELSE obj[x]]
  BY DEF merge, r
<1>4. "sections" \in DOMAIN m /\ m.sections = obj.sections /\ m.defines = names
  BY <1>1, <1>2, <1>3
<1>. QED  BY <1>4 DEF IsObject

\* What applyRelocs makes of the object files of a run.
LEMMA RelocatedFiles ==
  ASSUME SessionInv, InfoInv, LinkInv, Linkable, NEW d \in Debuggers, NEW paths,
         paths = SetToSeq(oid[d].objectFiles), NEW files,
         files = [i \in DOMAIN paths |-> disk[paths[i]]], NEW res,
         res = relocated(d, files)
  PROVE  /\ ~res.fatal /\ res.fits
         /\ ~tooLarge(res.relocInfos) => SectionsPlaced(res.sections)
         /\ ~res.failed => SymbolsFound(res.externals, Program(d), env.weak)
<1>. DEFINE N == Cardinality(oid[d].objectFiles)
            objects == [i \in DOMAIN files |->
                          merge([defines |-> {files[i].type}],
                                env.objects[files[i].build][files[i].type.name])]
<1>1. /\ IsFiniteSet(oid[d].objectFiles) /\ ObjectsTyped
      /\ \A p \in oid[d].objectFiles : p[3] = ".o"
  BY DEF LinkInv, RunLinked
<1>2. oid[d].objectFiles \subseteq DOMAIN disk
  BY RunAt DEF FilesThere
<1>3. N \in Nat /\ DOMAIN paths = 1 .. N /\ \A i \in 1 .. N : paths[i] \in oid[d].objectFiles
  BY <1>1, AllInSequence DEF Range
<1>. HIDE DEF N
<1>4. DOMAIN files = 1 .. N
  BY <1>3
<1>5. ASSUME NEW i \in 1 .. N
      PROVE  HasCode(files[i])
  <2>1. paths[i] \in DOMAIN disk /\ paths[i][3] = ".o" /\ i \in DOMAIN paths
    BY <1>1, <1>2, <1>3
  <2>2. files[i] = disk[paths[i]]
    BY <2>1
  <2>. QED  BY <1>1, <2>1, <2>2 DEF ObjectsTyped
<1>6. objectsLinkable(env)
  BY DEF Linkable, SessionInv
<1>7. ASSUME NEW i \in 1 .. N
      PROVE  IsObject(objects[i]) /\ dataPadding(objects[i].sections) <= 128
  <2>. DEFINE obj == env.objects[files[i].build][files[i].type.name]
  <2>1. IsObject(obj) /\ dataPadding(obj.sections) <= 128
    BY <1>5, <1>6 DEF objectsLinkable, HasCode
  <2>2. objects[i] = merge([defines |-> {files[i].type}], obj)
    BY <1>4
  <2>. HIDE DEF obj, objects
  <2>3. IsObject(objects[i]) /\ objects[i].sections = obj.sections
    BY ONLY <2>1, <2>2, MergedObject
  <2>. QED  BY ONLY <2>1, <2>3
<1>8. DOMAIN objects = 1 .. N /\ Len(objects) = N
  <2>1. DOMAIN objects = DOMAIN files
    BY Zenon
  <2>. HIDE DEF objects
  <2>. QED  BY ONLY <1>3, <1>4, <2>1
<1>9. res = applyRelocs(jitCodeStart, objects, syntheticSymbols, Program(d), env.weak)
  BY Zenon DEF relocated
<1>10. WellFormed(Program(d))
  BY InfoAt
<1>. HIDE DEF objects
<1>11. /\ Len(objects) \in Nat /\ DOMAIN objects = 1 .. Len(objects)
       /\ \A i \in DOMAIN objects :
            IsObject(objects[i]) /\ dataPadding(objects[i].sections) <= 128
  BY ONLY <1>3, <1>7, <1>8
<1>. QED  BY ONLY <1>9, <1>10, <1>11, Linked

\* Relocation does not end oid, and what is written is linked.
LEMMA LinkLinks ==
  ASSUME SessionInv, InfoInv, LinkInv, Linkable, NEW d \in Debuggers, link(d)
  PROVE  LinkInv'
<1>. DEFINE paths == SetToSeq(oid[d].objectFiles)
            files == [i \in DOMAIN paths |-> disk[paths[i]]]
            res == relocated(d, files)
            target(i) == TargetObject(Program(d), Drgn(d), descsOf(d),
                                      getReqForArg(d, i), Attached(d)).typeName
            code == [t \in {f.type : f \in Range(files)} |->
                       CHOOSE f \in Range(files) : f.type = t]
            calls == [i \in 1 .. argCount(d) |-> target(i)]
            image == [written |-> TRUE, fatal |-> FALSE, fits |-> res.fits,
                      sections |-> res.sections, externals |-> res.externals,
                      code |-> code, calls |-> calls, logFile |-> oid[d].logFd]
            pc == IF oid[d].config.compAndExit THEN "upload" ELSE "probe"
<1>1. UNCHANGED <<env, build, disk, fds>>
  BY DEF link
<1>2. /\ ~res.fatal /\ res.fits
      /\ ~tooLarge(res.relocInfos) => SectionsPlaced(res.sections)
      /\ ~res.failed => SymbolsFound(res.externals, Program(d), env.weak)
  <2>1. files = [i \in DOMAIN paths |-> disk[paths[i]]]
    OBVIOUS
  <2>. HIDE DEF res, files, paths
  <2>. QED  BY <2>1, RelocatedFiles DEF res, paths
<1>3. \/ Exit(d, "CompilationError") \/ Exit(d, "Aborted")
      \/ /\ ~res.failed /\ ~tooLarge(res.relocInfos)
         /\ Become(d, [oid[d] EXCEPT !.pc = pc, !.image = image])
  <2>1. ~res.fatal
    BY <1>2
  <2>. QED  BY <2>1, Zenon DEF link
<1>4. ObjectsTyped'
  BY <1>1, TypedKept DEF LinkInv
<1>5. CASE Exit(d, "CompilationError") \/ Exit(d, "Aborted")
  BY <1>1, <1>4, <1>5, LinkEnds, LinkedKept DEF Exit
<1>. HIDE DEF pc, res
<1>6. CASE /\ ~res.failed /\ ~tooLarge(res.relocInfos)
           /\ Become(d, [oid[d] EXCEPT !.pc = pc, !.image = image])
  <2>. HIDE DEF code, calls
  <2>1. /\ image.written /\ ~image.fatal /\ image.fits = res.fits
        /\ image.sections = res.sections /\ image.externals = res.externals
    OBVIOUS
  <2>. HIDE DEF image
  <2>. DEFINE o == [oid[d] EXCEPT !.pc = pc, !.image = image]
  <2>2. o.image = image /\ o.objectFiles = oid[d].objectFiles /\ o.build = oid[d].build
    BY RunAt, FieldNames DEF IsOid
  <2>3. Become(d, o)
    BY <1>6
  <2>. HIDE DEF o
  <2>4. ImageLinked(image, Program(d))
    BY <1>2, <1>6, <2>1 DEF ImageLinked
  <2>5. programOf(o) = Program(d)
    BY <2>2 DEF programOf, Program
  <2>6. RunLinked(oid[d])
    BY DEF LinkInv
  <2>7. RunLinked(o)
    BY <2>2, <2>4, <2>5, <2>6 DEF RunLinked
  <2>. QED  BY <1>1, <1>4, <2>3, <2>7, LinkStepOf
<1>. QED  BY <1>3, <1>5, <1>6

\* One more object file.
LEMMA NextArgLinked ==
  ASSUME SessionInv, LinkInv, NEW d \in Debuggers, nextArg(d)
  PROVE  LinkInv'
<1>. DEFINE path == getPath(d, ".o")
            a == IF oid[d].arg < argCount(d) THEN oid[d].arg + 1 ELSE oid[d].arg
            pc == IF oid[d].arg < argCount(d) THEN "descs"
                  ELSE IF Attached(d) THEN "link" ELSE "upload"
            o == [oid[d] EXCEPT !.objectFiles = @ \cup {path}, !.arg = a, !.pc = pc]
<1>1. Become(d, o) /\ UNCHANGED <<env, build, disk>>
  BY DEF nextArg
<1>2. path[3] = ".o"
  BY DEF getPath
<1>. HIDE DEF path, a, pc
<1>3. /\ o.objectFiles = oid[d].objectFiles \cup {path} /\ o.image = oid[d].image
      /\ o.build = oid[d].build
  BY RunAt, FieldNames DEF IsOid
<1>. HIDE DEF o
<1>4. RunLinked(oid[d])
  BY DEF LinkInv
<1>5. IsFiniteSet(oid[d].objectFiles \cup {path})
  BY <1>4, FS_AddElement DEF RunLinked
<1>6. RunLinked(o)
  BY <1>2, <1>3, <1>4, <1>5 DEF RunLinked, programOf
<1>7. ObjectsTyped'
  BY <1>1, TypedKept DEF LinkInv
<1>. QED  BY <1>1, <1>6, <1>7, LinkStepOf

\* The files the other steps write.
LEMMA StepKeepsTypes ==
  ASSUME SessionInv, InfoInv, LinkInv, NEW d \in Debuggers,
         \/ \E options \in env.invocations : main(d, options)
         \/ runScript(d) \/ setupLogFile(d) \/ loadDescs(d) \/ checkCache(d) \/ loadPadding(d)
         \/ generateCode(d) \/ compile(d) \/ storeOpen(d) \/ storeWrite(d)
         \/ \E interrupted \in BOOLEAN : probe(d, interrupted)
         \/ Restoring(d) \/ processTargetData(d) \/ uploadCache(d) \/ kill(d)
  PROVE  ObjectsTyped'
<1>1. env' = env
  BY StepKeepsImage
<1>2. \A ext : getPath(d, ext)[3] = ext
  BY DEF getPath
<1>. DEFINE written == \E path, contents :
                         /\ write(path, contents)
                         /\ path[3] = ".o" => HasCode(contents)
<1>3. ASSUME generateCode(d)
      PROVE  disk' = disk \/ written
  BY <1>2, <1>3 DEF generateCode
<1>4. ASSUME compile(d)
      PROVE  disk' = disk \/ written
  <2>1. oid[d].pc = "compile"
    BY <1>4 DEF compile, At
  <2>. DEFINE info == oid[d].typeInfos[req(d)]
              obj == [build |-> info.build, config |-> info.config,
                      type |-> getTypeName(info.root.type),
                      custom |-> oid[d].config.customCode]
  <2>2. disk' = disk \/ write(getPath(d, ".o"), obj)
    BY <1>4 DEF compile
  <2>3. obj.type = getTypeName(info.root.type) /\ obj.build = info.build
    OBVIOUS
  <2>. HIDE DEF obj
  <2>4. HasCode(obj)
    BY <2>1, <2>3, CompiledType DEF HasCode
  <2>. QED  BY <2>2, <2>4
<1>5. ASSUME storeOpen(d) \/ storeWrite(d)
      PROVE  disk' = disk \/ written
  <2>1. oid[d].entity # ".o"
    <3>1. oid[d].pc \in {"store", "storing"}
      BY <1>5 DEF storeOpen, storeWrite, At
    <3>. QED  BY <3>1, RunAt DEF FilesThere
  <2>2. disk' = disk \/ \E contents : write(getPath(d, oid[d].entity), contents)
    BY <1>5 DEF storeOpen, storeWrite
  <2>. QED  BY <1>2, <2>1, <2>2
<1>6. ASSUME \/ \E options \in env.invocations : main(d, options)
             \/ runScript(d) \/ setupLogFile(d) \/ loadDescs(d) \/ checkCache(d)
             \/ loadPadding(d) \/ \E interrupted \in BOOLEAN : probe(d, interrupted)
             \/ Restoring(d) \/ processTargetData(d) \/ uploadCache(d) \/ kill(d)
      PROVE  disk' = disk
  BY <1>6, RestoreSteps DEF main, runScript, setupLogFile, loadDescs, checkCache,
                            loadPadding, probe, processTargetData, uploadCache, kill
<1>7. disk' = disk \/ written
  <2>. HIDE DEF written
  <2>. QED  BY <1>3, <1>4, <1>5, <1>6
<1>. QED  BY <1>1, <1>7, TypedKept DEF LinkInv

\* The invariant holds initially,
LEMMA LinkInit == Init => LinkInv
<1>. SUFFICES ASSUME Init
              PROVE  LinkInv
  OBVIOUS
<1>1. Imageless(Fresh) /\ ~NoImage.fatal /\ NoImage.fits /\ ~NoImage.written
  BY LinkEnds DEF NoImage
<1>2. \A d \in Debuggers : oid[d] = Fresh
  BY DEF Init
<1>3. \A d \in Debuggers : RunLinked(oid[d])
  BY <1>1, <1>2, FS_EmptySet DEF RunLinked, ImageLinked, Imageless
<1>4. ObjectsTyped
  BY DEF Init, ObjectsTyped
<1>. QED  BY <1>3, <1>4 DEF LinkInv

\* and every step keeps it.
LEMMA LinkStep ==
  ASSUME Linkable
  PROVE  SessionInv /\ InfoInv /\ LinkInv /\ [Next]_vars => LinkInv'
<1>. SUFFICES ASSUME SessionInv, InfoInv, LinkInv, [Next]_vars
              PROVE  LinkInv'
  OBVIOUS
<1>1. ASSUME NEW d \in Debuggers,
             \/ \E options \in env.invocations : main(d, options)
             \/ runScript(d) \/ setupLogFile(d) \/ loadDescs(d) \/ checkCache(d)
             \/ loadPadding(d) \/ generateCode(d) \/ compile(d) \/ storeOpen(d)
             \/ storeWrite(d) \/ \E interrupted \in BOOLEAN : probe(d, interrupted)
             \/ Restoring(d) \/ processTargetData(d) \/ uploadCache(d) \/ kill(d)
      PROVE  LinkInv'
  <2>1. PICK o : env' = env /\ Become(d, o) /\ (KeepsImage(o, oid[d]) \/ Imageless(o))
    BY <1>1, StepKeepsImage
  <2>2. ObjectsTyped'
    BY <1>1, StepKeepsTypes
  <2>. QED  BY <2>1, <2>2, LinkedKept
<1>2. ASSUME NEW d \in Debuggers, nextArg(d) \/ link(d)
      PROVE  LinkInv'
  BY <1>2, NextArgLinked, LinkLinks
<1>3. ASSUME UNCHANGED <<env, disk, oid>>
      PROVE  LinkInv'
  BY <1>3 DEF LinkInv, ObjectsTyped, HasCode, RunLinked, ImageLinked, programOf
<1>4. CASE \E d \in Debuggers : openFile(d) \/ \E fd \in 0 .. LastFd : closeFile(d, fd)
  BY <1>3, <1>4 DEF openFile, closeFile
<1>5. CASE rebuild
  BY <1>3, <1>5 DEF rebuild
<1>6. CASE UNCHANGED vars
  BY <1>3, <1>6 DEF vars
<1>. QED  BY <1>1, <1>2, <1>4, <1>5, <1>6 DEF Next, Restoring

-----------------------------------------------------------------------------
(***************************************************************************)
(* Why a run fails: the code is relocated alike in whatever order the      *)
(* object files are, and no descriptor of the cache makes a run fail       *)
(***************************************************************************)

\* The object file for a type, compiled for a build, the files for some types, that
\* of type t compiled for B[t], and what applyRelocs makes of them for a program.
fileFor(t, B) == merge([defines |-> {t}], env.objects[B[t]][t.name])
filesFor(types, B) == [i \in DOMAIN types |-> fileFor(types[i], B)]
relocatedFor(prog, types, B) ==
  applyRelocs(jitCodeStart, filesFor(types, B), syntheticSymbols, prog, env.weak)
Coded(R, B) == \A t \in R : B[t] \in {1, 2} /\ t.name \in DOMAIN env.objects[B[t]]

\* s lists the members of R, each once.
Lists(s, n, R) ==
  n \in Nat /\ DOMAIN s = 1 .. n /\ Once(s, n) /\ First(s, n) = R

\* The size of the slab for each type.
sizesOf(types, B) == [t \in types |-> loadObject(fileFor(t, B)).allocatedSize]

\* It is a number.
LEMMA SizesTyped ==
  ASSUME objectsLinkable(env), NEW R, NEW B, Coded(R, B), NEW t \in R
  PROVE  sizesOf(R, B)[t] \in Int
<1>1. IsObject(env.objects[B[t]][t.name])
  BY DEF objectsLinkable, Coded
<1>2. PICK obj : obj = fileFor(t, B) /\ IsObject(obj)
  BY ONLY <1>1, MergedObject DEF fileFor
<1>3. loadObject(obj).allocatedSize \in Nat
  BY ONLY <1>2, SlabOfObject
<1>. QED  BY <1>2, <1>3 DEF sizesOf

\* Where the last slab ends, as a sum over the types.
LEMMA EndFor ==
  ASSUME objectsLinkable(env), NEW prog, NEW n \in Nat \ {0}, NEW R, NEW s, Lists(s, n, R),
         NEW B, Coded(R, B), NEW W, W = sizesOf(R, B),
         NEW res, res = relocatedFor(prog, s, B)
  PROVE  /\ \E g : /\ Adds(g, n, s, W, 128)
                   /\ tooLarge(res.relocInfos) <=> g[n] > textSegSize
         /\ res.failed <=> \E x \in UNION {o.externals : o \in Range(filesFor(s, B))} :
                             findSymbol(x, syntheticSymbols, prog, env.weak) = 0
         /\ DOMAIN res.symbols = R
<1>. DEFINE objects == filesFor(s, B)
            slabs == slabsOf(objects)
            object(t) == fileFor(t, B)
<1>1. DOMAIN s = 1 .. n /\ Once(s, n) /\ First(s, n) = R
  BY DEF Lists
<1>2. DOMAIN objects = 1 .. n /\ Len(objects) = n
  BY <1>1 DEF filesFor
<1>3. ASSUME NEW t \in R
      PROVE  IsObject(object(t)) /\ object(t).defines = {t}
  <2>1. IsObject(env.objects[B[t]][t.name])
    BY DEF objectsLinkable, Coded
  <2>. QED  BY ONLY <2>1, MergedObject DEF fileFor
<1>4. ASSUME NEW i \in 1 .. n
      PROVE  s[i] \in R /\ objects[i] = object(s[i])
  BY <1>1 DEF First, filesFor
<1>5. Len(objects) \in Nat /\ n \in 1 .. n
  BY <1>2
<1>6. res = applyRelocs(jitCodeStart, objects, syntheticSymbols, prog, env.weak)
  BY Zenon DEF relocatedFor
<1>7. PICK f : /\ Follows(f, n, slabs, jitCodeStart)
               /\ Relocation(res, objects, f, syntheticSymbols, prog, env.weak)
  <2>. HIDE DEF objects
  <2>. QED  BY ONLY <1>2, <1>5, <1>6, Relocates
<1>8. ASSUME NEW i \in 1 .. n
      PROVE  /\ slabs[i].allocatedSize \in Nat /\ slabs[i].allocatedSize % 4096 = 0
             /\ W[s[i]] = slabs[i].allocatedSize
  <2>1. slabs[i] = loadObject(object(s[i])) /\ s[i] \in R
    <3>. HIDE DEF objects, object
    <3>. QED  BY <1>2, <1>4 DEF slabsOf
  <2>2. IsObject(object(s[i]))
    BY <1>3, <2>1
  <2>3. W[s[i]] = loadObject(object(s[i])).allocatedSize
    BY <2>1 DEF sizesOf
  <2>. HIDE DEF slabs, object
  <2>. QED  BY ONLY <2>1, <2>2, <2>3, SlabOfObject
<1>. HIDE DEF slabs, object
<1>9. jitCodeStart = 128
  BY DEF jitCodeStart, constStart, constLength, prologueLength
<1>10. PICK g : Adds(g, n, s, W, 128) /\ g[n] = f[n] + slabs[n].allocatedSize
  <2>1. Follows(f, n, slabs, 128)
    BY <1>7, <1>9
  <2>2. PICK base : base = 128
    OBVIOUS
  <2>3. \A i \in 1 .. n : /\ slabs[i].allocatedSize \in Nat
                         /\ slabs[i].allocatedSize % 4096 = 0
                         /\ W[s[i]] = slabs[i].allocatedSize
    BY <1>8
  <2>4. \E g : Adds(g, n, s, W, base) /\ g[n] = f[n] + slabs[n].allocatedSize
    BY ONLY n \in Nat \ {0}, <2>1, <2>2, <2>3, EndOfSlabs
  <2>. QED  BY <2>2, <2>4
<1>11. tooLarge(res.relocInfos) <=> g[n] > textSegSize
  <2>1. res.relocInfos =
          [i \in DOMAIN objects |-> [RelocAddr |-> f[i], Size |-> slabs[i].allocatedSize]]
    BY <1>7, Zenon DEF Relocation, slabs
  <2>. HIDE DEF objects
  <2>2. Len(res.relocInfos) = n /\ res.relocInfos[n].RelocAddr = f[n]
        /\ res.relocInfos[n].Size = slabs[n].allocatedSize
    BY <1>2, <1>5, <2>1
  <2>. QED  BY ONLY <1>10, <2>2 DEF tooLarge
<1>12. /\ res.failed = (\E x \in DOMAIN res.externals : res.externals[x] = 0)
       /\ \A x \in DOMAIN res.externals :
            res.externals[x] = findSymbol(x, syntheticSymbols, prog, env.weak)
       /\ DOMAIN res.externals = UNION {o.externals : o \in Range(objects)}
       /\ DOMAIN res.symbols = UNION {o.defines : o \in Range(objects)}
  BY <1>7, Zenon DEF Relocation
<1>13. UNION {o.defines : o \in Range(objects)} = R
  <2>1. Range(objects) = {object(t) : t \in R}
    <3>. HIDE DEF objects
    <3>. QED  BY <1>1, <1>2, <1>4 DEF Range, First
  <2>. HIDE DEF objects
  <2>. QED  BY <1>3, <2>1
<1>14. res.failed <=> \E x \in UNION {o.externals : o \in Range(objects)} :
                        findSymbol(x, syntheticSymbols, prog, env.weak) = 0
  <2>. HIDE DEF objects
  <2>. QED  BY ONLY <1>12
<1>. HIDE DEF objects
<1>. QED  BY <1>10, <1>11, <1>12, <1>13, <1>14 DEF objects

\* Two lists of the same types are relocated alike: either both or none.
LEMMA SameRelocation ==
  ASSUME objectsLinkable(env), NEW prog, NEW n \in Nat \ {0}, NEW R,
         NEW s, Lists(s, n, R), NEW t, Lists(t, n, R), NEW B, Coded(R, B)
  PROVE  /\ relocatedFor(prog, s, B).failed <=> relocatedFor(prog, t, B).failed
         /\ tooLarge(relocatedFor(prog, s, B).relocInfos)
              <=> tooLarge(relocatedFor(prog, t, B).relocInfos)
<1>. DEFINE object(x) == fileFor(x, B)
<1>0. PICK W : W = sizesOf(R, B)
  OBVIOUS
<1>a. ASSUME NEW u, Lists(u, n, R)
      PROVE  /\ \E g : /\ Adds(g, n, u, W, 128)
                       /\ tooLarge(relocatedFor(prog, u, B).relocInfos) <=> g[n] > textSegSize
             /\ \A x \in R : W[x] \in Int
  <2>1. PICK res : res = relocatedFor(prog, u, B)
    OBVIOUS
  <2>2. /\ objectsLinkable(env) /\ n \in Nat \ {0} /\ Lists(u, n, R)
        /\ Coded(R, B)
    BY <1>a
  <2>3. \E g : Adds(g, n, u, W, 128) /\ (tooLarge(res.relocInfos) <=> g[n] > textSegSize)
    BY ONLY <1>0, <2>1, <2>2, EndFor
  <2>4. ASSUME NEW x \in R
        PROVE  W[x] \in Int
    BY <1>0, <2>2, SizesTyped
  <2>. QED  BY ONLY <2>1, <2>3, <2>4
<1>1. PICK g : /\ Adds(g, n, s, W, 128)
               /\ tooLarge(relocatedFor(prog, s, B).relocInfos) <=> g[n] > textSegSize
  BY <1>a
<1>2. PICK h : /\ Adds(h, n, t, W, 128)
               /\ tooLarge(relocatedFor(prog, t, B).relocInfos) <=> h[n] > textSegSize
  BY <1>a
<1>3. \A x \in R : W[x] \in Int
  BY <1>a
<1>4. g[n] = h[n]
  <2>1. /\ Once(s, n) /\ Once(t, n) /\ First(s, n) = First(t, n)
        /\ \A x \in First(s, n) : W[x] \in Int
    BY <1>3 DEF Lists
  <2>. QED  BY ONLY n \in Nat \ {0}, <1>1, <1>2, <2>1, SameSum
<1>5. Range(filesFor(s, B)) = {object(x) : x \in R} /\ Range(filesFor(t, B)) = {object(x) : x \in R}
  <2>1. /\ DOMAIN s = 1 .. n /\ {s[i] : i \in 1 .. n} = R
        /\ DOMAIN t = 1 .. n /\ {t[i] : i \in 1 .. n} = R
    BY DEF Lists, First
  <2>2. ASSUME NEW u, DOMAIN u = 1 .. n, {u[i] : i \in 1 .. n} = R
        PROVE  Range(filesFor(u, B)) = {object(x) : x \in R}
    <3>1. filesFor(u, B) = [i \in 1 .. n |-> object(u[i])]
      BY <2>2 DEF filesFor
    <3>. HIDE DEF object
    <3>2. Range(filesFor(u, B)) = {object(u[i]) : i \in 1 .. n}
      BY <3>1 DEF Range
    <3>. QED  BY <2>2, <3>2
  <2>. QED  BY <2>1, <2>2
<1>6. relocatedFor(prog, s, B).failed <=> relocatedFor(prog, t, B).failed
  <2>1. relocatedFor(prog, s, B).failed
          <=> \E x \in UNION {o.externals : o \in Range(filesFor(s, B))} :
                findSymbol(x, syntheticSymbols, prog, env.weak) = 0
    BY EndFor
  <2>2. relocatedFor(prog, t, B).failed
          <=> \E x \in UNION {o.externals : o \in Range(filesFor(t, B))} :
                findSymbol(x, syntheticSymbols, prog, env.weak) = 0
    BY EndFor
  <2>. QED  BY ONLY <1>5, <2>1, <2>2
<1>. QED  BY <1>1, <1>2, <1>4, <1>6

\* A descriptor of the build that is known spares the lookup, and changes nothing.
LEMMA FoundWithout ==
  ASSUME NEW prog, NEW drgn, NEW attached, NEW r,
         NEW funcDescs, FuncsOf(prog, funcDescs), NEW globalDescs, GlobalsOf(prog, globalDescs),
         NEW descs, descs = descriptorsFor(r, funcDescs, globalDescs)
  PROVE  /\ TargetObject(prog, drgn, descs, r, attached) = Null
              => TargetObject(prog, drgn, <<>>, r, attached) = Null
         /\ getRootType(prog, drgn, descs, r, attached) = Null
              => getRootType(prog, drgn, <<>>, r, attached) = Null
<1>a. PICK none : none = <<>>
  OBVIOUS
<1>0. DOMAIN none = {}
  BY <1>a
<1>. SUFFICES /\ TargetObject(prog, drgn, descs, r, attached) = Null
                   => TargetObject(prog, drgn, none, r, attached) = Null
              /\ getRootType(prog, drgn, descs, r, attached) = Null
                   => getRootType(prog, drgn, none, r, attached) = Null
  BY <1>a
<1>1. CASE r.type = "global"
  <2>1. TargetObject(prog, drgn, descs, r, attached) = Null
          => TargetObject(prog, drgn, none, r, attached) = Null
    <3>1. descs = globalDescs
      BY <1>1 DEF descriptorsFor
    <3>. QED  BY <1>0, <1>1, <3>1 DEF TargetObject, findGlobalDesc, GlobalsOf
  <2>2. [varName |-> r.func, type |-> prog.globals[r.func]] # Null
    BY DEF Null
  <2>. QED  BY <1>1, <2>1, <2>2 DEF getRootType
<1>2. CASE r.type # "global"
  <2>. DEFINE fd == findFuncDesc(prog, drgn, descs, r.func)
              fe == findFuncDesc(prog, drgn, none, r.func)
  <2>1. fe = Null \/ fe = fd
    BY <1>0, <1>2 DEF findFuncDesc, FuncsOf, descriptorsFor
  <2>2. ~drgn \/ fe = fd
    BY <1>0, <1>2 DEF findFuncDesc, FuncsOf, descriptorsFor
  <2>. HIDE DEF fd, fe
  <2>3. TargetObject(prog, drgn, descs, r, attached) = Null
          => TargetObject(prog, drgn, none, r, attached) = Null
    BY <1>2, <2>1 DEF TargetObject, fd, fe
  <2>4. CASE ~drgn
    <3>1. getRootType(prog, drgn, none, r, attached) = Null
      BY <1>2, <2>4, Zenon DEF getRootType
    <3>. QED  BY <2>3, <3>1
  <2>5. CASE fe = fd
    <3>. DEFINE f == prog.funcs[r.func]
                root(e) ==
                  IF e = Null \/ ~drgn \/ r.func \notin DOMAIN prog.funcs THEN Null
                  ELSE IF isReturnRetVal(r) THEN [varName |-> "return", type |-> f.ret]
                  ELSE IF f.params = <<>> \/ getArgumentIndex(e, r.arg) = 0 THEN Null
                  ELSE IF ~e.arguments[getArgumentIndex(e, r.arg)].valid THEN Null
                  ELSE [varName |-> f.params[getArgumentIndex(e, r.arg)].name,
                        type |-> f.params[getArgumentIndex(e, r.arg)].type]
    <3>1. getRootType(prog, drgn, descs, r, attached) = root(fd)
      BY <1>2, Zenon DEF getRootType, fd
    <3>2. getRootType(prog, drgn, none, r, attached) = root(fe)
      BY <1>2, Zenon DEF getRootType, fe
    <3>. HIDE DEF root
    <3>. QED  BY ONLY <2>3, <2>5, <3>1, <3>2
  <2>. QED  BY <2>2, <2>4, <2>5
<1>. QED  BY <1>1, <1>2

\* What a run asks for, with no descriptor known, and why it may fail.
rootAlone(o, i) ==
  getRootType(programOf(o), ~o.config.hardDisableDrgn, <<>>, requestAt(o, i),
              o.config.attachToProcess)
objectAlone(o, i) ==
  TargetObject(programOf(o), ~o.config.hardDisableDrgn, <<>>, requestAt(o, i),
               o.config.attachToProcess)
typesAlone(o) == {getTypeName(rootAlone(o, i).type) : i \in 1 .. argCountOf(o)}
NotFound(o) ==
  \E i \in 1 .. argCountOf(o) : objectAlone(o, i) = Null \/ rootAlone(o, i) = Null
NotLinked(o, B) ==
  LET res == relocatedFor(programOf(o), SetToSeq(DOMAIN B), B) IN
  res.failed \/ tooLarge(res.relocInfos)
OwnBuild(o) == [t \in typesAlone(o) |-> o.build]
Refused(c) ==
  \/ c.status # "Success" \/ ~validateCache(c) \/ Len(c.script.reqs) # 1
  \/ c.removeMappings \/ c.cacheRemoteDownload \/ c.cacheRemoteUpload
Explained(o) ==
  Refused(o.config) \/ argCountOf(o) > 2 \/ NotFound(o) \/ NotLinked(o, OwnBuild(o))
Stale(d, o) ==
  build = 2 /\ ~Alone(d, o) /\ \E B \in [typesAlone(o) -> {1, 2}] : NotLinked(o, B)

\* What LeftoversHarmless says of a run.
Excused(d, o) ==
  o.pc = "done" /\ o.status # "Success" => o.fault \/ Explained(o) \/ Stale(d, o)
FailInv == \A d \in Debuggers : Excused(d, oid[d])

\* The property's words for the same.
LEMMA ExplainedNames ==
  ASSUME NEW d
  PROVE  (explained(d) <=> Explained(oid[d])) /\ (staleObject(d) <=> Stale(d, oid[d]))
<1>1. /\ \A i : getReqForArg(d, i) = requestAt(oid[d], i)
      /\ argCount(d) = argCountOf(oid[d]) /\ Program(d) = programOf(oid[d])
  BY RequestNames, RunNames
<1>2. /\ \A i : rootAlone(oid[d], i) =
                  getRootType(Program(d), Drgn(d), <<>>, getReqForArg(d, i), Attached(d))
      /\ \A i : objectAlone(oid[d], i) =
                  TargetObject(Program(d), Drgn(d), <<>>, getReqForArg(d, i), Attached(d))
  BY <1>1 DEF rootAlone, objectAlone, Drgn, Attached
<1>3. ASSUME NEW B
      PROVE  notLinked(d, B) <=> NotLinked(oid[d], B)
  <2>. DEFINE types == SetToSeq(DOMAIN B)
              files == [i \in DOMAIN types |-> [type |-> types[i], build |-> B[types[i]]]]
  <2>1. relocated(d, files) = relocatedFor(programOf(oid[d]), types, B)
    <3>. HIDE DEF types
    <3>1. [i \in DOMAIN files |-> merge([defines |-> {files[i].type}],
                                        env.objects[files[i].build][files[i].type.name])]
            = filesFor(types, B)
      BY DEF filesFor, fileFor
    <3>. HIDE DEF files
    <3>. QED  BY <1>1, <3>1, Zenon DEF relocated, relocatedFor
  <2>2. notLinked(d, B) <=>
          relocated(d, files).failed \/ tooLarge(relocated(d, files).relocInfos)
    BY Zenon DEF notLinked
  <2>3. NotLinked(oid[d], B) <=>
          \/ relocatedFor(programOf(oid[d]), types, B).failed
          \/ tooLarge(relocatedFor(programOf(oid[d]), types, B).relocInfos)
    BY Zenon DEF NotLinked
  <2>. HIDE DEF types, files
  <2>. QED  BY <2>1, <2>2, <2>3
<1>4. NotFound(oid[d]) <=>
        \E i \in 1 .. argCount(d) :
          \/ TargetObject(Program(d), Drgn(d), <<>>, getReqForArg(d, i), Attached(d)) = Null
          \/ rootOf(d, i) = Null
  BY <1>1, <1>2 DEF NotFound, rootOf
<1>5. typesOf(d) = typesAlone(oid[d])
  BY <1>1, <1>2 DEF typesAlone, typesOf, rootOf
<1>6. explained(d) <=>
        \/ Refused(oid[d].config) \/ argCount(d) > 2
        \/ \E i \in 1 .. argCount(d) :
             \/ TargetObject(Program(d), Drgn(d), <<>>, getReqForArg(d, i), Attached(d)) = Null
             \/ rootOf(d, i) = Null
        \/ notLinked(d, [t \in typesOf(d) |-> oid[d].build])
  BY Zenon DEF explained, Refused
<1>7. [t \in typesOf(d) |-> oid[d].build] = OwnBuild(oid[d])
  BY <1>5, Zenon DEF OwnBuild
<1>8. explained(d) <=> Explained(oid[d])
  BY <1>1, <1>3, <1>4, <1>6, <1>7 DEF Explained
<1>9. staleObject(d) <=> Stale(d, oid[d])
  BY <1>3, <1>5 DEF staleObject, Stale, isEnabled, Alone
<1>. QED  BY <1>8, <1>9

\* It depends on the configuration and the build, which a run keeps.
LEMMA ExplainedKept ==
  ASSUME NEW d, NEW o, NEW p, o.config = p.config, o.build = p.build
  PROVE  (Explained(o) <=> Explained(p)) /\ (Stale(d, o) <=> Stale(d, p))
<1>1. /\ \A i : requestAt(o, i) = requestAt(p, i)
      /\ argCountOf(o) = argCountOf(p) /\ programOf(o) = programOf(p)
  BY DEF requestAt, argCountOf, programOf
<1>2. \A i : rootAlone(o, i) = rootAlone(p, i) /\ objectAlone(o, i) = objectAlone(p, i)
  BY <1>1 DEF rootAlone, objectAlone
<1>3. typesAlone(o) = typesAlone(p)
  BY <1>1, <1>2 DEF typesAlone
<1>4. NotFound(o) <=> NotFound(p)
  BY <1>1, <1>2 DEF NotFound
<1>5. OwnBuild(o) = OwnBuild(p) /\ \A B : NotLinked(o, B) <=> NotLinked(p, B)
  BY <1>1, <1>3 DEF NotLinked, OwnBuild
<1>. QED  BY <1>1, <1>3, <1>4, <1>5 DEF Explained, Stale, Alone

\* Nor does it change while the environment stays, but for an object file that turns
\* stale when the program is built anew.
LEMMA ExcusedKept ==
  ASSUME env' = env, build' = build \/ build' = 2, NEW d, NEW o
  PROVE  Excused(d, o) => Excused(d, o)'
<1>1. /\ typesAlone(o)' = typesAlone(o) /\ (NotFound(o)' <=> NotFound(o))
      /\ \A B : NotLinked(o, B)' <=> NotLinked(o, B)
  BY DEF NotFound, NotLinked, typesAlone, rootAlone, objectAlone, requestAt, argCountOf,
         programOf, relocatedFor, filesFor, fileFor
<1>2. (Explained(o)' <=> Explained(o)) /\ (Stale(d, o) => Stale(d, o)')
  BY <1>1 DEF Explained, OwnBuild, argCountOf, Refused, Stale, Alone
<1>. QED  BY <1>2 DEF Excused

\* What is left to show for a step of one debugger.
LEMMA FailStepOf ==
  ASSUME SessionInv, FailInv, NEW d \in Debuggers, NEW o, Become(d, o), env' = env,
         build' = build, Excused(d, o)
  PROVE  FailInv'
<1>1. oid'[d] = o /\ \A e \in Debuggers \ {d} : oid'[e] = oid[e]
  BY DEF SessionInv, Become
<1>2. ASSUME NEW e \in Debuggers
      PROVE  Excused(e, oid[e])'
  <2>1. PICK p : p = oid'[e]
    OBVIOUS
  <2>2. Excused(e, p)
    BY <1>1, <2>1 DEF FailInv
  <2>3. Excused(e, p)'
    BY <2>2, ExcusedKept
  <2>. QED  BY <2>1, <2>3
<1>. QED  BY <1>2 DEF FailInv

\* A run that ends keeps its configuration and its build.
LEMMA Ends ==
  ASSUME NEW d, NEW status
  PROVE  /\ status = "Success" \/ Explained(oid[d]) \/ Stale(d, oid[d])
              => Excused(d, Exited(d, status))
         /\ Excused(d, [Exited(d, status) EXCEPT !.fault = TRUE])
         /\ Excused(d, Fresh)
<1>1. PICK o : o = Exited(d, status)
  OBVIOUS
<1>2. /\ o.status = status /\ o.config = oid[d].config /\ o.build = oid[d].build
  BY <1>1 DEF Exited, Fresh
<1>3. [o EXCEPT !.fault = TRUE].fault = TRUE
  BY <1>1 DEF Exited, Fresh
<1>4. (Explained(o) <=> Explained(oid[d])) /\ (Stale(d, o) <=> Stale(d, oid[d]))
  BY <1>2, ExplainedKept
<1>5. Fresh.pc = "idle"
  BY DEF Fresh
<1>. QED  BY <1>1, <1>2, <1>3, <1>4, <1>5 DEF Excused

\* A function's probe names some arguments, and no run has more than it lists.
LEMMA ArgumentsCounted ==
  ASSUME SessionInv, CodeInv, argumentsListed(env), NEW d \in Debuggers,
         oid[d].pc \notin {"idle", "script", "done"}
  PROVE  argCountOf(oid[d]) \in Nat \ {0} /\ ~(Len(oid[d].config.script.reqs) > 1)
<1>1. oid[d].config \in Configs /\ Proceeds(oid[d].config)
  BY DEF CodeInv, RunCode, Given
<1>2. oid[d].config \in proceeding(env)
  BY <1>1 DEF proceeding, Configs
<1>3. LET p == oid[d].config.script.reqs[1] IN
      Len(p.args) \in Nat /\ (p.type # "global" => Len(p.args) > 0)
  BY <1>2 DEF argumentsListed
<1>. QED  BY <1>1, <1>3 DEF argCountOf, Proceeds

\* The object files are those of the n types of R, that of type t compiled for B[t],
\* which is this build, unless it is the second and there may be others.
LinkedAs(d, paths, types, R, n, B) ==
  /\ Lists(types, n, R) /\ Lists(SetToSeq(R), n, R) /\ Coded(R, B)
  /\ B \in [R -> {1, 2}]
  /\ \A i \in DOMAIN paths : disk[paths[i]].build = B[types[i]]
  /\ build = 1 \/ Alone(d, oid[d]) => B = [t \in R |-> oid[d].build]

\* When the code is linked, R are the types of the arguments.
LEMMA LinkedTypes ==
  ASSUME SessionInv, InfoInv, CodeInv, LinkInv, argumentsListed(env), NEW d \in Debuggers,
         oid[d].pc = "link", NEW paths, paths = SetToSeq(oid[d].objectFiles),
         NEW types, types = [i \in DOMAIN paths |-> disk[paths[i]].type],
         NEW R, R = {nameAt(oid[d], i) : i \in 1 .. argCountOf(oid[d])}
  PROVE  \E n \in Nat \ {0} : \E B : LinkedAs(d, paths, types, R, n, B)
<1>. DEFINE o == oid[d]
            n == Cardinality(o.objectFiles)
            type(p) == disk[p].type
            B == [t \in R |-> disk[CHOOSE p \in o.objectFiles : type(p) = t].build]
<1>1. RunCode(d, o) /\ OwnFiles(d, o, disk) /\ FilesCode /\ ObjectsTyped
  BY DEF CodeInv, LinkInv
<1>2. /\ IsFiniteSet(o.objectFiles) /\ \A p \in o.objectFiles : p[3] = ".o"
      /\ \A p \in o.objectFiles : \E j \in 1 .. argCountOf(o) : p = objectPath(o, j)
  BY <1>1 DEF RunCode, ObjectFiles
<1>3. o.objectFiles \subseteq DOMAIN disk
  BY RunAt DEF FilesThere
<1>4. argCountOf(o) \in Nat \ {0} /\ \A j \in 1 .. argCountOf(o) : Compiled(o, j)
  BY <1>1, ArgumentsCounted DEF RunCode, Counted
<1>5. ASSUME NEW j \in 1 .. argCountOf(o)
      PROVE  objectPath(o, j) \in o.objectFiles /\ type(objectPath(o, j)) = nameAt(o, j)
  <2>1. /\ objectPath(o, j) \in o.objectFiles
        /\ IsType(CountedType(programOf(o), requestAt(o, j)))
    BY <1>4 DEF Compiled
  <2>2. nameAt(o, j) = [name |-> nameAt(o, j).name, ptr |-> nameAt(o, j).ptr]
    BY <2>1, TypeNames DEF nameAt
  <2>3. PICK p \in DOMAIN disk : p = objectPath(o, j) /\ p[3] = ".o"
    BY <1>2, <1>3, <2>1
  <2>4. type(p) = [name |-> p[2][1], ptr |-> p[2][2]]
    BY <1>1, <2>3 DEF FilesCode, FileCode
  <2>5. p[2][1] = nameAt(o, j).name /\ p[2][2] = nameAt(o, j).ptr
    BY <2>3 DEF objectPath
  <2>. HIDE DEF type
  <2>. QED  BY <2>1, <2>2, <2>3, <2>4, <2>5
<1>6. ASSUME NEW p \in o.objectFiles, NEW q \in o.objectFiles, type(p) = type(q)
      PROVE  p = q
  <2>1. PICK i \in 1 .. argCountOf(o) : p = objectPath(o, i)
    BY <1>2
  <2>2. PICK j \in 1 .. argCountOf(o) : q = objectPath(o, j)
    BY <1>2
  <2>3. nameAt(o, i) = nameAt(o, j)
    BY <1>5, <1>6, <2>1, <2>2
  <2>. QED  BY <2>1, <2>2, <2>3 DEF objectPath
<1>7. /\ n \in Nat /\ DOMAIN paths = 1 .. n /\ Range(paths) = o.objectFiles
      /\ \A i, j \in 1 .. n : paths[i] = paths[j] => i = j
  BY <1>2, AllInSequence
<1>8. /\ \A i \in 1 .. n : paths[i] \in o.objectFiles /\ types[i] = type(paths[i])
      /\ \A p \in o.objectFiles : \E i \in 1 .. n : paths[i] = p
      /\ DOMAIN types = 1 .. n
  <2>. HIDE DEF n, o
  <2>. QED  BY <1>7 DEF Range
<1>9. R = {type(p) : p \in o.objectFiles}
  <2>1. ASSUME NEW t \in R
        PROVE  \E p \in o.objectFiles : t = type(p)
    BY <1>5
  <2>2. ASSUME NEW p \in o.objectFiles
        PROVE  type(p) \in R
    BY <1>2, <1>5
  <2>. HIDE DEF o, type
  <2>. QED  BY <2>1, <2>2
<1>. HIDE DEF B, n, o, type
<1>10. Once(types, n)
  BY <1>6, <1>7, <1>8 DEF Once
<1>11. First(types, n) = R
  BY ONLY <1>8, <1>9 DEF First
<1>12. n # 0
  <2>1. 1 \in 1 .. argCountOf(o)
    BY <1>4
  <2>2. PICK i \in 1 .. n : paths[i] = objectPath(o, 1)
    BY <1>5, <1>8, <2>1
  <2>. QED  BY <1>7, <2>2
<1>13. IsFiniteSet(R) /\ Cardinality(R) = n
  <2>1. IsFiniteSet(1 .. n) /\ Cardinality(1 .. n) = n
    BY <1>7, FS_Interval
  <2>2. types \in Bijection(1 .. n, R)
    <3>1. types \in [1 .. n -> R]
      <4>1. types = [i \in DOMAIN types |-> types[i]]
        OBVIOUS
      <4>. QED  BY ONLY <1>8, <1>9, <4>1
    <3>2. \A i, j \in DOMAIN types : types[i] = types[j] => i = j
      BY ONLY <1>8, <1>10 DEF Once
    <3>3. \A t \in R : \E i \in 1 .. n : types[i] = t
      BY <1>11 DEF First
    <3>. QED  BY <3>1, <3>2, <3>3 DEF Bijection, Injection, Surjection, IsInjective
  <2>3. ExistsBijection(1 .. n, R)
    BY <2>2 DEF ExistsBijection
  <2>. QED  BY <2>1, <2>3, FS_Bijection
<1>14. Lists(types, n, R)
  BY <1>7, <1>8, <1>10, <1>11 DEF Lists
<1>15. Lists(SetToSeq(R), n, R)
  <2>1. PICK s : s = SetToSeq(R)
    OBVIOUS
  <2>2. DOMAIN s = 1 .. n /\ Range(s) = R /\ \A i, j \in 1 .. n : s[i] = s[j] => i = j
    BY <1>13, <2>1, AllInSequence
  <2>3. Lists(s, n, R)
    BY <1>7, <2>2 DEF Lists, Once, First, Range
  <2>. QED  BY <2>1, <2>3
<1>16. ASSUME NEW p \in o.objectFiles
       PROVE  type(p) \in R /\ B[type(p)] = disk[p].build
  <2>1. type(p) \in R
    BY <1>9
  <2>2. PICK q : q = CHOOSE x \in o.objectFiles : type(x) = type(p)
    OBVIOUS
  <2>3. q \in o.objectFiles /\ type(q) = type(p)
    BY <2>2
  <2>4. q = p
    BY <1>6, <2>3
  <2>. QED  BY <2>1, <2>2, <2>4 DEF B
<1>17. ASSUME NEW t \in R
       PROVE  /\ B[t] \in {1, 2} /\ t.name \in DOMAIN env.objects[B[t]]
              /\ build = 1 \/ Alone(d, o) => B[t] = o.build
  <2>1. PICK p \in o.objectFiles : t = type(p)
    BY <1>9
  <2>2. p \in DOMAIN disk /\ p[3] = ".o" /\ B[t] = disk[p].build
    BY <1>2, <1>3, <1>16, <2>1
  <2>3. HasCode(disk[p])
    BY <1>1, <2>2 DEF ObjectsTyped
  <2>4. build = 1 => disk[p].build = 1 /\ o.build = 1
    BY <1>1, <2>2 DEF FilesCode, FileCode, RunCode
  <2>5. Alone(d, o) => disk[p].build = o.build
    BY <1>1 DEF OwnFiles
  <2>. QED  BY <2>1, <2>2, <2>3, <2>4, <2>5 DEF HasCode, type
<1>18. /\ B \in [R -> {1, 2}] /\ Coded(R, B)
       /\ build = 1 \/ Alone(d, o) => B = [t \in R |-> o.build]
  <2>1. B = [t \in R |-> B[t]]
    BY DEF B
  <2>2. B \in [R -> {1, 2}] /\ Coded(R, B)
    BY <1>17, <2>1 DEF Coded
  <2>3. ASSUME build = 1 \/ Alone(d, o)
        PROVE  B = [t \in R |-> o.build]
    BY <1>17, <2>1, <2>3
  <2>. QED  BY <2>2, <2>3
<1>19. \A i \in DOMAIN paths : disk[paths[i]].build = B[types[i]]
  BY <1>7, <1>8, <1>16
<1>20. LinkedAs(d, paths, types, R, n, B)
  BY <1>14, <1>15, <1>18, <1>19 DEF LinkedAs, o
<1>. QED  BY <1>7, <1>12, <1>20

\* The types a run asks for are those of the declarations.
LEMMA TypesDeclared ==
  ASSUME SessionInv, InfoInv, NEW d \in Debuggers, ~NotFound(oid[d])
  PROVE  typesAlone(oid[d]) = {nameAt(oid[d], i) : i \in 1 .. argCountOf(oid[d])}
<1>1. WellFormed(Program(d)) /\ Program(d) = programOf(oid[d])
  BY InfoAt, RunNames
<1>2. PICK none : none = <<>>
  OBVIOUS
<1>3. DOMAIN none = {} /\ FuncsOf(Program(d), none)
  BY <1>2 DEF FuncsOf
<1>4. ASSUME NEW i \in 1 .. argCountOf(oid[d])
      PROVE  getTypeName(rootAlone(oid[d], i).type) = nameAt(oid[d], i)
  <2>. DEFINE r == requestAt(oid[d], i)
              root == rootAlone(oid[d], i)
  <2>1. root # Null
    BY DEF NotFound
  <2>2. root = getRootType(Program(d), ~oid[d].config.hardDisableDrgn,
                           descriptorsFor(r, none, none), r, oid[d].config.attachToProcess)
    BY <1>1, <1>2 DEF rootAlone, descriptorsFor
  <2>. HIDE DEF root, r
  <2>3. root.type = CountedType(Program(d), r)
    BY <1>1, <1>3, <2>1, <2>2, RootDeclared
  <2>. QED  BY <1>1, <2>3 DEF root, r, nameAt
<1>. QED  BY <1>4 DEF typesAlone

\* Linking fails only if linking the types alone does, or for want of space.
LEMMA LinkFails ==
  ASSUME SessionInv, InfoInv, CodeInv, LinkInv, FailInv, Linkable, argumentsListed(env),
         NEW d \in Debuggers, link(d)
  PROVE  FailInv'
<1>. DEFINE paths == SetToSeq(oid[d].objectFiles)
            files == [i \in DOMAIN paths |-> disk[paths[i]]]
            types == [i \in DOMAIN paths |-> disk[paths[i]].type]
            res == relocated(d, files)
            target(i) == TargetObject(Program(d), Drgn(d), descsOf(d),
                                      getReqForArg(d, i), Attached(d)).typeName
            code == [t \in {f.type : f \in Range(files)} |->
                       CHOOSE f \in Range(files) : f.type = t]
            calls == [i \in 1 .. argCount(d) |-> target(i)]
            image == [written |-> TRUE, fatal |-> FALSE, fits |-> res.fits,
                      sections |-> res.sections, externals |-> res.externals,
                      code |-> code, calls |-> calls, logFile |-> oid[d].logFd]
            pc == IF oid[d].config.compAndExit THEN "upload" ELSE "probe"
            R == {nameAt(oid[d], i) : i \in 1 .. argCountOf(oid[d])}
            prog == programOf(oid[d])
<1>1. env' = env /\ build' = build /\ oid[d].pc = "link"
  BY Zenon DEF link, At
<1>2. /\ files = [i \in DOMAIN paths |-> disk[paths[i]]]
      /\ types = [i \in DOMAIN paths |-> disk[paths[i]].type]
  OBVIOUS
<1>3. ~res.fatal
  <2>. HIDE DEF res, files, paths
  <2>. QED  BY <1>2, RelocatedFiles DEF res, paths
<1>4. \/ /\ \/ res.failed \/ tooLarge(res.relocInfos)
            \/ \E i \in 1 .. argCount(d) : target(i) \notin DOMAIN res.symbols
         /\ Exit(d, "CompilationError")
      \/ argCount(d) * callSize + 1 > prologueLength /\ Exit(d, "Aborted")
      \/ Become(d, [oid[d] EXCEPT !.pc = pc, !.image = image])
  BY <1>3, Zenon DEF link
<1>5. objectsLinkable(env) /\ build \in {1, 2}
  BY DEF Linkable, SessionInv
<1>. HIDE DEF paths, files, types, R, prog
<1>a. PICK n \in Nat \ {0} : \E B : LinkedAs(d, paths, types, R, n, B)
  BY <1>1, <1>2, LinkedTypes DEF R, paths
<1>b. PICK B : LinkedAs(d, paths, types, R, n, B)
  BY <1>a
<1>6. /\ Lists(types, n, R) /\ Lists(SetToSeq(R), n, R) /\ Coded(R, B)
      /\ B \in [R -> {1, 2}]
      /\ \A i \in DOMAIN paths : disk[paths[i]].build = B[types[i]]
      /\ build = 1 \/ Alone(d, oid[d]) => B = [t \in R |-> oid[d].build]
  BY <1>b DEF LinkedAs
<1>7. res = relocatedFor(prog, types, B)
  <2>1. /\ DOMAIN files = DOMAIN types
        /\ \A i \in DOMAIN files : files[i].type = types[i] /\ files[i].build = B[types[i]]
    BY <1>2, <1>6
  <2>2. [i \in DOMAIN files |-> merge([defines |-> {files[i].type}],
                                      env.objects[files[i].build][files[i].type.name])]
          = filesFor(types, B)
    BY <2>1 DEF filesFor, fileFor
  <2>. QED  BY <2>2, RunNames, Zenon DEF relocated, relocatedFor, prog
<1>. HIDE DEF res
<1>8. DOMAIN res.symbols = R
  <2>1. PICK W : W = sizesOf(R, B)
    OBVIOUS
  <2>. QED  BY ONLY <1>5, <1>6, <1>7, <2>1, EndFor
<1>9. ASSUME NEW i \in 1 .. argCount(d)
      PROVE  target(i) \in DOMAIN res.symbols
  <2>1. target(i) = nameAt(oid[d], i)
    BY <1>1, CalledObject
  <2>2. i \in 1 .. argCountOf(oid[d])
    BY RequestNames
  <2>. QED  BY <1>8, <2>1, <2>2 DEF R
<1>10. ASSUME res.failed \/ tooLarge(res.relocInfos)
       PROVE  Explained(oid[d]) \/ Stale(d, oid[d])
  <2>1. CASE NotFound(oid[d])
    BY <2>1 DEF Explained
  <2>2. CASE ~NotFound(oid[d])
    <3>1. typesAlone(oid[d]) = R
      BY <2>2, TypesDeclared DEF R
    <3>2. PICK s : s = SetToSeq(R)
      OBVIOUS
    <3>3. /\ relocatedFor(prog, types, B).failed <=> relocatedFor(prog, s, B).failed
          /\ tooLarge(relocatedFor(prog, types, B).relocInfos)
               <=> tooLarge(relocatedFor(prog, s, B).relocInfos)
      BY ONLY <1>5, <1>6, <3>2, SameRelocation
    <3>4. DOMAIN B = R
      BY <1>6
    <3>5. NotLinked(oid[d], B)
      BY <1>7, <1>10, <3>2, <3>3, <3>4 DEF NotLinked, prog
    <3>6. CASE build = 1 \/ Alone(d, oid[d])
      BY <1>6, <3>1, <3>5, <3>6 DEF Explained, OwnBuild
    <3>7. CASE build = 2 /\ ~Alone(d, oid[d])
      BY <1>6, <3>1, <3>5, <3>7 DEF Stale
    <3>. QED  BY <1>5, <3>6, <3>7
  <2>. QED  BY <2>1, <2>2
<1>11. CASE Exit(d, "CompilationError") /\ (res.failed \/ tooLarge(res.relocInfos))
  BY <1>1, <1>10, <1>11, Ends, FailStepOf DEF Exit
<1>12. CASE argCount(d) * callSize + 1 > prologueLength /\ Exit(d, "Aborted")
  <2>1. argCountOf(oid[d]) \in Nat /\ argCount(d) = argCountOf(oid[d])
    BY <1>1, ArgumentsCounted, RequestNames
  <2>2. argCountOf(oid[d]) > 2
    BY <1>12, <2>1 DEF callSize, prologueLength
  <2>3. Explained(oid[d])
    BY <2>2 DEF Explained
  <2>. QED  BY <1>1, <1>12, <2>3, Ends, FailStepOf DEF Exit
<1>13. CASE Become(d, [oid[d] EXCEPT !.pc = pc, !.image = image])
  <2>1. pc # "done"
    OBVIOUS
  <2>. HIDE DEF pc, image
  <2>2. PICK o : o = [oid[d] EXCEPT !.pc = pc, !.image = image]
    OBVIOUS
  <2>3. o.pc = pc
    BY <2>2, RunAt, FieldNames DEF IsOid
  <2>4. Excused(d, o)
    BY <2>1, <2>3 DEF Excused
  <2>. QED  BY <1>1, <1>13, <2>2, <2>4, FailStepOf
<1>. HIDE DEF target, image, pc
<1>. QED  BY <1>4, <1>9, <1>11, <1>12, <1>13

\* So does finding what is asked for: descriptors in the cache do no harm.
LEMMA LookupFails ==
  ASSUME SessionInv, InfoInv, CodeInv, FailInv, argumentsListed(env), NEW d \in Debuggers,
         loadDescs(d) \/ generateCode(d)
  PROVE  FailInv'
<1>. DEFINE o == oid[d]
<1>1. env' = env /\ build' = build /\ o.pc \in {"descs", "generate"}
  BY DEF loadDescs, generateCode, At
<1>2. /\ IsOid(o) /\ FuncsOf(Program(d), o.funcDescs) /\ GlobalsOf(Program(d), o.globalDescs)
      /\ RunCode(d, o)
  BY InfoAt, RunAt DEF CodeInv
<1>3. o.arg \in 1 .. argCountOf(o) /\ req(d) = requestAt(o, o.arg)
  BY <1>1, <1>2, RunNames, RequestNames DEF RunCode, Counted, AtArgument
<1>4. /\ objectAlone(o, o.arg) = TargetObject(Program(d), Drgn(d), <<>>, req(d), Attached(d))
      /\ rootAlone(o, o.arg) = getRootType(Program(d), Drgn(d), <<>>, req(d), Attached(d))
  BY <1>3, RunNames DEF objectAlone, rootAlone, Drgn, Attached
<1>5. ASSUME Explained(o), Exit(d, "CompilationError")
      PROVE  FailInv'
  BY <1>1, <1>5, Ends, FailStepOf DEF Exit
<1>6. ASSUME loadDescs(d)
      PROVE  FailInv'
  <2>1. PICK found : found = load(d, DescsExt(d))
    OBVIOUS
  <2>2. PICK descs : descs = IF found = Null THEN descsOf(d) ELSE merge(descsOf(d), found)
    OBVIOUS
  <2>3. Describe(d, descs)
    BY <1>6, <2>1, <2>2 DEF loadDescs
  <2>4. \/ /\ Exit(d, "CompilationError")
           /\ \/ isEnabled(d) /\ ~download(d)
              \/ TargetObject(Program(d), Drgn(d), descs, req(d), Attached(d)) = Null
        \/ \E fs, gs : Become(d, [o EXCEPT !.pc = "check", !.funcDescs = fs,
                                           !.globalDescs = gs])
    BY <2>3 DEF Describe
  <2>5. CASE isEnabled(d) /\ ~download(d) /\ Exit(d, "CompilationError")
    <3>1. Explained(o)
      BY <2>5 DEF download, Explained, Refused
    <3>. QED  BY <1>5, <2>5, <3>1
  <2>6. CASE /\ TargetObject(Program(d), Drgn(d), descs, req(d), Attached(d)) = Null
             /\ Exit(d, "CompilationError")
    <3>1. TargetObject(Program(d), Drgn(d), <<>>, req(d), Attached(d)) = Null
      <4>1. CASE req(d).type = "global"
        <5>1. GlobalsOf(Program(d), descs) /\ descs = descriptorsFor(req(d), o.funcDescs, descs)
          BY <2>1, <2>2, <4>1, LoadedDescs DEF descriptorsFor
        <5>. QED  BY <1>2, <2>6, <5>1, FoundWithout
      <4>2. CASE req(d).type # "global"
        <5>1. FuncsOf(Program(d), descs) /\ descs = descriptorsFor(req(d), descs, o.globalDescs)
          BY <2>1, <2>2, <4>2, LoadedDescs DEF descriptorsFor
        <5>. QED  BY <1>2, <2>6, <5>1, FoundWithout
      <4>. QED  BY <4>1, <4>2
    <3>2. Explained(o)
      BY <1>3, <1>4, <3>1 DEF Explained, NotFound
    <3>. QED  BY <1>5, <2>6, <3>2
  <2>7. ASSUME NEW fs, NEW gs, Become(d, [o EXCEPT !.pc = "check", !.funcDescs = fs,
                                                   !.globalDescs = gs])
        PROVE  FailInv'
    <3>1. PICK p : p = [o EXCEPT !.pc = "check", !.funcDescs = fs, !.globalDescs = gs]
      OBVIOUS
    <3>2. p.pc = "check"
      BY <1>2, <3>1, FieldNames DEF IsOid
    <3>3. Excused(d, p)
      BY <3>2 DEF Excused
    <3>. QED  BY <1>1, <2>7, <3>1, <3>3, FailStepOf
  <2>. HIDE DEF o
  <2>. QED  BY <2>4, <2>5, <2>6, <2>7
<1>7. ASSUME generateCode(d)
      PROVE  FailInv'
  <2>1. \/ /\ Exit(d, "CompilationError")
           /\ getRootType(Program(d), Drgn(d), descsOf(d), req(d), Attached(d)) = Null
        \/ \E infos, todo : Become(d, [o EXCEPT !.pc = "compile", !.typeInfos = infos,
                                                !.doCompile = todo])
    BY <1>7 DEF generateCode
  <2>2. CASE /\ Exit(d, "CompilationError")
             /\ getRootType(Program(d), Drgn(d), descsOf(d), req(d), Attached(d)) = Null
    <3>1. descsOf(d) = descriptorsFor(req(d), o.funcDescs, o.globalDescs)
      BY RunNames
    <3>2. getRootType(Program(d), Drgn(d), <<>>, req(d), Attached(d)) = Null
      BY <1>2, <2>2, <3>1, FoundWithout
    <3>3. Explained(o)
      BY <1>3, <1>4, <3>2 DEF Explained, NotFound
    <3>. QED  BY <1>5, <2>2, <3>3
  <2>3. ASSUME NEW infos, NEW todo,
               Become(d, [o EXCEPT !.pc = "compile", !.typeInfos = infos,
                                   !.doCompile = todo])
        PROVE  FailInv'
    <3>1. PICK p : p = [o EXCEPT !.pc = "compile", !.typeInfos = infos, !.doCompile = todo]
      OBVIOUS
    <3>2. p.pc = "compile"
      BY <1>2, <3>1, FieldNames DEF IsOid
    <3>3. Excused(d, p)
      BY <3>2 DEF Excused
    <3>. QED  BY <1>1, <2>3, <3>1, <3>3, FailStepOf
  <2>. HIDE DEF o
  <2>. QED  BY <2>1, <2>2, <2>3
<1>. QED  BY <1>6, <1>7

\* The options, or a call that fails, end a run.
LEMMA EndFails ==
  ASSUME SessionInv, FailInv, NEW d \in Debuggers,
         \/ \E options \in env.invocations : main(d, options)
         \/ runScript(d) \/ setupLogFile(d) \/ compile(d) \/ processTargetData(d)
         \/ uploadCache(d) \/ kill(d)
  PROVE  FailInv'
<1>0. env' = env /\ build' = build /\ IsOid(oid[d])
  BY RunAt DEF main, runScript, setupLogFile, compile, processTargetData, uploadCache, kill
<1>1. ASSUME NEW status, Fail(d, status)
      PROVE  FailInv'
  BY <1>0, <1>1, Ends, FailStepOf DEF Fail
<1>2. ASSUME NEW status, Exit(d, status), status = "Success" \/ Refused(oid[d].config)
      PROVE  FailInv'
  <2>1. Excused(d, Exited(d, status))
    BY <1>2, Ends DEF Explained
  <2>. QED  BY <1>0, <1>2, <2>1, FailStepOf DEF Exit
<1>3. ASSUME NEW p, Become(d, p), p.pc # "done"
      PROVE  FailInv'
  BY <1>0, <1>3, FailStepOf DEF Excused
<1>4. ASSUME NEW pc, pc # "done", Become(d, [oid[d] EXCEPT !.pc = pc])
      PROVE  FailInv'
  <2>1. [oid[d] EXCEPT !.pc = pc].pc = pc
    BY <1>0, FieldNames DEF IsOid
  <2>. QED  BY <1>3, <1>4, <2>1
<1>5. ASSUME NEW options \in env.invocations, main(d, options)
      PROVE  FailInv'
  <2>. DEFINE c == Config(options)
              st == IF c.status = "Help" THEN "Success" ELSE c.status
              pc == IF c.status = "Success" THEN "script" ELSE "done"
              o == [Fresh EXCEPT !.config = c, !.build = build, !.status = st, !.pc = pc]
  <2>1. Become(d, o)
    BY <1>5 DEF main
  <2>2. pc = "done" => c.status # "Success"
    OBVIOUS
  <2>. HIDE DEF c, st, pc
  <2>3. o.pc = pc /\ o.config = c
    BY DEF Fresh
  <2>. HIDE DEF o
  <2>4. Excused(d, o)
    BY <2>2, <2>3 DEF Excused, Explained, Refused
  <2>. QED  BY <1>0, <2>1, <2>4, FailStepOf
<1>6. ASSUME runScript(d)
      PROVE  FailInv'
  <2>. DEFINE c == oid[d].config
              pc == IF Attached(d) THEN "segments" ELSE "descs"
  <2>1. \/ ~validateCache(c) /\ Exit(d, "UsageError")
        \/ c.script.reqs = <<>> /\ Exit(d, "ScriptParsingError")
        \/ c.removeMappings /\ \E status : Exit(d, status)
        \/ Len(c.script.reqs) > 1 /\ Exit(d, "Aborted")
        \/ Become(d, [oid[d] EXCEPT !.pc = pc])
    BY <1>6 DEF runScript
  <2>2. /\ c.script.reqs = <<>> => Len(c.script.reqs) # 1
        /\ Len(c.script.reqs) > 1 => Len(c.script.reqs) # 1
    <3>1. Len(<<>>) = 0 /\ ~(1 > 1)
      OBVIOUS
    <3>2. ASSUME NEW reqs
          PROVE  (reqs = <<>> => Len(reqs) # 1) /\ (Len(reqs) > 1 => Len(reqs) # 1)
      <4>1. PICK n : n = Len(reqs)
        OBVIOUS
      <4>2. n > 1 => n # 1
        BY ONLY <3>1, Zenon
      <4>3. reqs = <<>> => n # 1
        BY ONLY <3>1, <4>1
      <4>. QED  BY ONLY <4>1, <4>2, <4>3
    <3>. QED  BY <3>2, Zenon
  <2>3. pc # "done"
    OBVIOUS
  <2>4. ~validateCache(c) \/ c.removeMappings \/ Len(c.script.reqs) # 1 => Refused(c)
    BY DEF Refused
  <2>. HIDE DEF c, pc
  <2>. QED  BY <1>2, <1>4, <2>1, <2>2, <2>3, <2>4 DEF c
<1>7. ASSUME setupLogFile(d)
      PROVE  FailInv'
  <2>1. \/ Fail(d, "SegmentInitError") \/ Become(d, [oid[d] EXCEPT !.pc = "descs"])
        \/ \E fd : Become(d, [oid[d] EXCEPT !.pc = "descs", !.logFd = fd])
    BY <1>7 DEF setupLogFile
  <2>2. ASSUME NEW fd
        PROVE  [oid[d] EXCEPT !.pc = "descs", !.logFd = fd].pc = "descs"
    BY <1>0, FieldNames DEF IsOid
  <2>. QED  BY <1>1, <1>3, <1>4, <2>1, <2>2
<1>8. ASSUME compile(d)
      PROVE  FailInv'
  <2>. DEFINE pc == IF isEnabled(d) THEN "store" ELSE "next"
  <2>1. \/ Fail(d, "CompilationError")
        \/ \E entity : Become(d, [oid[d] EXCEPT !.pc = pc, !.entity = entity,
                                                !.doCompile = FALSE])
    BY <1>8 DEF compile
  <2>2. pc # "done"
    OBVIOUS
  <2>. HIDE DEF pc
  <2>3. ASSUME NEW entity
        PROVE  [oid[d] EXCEPT !.pc = pc, !.entity = entity, !.doCompile = FALSE].pc = pc
    BY <1>0, FieldNames DEF IsOid
  <2>. QED  BY <1>1, <1>3, <2>1, <2>2, <2>3
<1>9. ASSUME processTargetData(d)
      PROVE  FailInv'
  <2>1. \/ Fail(d, "ProcessingTargetDataError")
        \/ Become(d, [oid[d] EXCEPT !.pc = "upload"])
    BY <1>9 DEF processTargetData
  <2>. QED  BY <1>1, <1>4, <2>1
<1>10. ASSUME uploadCache(d)
       PROVE  FailInv'
  <2>1. \/ Exit(d, "Success")
        \/ oid[d].config.cacheRemoteUpload /\ Exit(d, "CacheUploadError")
    BY <1>10 DEF uploadCache
  <2>2. oid[d].config.cacheRemoteUpload => Refused(oid[d].config)
    BY DEF Refused
  <2>. QED  BY <1>2, <2>1, <2>2
<1>11. ASSUME kill(d)
       PROVE  FailInv'
  BY <1>0, <1>11, Ends, FailStepOf DEF kill
<1>. QED  BY <1>5, <1>6, <1>7, <1>8, <1>9, <1>10, <1>11

\* No other step ends one: files that cannot be loaded or stored do not.
LEMMA OthersGoOn ==
  ASSUME SessionInv, FailInv, NEW d \in Debuggers,
         \/ checkCache(d) \/ loadPadding(d) \/ storeOpen(d) \/ storeWrite(d) \/ nextArg(d)
         \/ \E interrupted \in BOOLEAN : probe(d, interrupted)
         \/ Restoring(d)
  PROVE  FailInv'
<1>0. env' = env /\ build' = build /\ IsOid(oid[d])
  BY RunAt, RestoreSteps DEF checkCache, loadPadding, storeOpen, storeWrite, nextArg, probe
<1>1. ASSUME NEW p, Become(d, p), p.pc # "done"
      PROVE  FailInv'
  BY <1>0, <1>1, FailStepOf DEF Excused
<1>2. ASSUME NEW pc, pc # "done", Become(d, [oid[d] EXCEPT !.pc = pc])
      PROVE  FailInv'
  <2>1. [oid[d] EXCEPT !.pc = pc].pc = pc
    BY <1>0, FieldNames DEF IsOid
  <2>. QED  BY <1>1, <1>2, <2>1
<1>3. ASSUME checkCache(d) \/ loadPadding(d)
      PROVE  FailInv'
  <2>1. \E pc \in {"padding", "generate", "next"} :
          \/ Become(d, [oid[d] EXCEPT !.pc = pc])
          \/ \E th : Become(d, [oid[d] EXCEPT !.pc = pc, !.th = th])
          \/ \E infos, th :
               Become(d, [oid[d] EXCEPT !.pc = pc, !.typeInfos = infos, !.th = th])
    <3>1. CASE checkCache(d)
      BY <3>1 DEF checkCache
    <3>2. CASE loadPadding(d)
      BY <3>2 DEF loadPadding
    <3>. QED  BY <1>3, <3>1, <3>2
  <2>2. ASSUME NEW pc, NEW th, NEW infos
        PROVE  /\ [oid[d] EXCEPT !.pc = pc, !.th = th].pc = pc
               /\ [oid[d] EXCEPT !.pc = pc, !.typeInfos = infos, !.th = th].pc = pc
    BY <1>0, FieldNames DEF IsOid
  <2>. QED  BY <1>1, <1>2, <2>1, <2>2
<1>4. ASSUME storeOpen(d) \/ storeWrite(d)
      PROVE  FailInv'
  <2>1. oid[d].pc \in {"store", "storing"}
    BY <1>4 DEF storeOpen, storeWrite, At
  <2>. DEFINE next == afterStore(d, oid[d].entity)
              pc == IF oid[d].entity = ".pd" THEN "next" ELSE "store"
  <2>2. \/ Become(d, [oid[d] EXCEPT !.pc = "storing"]) \/ Become(d, next)
        \/ Become(d, [next EXCEPT !.pc = pc])
    BY <1>4 DEF storeOpen, storeWrite
  <2>3. next.pc # "done" /\ [next EXCEPT !.pc = pc].pc # "done"
    BY <2>1, AfterStore
  <2>. HIDE DEF next, pc
  <2>. QED  BY <1>1, <1>2, <2>2, <2>3
<1>5. ASSUME nextArg(d)
      PROVE  FailInv'
  <2>. DEFINE pc == IF oid[d].arg < argCount(d) THEN "descs"
                    ELSE IF Attached(d) THEN "link" ELSE "upload"
  <2>1. \E paths, arg : Become(d, [oid[d] EXCEPT !.objectFiles = paths, !.arg = arg, !.pc = pc])
    BY <1>5 DEF nextArg
  <2>2. pc # "done"
    OBVIOUS
  <2>. HIDE DEF pc
  <2>3. ASSUME NEW paths, NEW arg
        PROVE  [oid[d] EXCEPT !.objectFiles = paths, !.arg = arg, !.pc = pc].pc = pc
    BY <1>0, FieldNames DEF IsOid
  <2>. QED  BY <1>1, <2>1, <2>2, <2>3
<1>6. ASSUME NEW interrupted \in BOOLEAN, probe(d, interrupted)
      PROVE  FailInv'
  <2>1. PICK threads : Become(d, [oid[d] EXCEPT !.pc = "restore", !.threads = threads,
                                                !.stops = AllRun, !.interrupted = interrupted])
    BY <1>6 DEF probe
  <2>2. [oid[d] EXCEPT !.pc = "restore", !.threads = threads,
                       !.stops = AllRun, !.interrupted = interrupted].pc = "restore"
    BY <1>0, FieldNames DEF IsOid
  <2>. QED  BY <1>1, <2>1, <2>2
<1>7. ASSUME Restoring(d)
      PROVE  FailInv'
  <2>1. /\ oid[d].pc = "restore"
        /\ \/ \E pc \in {"upload", "decode"} : Become(d, [oid[d] EXCEPT !.pc = pc])
           \/ \E threads, stops :
                Become(d, [oid[d] EXCEPT !.threads = threads, !.stops = stops])
    BY <1>7, RestoreSteps
  <2>2. ASSUME NEW threads, NEW stops
        PROVE  [oid[d] EXCEPT !.threads = threads, !.stops = stops].pc = "restore"
    BY <1>0, <2>1, FieldNames DEF IsOid
  <2>. QED  BY <1>1, <1>2, <2>1, <2>2
<1>. QED  BY <1>3, <1>4, <1>5, <1>6, <1>7

\* The invariant holds initially, and every step keeps it.
LEMMA FailInit == Init => FailInv
BY Ends DEF Init, FailInv

LEMMA FailStep ==
  ASSUME Linkable, \A e \in Envs : argumentsListed(e)
  PROVE  SessionInv /\ InfoInv /\ CodeInv /\ LinkInv /\ FailInv /\ [Next]_vars => FailInv'
<1>. SUFFICES ASSUME SessionInv, InfoInv, CodeInv, LinkInv, FailInv, [Next]_vars
              PROVE  FailInv'
  OBVIOUS
<1>1. argumentsListed(env)
  BY DEF SessionInv
<1>2. ASSUME env' = env, build' = build \/ build' = 2, oid' = oid
      PROVE  FailInv'
  <2>1. ASSUME NEW e \in Debuggers
        PROVE  Excused(e, oid[e])'
    <3>1. PICK p : p = oid[e]
      OBVIOUS
    <3>2. Excused(e, p)
      BY <3>1 DEF FailInv
    <3>3. Excused(e, p)'
      BY <1>2, <3>2, ExcusedKept
    <3>. QED  BY <1>2, <3>1, <3>3
  <2>. QED  BY <2>1 DEF FailInv
<1>3. CASE rebuild
  BY <1>2, <1>3 DEF rebuild
<1>4. ASSUME NEW d \in Debuggers, openFile(d) \/ \E fd \in 0 .. LastFd : closeFile(d, fd)
      PROVE  FailInv'
  BY <1>2, <1>4 DEF openFile, closeFile
<1>5. CASE UNCHANGED vars
  BY <1>2, <1>5 DEF vars
<1>. QED
  BY <1>1, <1>3, <1>4, <1>5, LinkFails, LookupFails, EndFails, OthersGoOn
     DEF Next, Restoring

-----------------------------------------------------------------------------
(***************************************************************************)
(* The theorems                                                            *)
(***************************************************************************)

\* Every variable keeps its type.  Only the archives of OICache are ever half
\* written, and every object file a run will link is on disk, whatever runs are
\* killed, fail to store or write the same files at the same time.
THEOREM TypeCorrect == Spec => []TypeOK
<1>1. SessionInv => TypeOK
  <2>. SUFFICES ASSUME SessionInv
                PROVE  TypeOK
    OBVIOUS
  <2>1. build \in {1, 2} /\ FilesWhole
    BY DEF SessionInv
  <2>2. ASSUME NEW d \in Debuggers
        PROVE  /\ oid[d].pc \in PCs /\ oid[d].status \in Statuses
               /\ oid[d].build \in {1, 2} /\ oid[d].logFd \in -1 .. LastFd
               /\ oid[d].objectFiles \subseteq DOMAIN disk
               /\ fds[d] \in [0 .. LastFd -> {"free", "app", "log"}]
    BY RunAt DEF RunTyped, FilesThere
  <2>. QED  BY <2>1, <2>2 DEF TypeOK, FilesWhole
<1>. QED  BY <1>1, SessionInvariance, PTL

\* What the data of the target is decoded with is of the build it executes, and of
\* the type the user asked for unless that is an argument of a method whose this has
\* no location.  For any programs whose builds have different ids, any requests,
\* command lines and number of debuggers that share a cache, and whatever runs are
\* killed in the middle of a store or the program built anew.
THEOREM HierarchiesOfRequests == Spec => []HierarchyOfRequest
<1>1. InfoInv => HierarchyOfRequest
  <2>. SUFFICES ASSUME InfoInv, NEW d \in Debuggers, NEW r \in DOMAIN oid[d].typeInfos
                PROVE  /\ oid[d].typeInfos[r].build = oid[d].build
                       /\ (\/ r.type = "global" \/ r.arg = Retval
                           \/ thisLocated(Program(d).funcs[r.func]))
                            => getTypeName(oid[d].typeInfos[r].root.type) =
                                 getTypeName(DeclaredType(Program(d), r))
    BY DEF HierarchyOfRequest
  <2>1. InfoOf(oid[d], oid[d].typeInfos[r], r)
    BY DEF InfoInv, RunInfo
  <2>2. ASSUME \/ r.type = "global" \/ r.arg = Retval
               \/ thisLocated(Program(d).funcs[r.func])
        PROVE  CountedType(Program(d), r) = DeclaredType(Program(d), r)
    <3>1. ~(Retval.n >= 0)
      BY DEF Retval
    <3>. QED  BY <2>2, <3>1 DEF CountedType
  <2>. QED  BY <2>1, <2>2 DEF InfoOf, programOf, Program
<1>. QED  BY <1>1, SessionInvariance, InfoInit, InfoStep, PTL DEF Spec

\* The code each argument's call reaches is the code of its type hierarchy: of the
\* same build, the same configuration and the same type.  For any programs, requests
\* and number of debuggers, as long as the program is not built anew or the run uses
\* no cache, and if every cache directory is used with one configuration, which
\* OICache does not check.
THEOREM CodeOfHierarchies ==
  ASSUME \A e \in Envs : argumentsListed(e) /\ oneConfigPerCache(e)
  PROVE  Spec => []SteadyCodeMatches
<1>1. CodeInv /\ SessionInv => SteadyCodeMatches
  <2>. SUFFICES ASSUME CodeInv, SessionInv, NEW d \in Debuggers,
                       build = 1 \/ (~isEnabled(d) /\ env.debuggers = {d})
                PROVE  codeMatches(d)
    BY DEF SteadyCodeMatches
  <2>1. Matches(oid[d])
    BY DEF CodeInv, RunCode, Alone, isEnabled
  <2>2. argCount(d) = argCountOf(oid[d]) /\ \A i : getReqForArg(d, i) = requestAt(oid[d], i)
    BY RequestNames
  <2>3. OneConfig
    BY DEF SessionInv, OneConfig
  <2>. QED  BY <2>1, <2>2, <2>3 DEF Matches, codeMatches
<1>2. SessionInv /\ InfoInv /\ CodeInv /\ [Next]_vars => CodeInv'
  BY CodeStep
<1>. QED  BY <1>1, <1>2, SessionInvariance, InfoInit, InfoStep, CodeInit, PTL DEF Spec

\* The code in the target is linked: relocation never ends oid, the sections are
\* aligned, apart from each other and between the constants and the replay area, and
\* every symbol is a constant, a definition of the target or weak.  For any object
\* files whose padding is within the 128 bytes that are reserved for it.
THEOREM CodeIsLinked ==
  ASSUME \A e \in Envs : objectsLinkable(e)
  PROVE  Spec => []CodeLinked
<1>0. Linkable
  BY DEF Linkable
<1>1. SessionInv /\ InfoInv /\ LinkInv /\ [Next]_vars => LinkInv'
  BY <1>0, LinkStep
<1>2. LinkInv => CodeLinked
  <2>. SUFFICES ASSUME LinkInv
                PROVE  CodeLinked
    OBVIOUS
  <2>1. ASSUME NEW d \in Debuggers
        PROVE  ImageLinked(oid[d].image, Program(d))
    BY DEF LinkInv, RunLinked, programOf, Program
  <2>. QED  BY <2>1, Zenon DEF CodeLinked, ImageLinked, SectionsPlaced, SymbolsFound
<1>. QED  BY <1>1, <1>2, SessionInit, SessionStep, InfoInit, InfoStep, LinkInit, PTL DEF Spec

\* A run that ends in an error and to which nothing happened fails for its options or
\* for what it asks for, as it would with an empty cache: no file, complete or half
\* written, that earlier or concurrent runs left in the cache, and no order in which
\* the object files are linked, makes it fail.  The one exception: the program has been
\* built anew, the run shares its directory, and an object file of the other build is
\* found there that does not link with this one.  For any programs, requests and
\* number of debuggers, and object files as in CodeIsLinked.
THEOREM FailuresExplained ==
  ASSUME \A e \in Envs : argumentsListed(e) /\ objectsLinkable(e)
  PROVE  Spec => []LeftoversHarmless
<1>0. Linkable /\ \A e \in Envs : argumentsListed(e)
  BY DEF Linkable
<1>1. FailInv => LeftoversHarmless
  BY ExplainedNames DEF FailInv, Excused, LeftoversHarmless, At
<1>2. SessionInv /\ InfoInv /\ CodeInv /\ [Next]_vars => CodeInv'
  BY <1>0, CodeStep
<1>3. SessionInv /\ InfoInv /\ LinkInv /\ [Next]_vars => LinkInv'
  BY <1>0, LinkStep
<1>4. SessionInv /\ InfoInv /\ CodeInv /\ LinkInv /\ FailInv /\ [Next]_vars => FailInv'
  BY <1>0, FailStep
<1>. QED
  BY <1>1, <1>2, <1>3, <1>4, SessionInit, SessionStep, InfoInit, InfoStep, CodeInit, LinkInit,
     FailInit, PTL DEF Spec

\* For every command line and every set of config files: a run that starts has the
\* features that were asked for and what they require and no others, none of those
\* that were disabled, and no two that conflict (handleFeatureConflicts,
\* processConfigFiles).
THEOREM FeaturesOfRun == Spec => []FeaturesClosed
<1>1. SessionInv => FeaturesClosed
  <2>. SUFFICES ASSUME SessionInv, NEW d \in Debuggers, ~At(d, "idle")
                PROVE  ConfigClosed(oid[d].config)
    BY DEF FeaturesClosed, ConfigClosed
  <2>. QED  BY RunAt DEF RunClosed, At
<1>. QED  BY <1>1, SessionInvariance, PTL

\* Before restoreState a step leaves the files of the target open, and the other
\* runs alone.
BeforeRestore(d) ==
  \/ \E options \in env.invocations : main(d, options)
  \/ runScript(d) \/ setupLogFile(d)
  \/ loadDescs(d) \/ checkCache(d) \/ loadPadding(d) \/ generateCode(d)
  \/ compile(d) \/ storeOpen(d) \/ storeWrite(d) \/ nextArg(d) \/ link(d)
  \/ \E interrupted \in BOOLEAN : probe(d, interrupted)
  \/ processTargetData(d) \/ uploadCache(d)

\* Such a step leaves other runs alone, and writes to a descriptor that was free.
LEMMA EarlySteps ==
  ASSUME NEW d \in Debuggers, BeforeRestore(d)
  PROVE  /\ oid[d].pc # "restore" /\ \E o : Become(d, o)
         /\ \/ UNCHANGED fds
            \/ freeFds(d) # {} /\ fds' = [fds EXCEPT ![d][Min(freeFds(d))] = "log"]
<1>1. ASSUME NEW options \in env.invocations, main(d, options)
      PROVE  oid[d].pc # "restore" /\ UNCHANGED fds /\ \E o : Become(d, o)
  BY <1>1 DEF main
<1>2. CASE runScript(d)
  BY <1>2 DEF runScript, At, Exit
<1>3. CASE setupLogFile(d)
  BY <1>3 DEF setupLogFile, At, Fail
<1>4. CASE loadDescs(d)
  BY <1>4 DEF loadDescs, Describe, At, Exit
<1>5. CASE checkCache(d) \/ loadPadding(d) \/ nextArg(d)
  BY <1>5 DEF checkCache, loadPadding, nextArg, At
<1>6. CASE generateCode(d)
  BY <1>6 DEF generateCode, At, Exit
<1>7. CASE compile(d)
  BY <1>7 DEF compile, At, Fail
<1>8. CASE storeOpen(d) \/ storeWrite(d)
  BY <1>8 DEF storeOpen, storeWrite, At
<1>9. CASE link(d)
  <2>1. oid[d].pc # "restore" /\ UNCHANGED fds
    BY <1>9 DEF link, At
  <2>2. \E o : Become(d, o)
    BY <1>9 DEF link, Exit
  <2>. QED  BY <2>1, <2>2
<1>10. ASSUME NEW interrupted \in BOOLEAN, probe(d, interrupted)
       PROVE  oid[d].pc # "restore" /\ UNCHANGED fds /\ \E o : Become(d, o)
  BY <1>10 DEF probe, At
<1>11. CASE processTargetData(d) \/ uploadCache(d)
  BY <1>11 DEF processTargetData, uploadCache, At, Exit, Fail
<1>. QED  BY <1>1, <1>2, <1>3, <1>4, <1>5, <1>6, <1>7, <1>8, <1>9, <1>10, <1>11 DEF BeforeRestore

\* A file the target has open is closed by the target, or by oid when the main thread
\* had stopped before its turn.
LEMMA AppFilesKept ==
  ASSUME SessionInv, Next, NEW d \in Debuggers, NEW n \in 0 .. LastFd,
         fds[d][n] = "app", fds'[d][n] # "app"
  PROVE  oid' = oid \/ closedEarly(d)
<1>1. DescriptorsTyped
  BY DEF SessionInv
<1>2. ASSUME NEW e \in Debuggers, BeforeRestore(e)
      PROVE  FALSE
  <2>1. freeFds(e) # {} /\ fds' = [fds EXCEPT ![e][Min(freeFds(e))] = "log"]
    BY <1>2, EarlySteps
  <2>. DEFINE m == Min(freeFds(e))
  <2>2. m \in 0 .. LastFd /\ fds[e][m] = "free"
    <3>1. m \in freeFds(e)
      BY <2>1, LowestFree
    <3>. HIDE DEF m
    <3>. QED  BY <3>1 DEF freeFds
  <2>. HIDE DEF m
  <2>3. fds' = [fds EXCEPT ![e][m] = "log"]
    BY <2>1 DEF m
  <2>. QED  BY <1>1, <2>2, <2>3 DEF DescriptorsTyped
<1>3. ASSUME NEW e \in Debuggers, restoreThread(e)
      PROVE  closedEarly(d)
  <2>1. oid[e].pc = "restore" /\ oid[e].threads # <<>> /\ cleanupLogFile(e)
    BY <1>3 DEF restoreThread, At
  <2>2. /\ \A x \in Debuggers \ {e} : fds'[x] = fds[x]
        /\ \/ fds'[e] = fds[e]
           \/ /\ oid[e].logFd \in 0 .. LastFd
              /\ Early(oid[e]) \/ fds[e][oid[e].logFd] = "log"
              /\ fds'[e] = [fds[e] EXCEPT ![oid[e].logFd] = "free"]
    BY <2>1, CleanedUp
  <2>3. d = e /\ fds'[e] # fds[e]
    BY <2>2
  <2>4. oid[e].logFd = n
    BY <1>1, <2>2, <2>3 DEF DescriptorsTyped
  <2>5. Early(oid[d])
    BY <2>2, <2>3, <2>4
  <2>. QED  BY <2>5 DEF Early, closedEarly
<1>4. ASSUME NEW e \in Debuggers, kill(e) \/ \E t, stop : threadStops(e, t, stop)
      PROVE  FALSE
  BY <1>4 DEF kill, threadStops
<1>5. rebuild => FALSE
  BY DEF rebuild
<1>6. ASSUME NEW e \in Debuggers, openFile(e) \/ \E fd \in 0 .. LastFd : closeFile(e, fd)
      PROVE  oid' = oid
  BY <1>6 DEF openFile, closeFile
<1>. QED  BY <1>2, <1>3, <1>4, <1>5, <1>6 DEF Next, BeforeRestore

\* When restoreState has gone through the threads the log file is closed, unless the
\* main thread was skipped.
LEMMA ClosedWhenRestored ==
  ASSUME SessionInv, Next, NEW d \in Debuggers, oid[d].pc = "restore",
         oid'[d].pc \in {"decode", "upload"}, oid[d].logFd # NoFd, preq(d).type # "global",
         oid[d].stops["main"] # "event"
  PROVE  fds[d][oid[d].logFd] # "log"
<1>1. oid = [e \in Debuggers |-> oid[e]]
  BY DEF SessionInv
<1>2. ASSUME NEW e \in Debuggers, NEW o, e # d, Become(e, o)
      PROVE  FALSE
  BY <1>1, <1>2 DEF Become
<1>3. ASSUME NEW e \in Debuggers, BeforeRestore(e)
      PROVE  FALSE
  BY <1>2, <1>3, EarlySteps
<1>4. ASSUME NEW e \in Debuggers, kill(e)
      PROVE  FALSE
  <2>1. Become(e, Fresh)
    BY <1>4 DEF kill
  <2>2. oid'[d].pc = "idle"
    BY <1>1, <1>2, <2>1 DEF Become, Fresh
  <2>. QED  BY <2>2
<1>5. ASSUME NEW e \in Debuggers, Restoring(e)
      PROVE  fds[d][oid[d].logFd] # "log"
  <2>1. e = d
    <3>1. \E o : Become(e, o)
      BY <1>5, RestoreSteps
    <3>. QED  BY <1>2, <3>1
  <2>2. oid[d].threads = <<>>
    <3>1. SUFFICES ASSUME NEW threads, NEW stops,
                          Become(d, [oid[d] EXCEPT !.threads = threads, !.stops = stops])
                   PROVE  FALSE
      BY <1>5, <2>1, RestoreSteps
    <3>2. [oid[d] EXCEPT !.threads = threads, !.stops = stops].pc = "restore"
      BY RunAt, FieldNames DEF IsOid
    <3>3. oid'[d].pc = "restore"
      BY <1>1, <3>1, <3>2 DEF Become
    <3>. QED  BY <3>3
  <2>3. oid[d].threads \notin Withheld
    BY <2>2 DEF Withheld
  <2>. QED  BY <2>3, RunAt DEF LogHeld, preq
<1>6. ~rebuild
  BY DEF rebuild
<1>7. ASSUME NEW e \in Debuggers, openFile(e) \/ \E fd \in 0 .. LastFd : closeFile(e, fd)
      PROVE  FALSE
  BY <1>7 DEF openFile, closeFile
<1>. QED  BY <1>3, <1>4, <1>5, <1>6, <1>7 DEF Next, BeforeRestore, Restoring

\* oid closes its log file in the target and no file of the target's own, in whatever
\* order the threads are restored, however often cleanupLogFile is called and whatever
\* the target does with the number of the descriptor; but it skips a main thread that
\* reports an event, which leaves the log open, and may close the number twice if the
\* main thread had stopped before its turn.
THEOREM OnlyLogClosed == Spec => ClosesLogOnly
<1>. DEFINE A == \A d \in Debuggers :
       /\ \A n \in 0 .. LastFd :
            fds[d][n] = "app" /\ fds'[d][n] # "app" => oid' = oid \/ closedEarly(d)
       /\ At(d, "restore") /\ oid'[d].pc \in {"decode", "upload"}
            /\ oid[d].logFd # NoFd /\ preq(d).type # "global"
            /\ oid[d].stops["main"] # "event"
            => fds[d][oid[d].logFd] # "log"
<1>1. SessionInv /\ [Next]_vars => [A]_vars
  <2>. SUFFICES ASSUME SessionInv, Next, NEW d \in Debuggers
                PROVE  /\ \A n \in 0 .. LastFd :
                            fds[d][n] = "app" /\ fds'[d][n] # "app"
                              => oid' = oid \/ closedEarly(d)
                       /\ At(d, "restore") /\ oid'[d].pc \in {"decode", "upload"}
                            /\ oid[d].logFd # NoFd /\ preq(d).type # "global"
                            /\ oid[d].stops["main"] # "event"
                            => fds[d][oid[d].logFd] # "log"
    OBVIOUS
  <2>. QED  BY AppFilesKept, ClosedWhenRestored DEF At
<1>. QED  BY <1>1, SessionInvariance, PTL DEF Spec, ClosesLogOnly
=============================================================================

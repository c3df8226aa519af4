------------------------------ MODULE Features ------------------------------
(***************************************************************************)
(* Which features a run of oid has: those of the config files, overridden  *)
(* by the defaults and by -f and -F, closed under what a feature requires. *)
(*                                                                         *)
(* A config file is a record of what its tables hold:                      *)
(*   parses:   it is TOML at all                                           *)
(*   features: the names under "features"                                  *)
(*   types:    {} without such a table, else {[containers, pass_through]}; *)
(*             in pass_through BadEntry is one that is not a pair of names *)
(*   headers:  the directories named                                       *)
(*   ignore, capture_keys: records [type, members (, top_level)]           *)
(* NoKey is a key that is missing, NoList a list that is missing.          *)
(***************************************************************************)
EXTENDS Integers, SequencesExt

NoKey == "-"
NoList == {NoKey}
BadEntry == "bad entry"
Nullopt == [nullopt |-> TRUE]

allFeatures ==
  <<"ChaseRawPointers", "PackStructs", "GenPaddingStats", "CaptureThriftIsset",
    "TypeGraph", "PruneTypeGraph", "Library", "TreeBuilderV2", "GenJitDebug",
    "JitLogging", "JitTiming", "PolymorphicInheritance">>

Feature == Range(allFeatures)

requirements(f) ==
  CASE f = "TreeBuilderV2" -> {"TypeGraph"}
    [] f = "Library" -> {"TreeBuilderV2"}
    [] OTHER -> {}

conflicts(f) == IF f = "Library" THEN {"JitLogging", "JitTiming"} ELSE {}

\* Mutant: a feature that was enabled as a requirement is not looked at.
handleFeatureConflicts_oneRound(enabled, disabled) ==
  LET s == [enabled |-> enabled \cup UNION {requirements(f) : f \in enabled},
            failed  |-> \E f \in enabled :
                          (requirements(f) \ enabled) \cap disabled # {}]
  IN IF s.failed \/ \E f \in s.enabled : conflicts(f) \cap s.enabled # {}
       THEN Nullopt ELSE [features |-> s.enabled]

\* The loop, by rounds: toCheck holds what the last round enabled.  A feature
\* enters it once, so there are at most as many rounds as features.
handleFeatureConflicts(enabled, disabled) ==
  LET round[n \in 0 .. Len(allFeatures)] ==
        IF n = 0 THEN [enabled |-> enabled, toCheck |-> enabled, failed |-> FALSE]
        ELSE LET s == round[n - 1]
                 missing == (UNION {requirements(f) : f \in s.toCheck}) \ s.enabled
             IN [enabled |-> s.enabled \cup missing, toCheck |-> missing,
                 failed  |-> s.failed \/ missing \cap disabled # {}]
      s == round[Len(allFeatures)]
  IN IF s.failed \/ \E f \in s.enabled : conflicts(f) \cap s.enabled # {}
       THEN Nullopt ELSE [features |-> s.enabled]

\* "*": the whole type.
ofMembers(e) ==
  IF e.members = NoList THEN {<<e.type, "*">>}
                         ELSE {<<e.type, m>> : m \in e.members}

processConfigFile(file) ==
  IF \/ ~file.parses
     \/ \E f \in file.features : f \notin Feature
     \/ \E t \in file.types : t.pass_through = NoList \/ BadEntry \in t.pass_through
     \/ \E e \in file.ignore : e.type = NoKey
     \/ \E e \in file.capture_keys :
          (e.type = NoKey) <=> (e.top_level = NoKey)
    THEN Nullopt
    ELSE [features |-> file.features,
          containers |-> UNION {t.containers : t \in file.types},
          passThroughTypes |-> UNION {t.pass_through : t \in file.types},
          headerPaths |-> file.headers,
          membersToStub |-> UNION {ofMembers(e) : e \in file.ignore},
          keysToCapture |->
            UNION {IF e.type = NoKey THEN {<<"top level">>} ELSE ofMembers(e) :
                   e \in file.capture_keys}]

\* featureMap: feature -> BOOLEAN, the defaults and the command line.
processConfigFiles(files, featureMap) ==
  LET configs == {processConfigFile(f) : f \in files}
      on  == {f \in DOMAIN featureMap : featureMap[f]}
      off == DOMAIN featureMap \ on
      fs == handleFeatureConflicts(
              ((UNION {c.features : c \in configs}) \ off) \cup on, off)
  IN IF Nullopt \in configs \/ fs = Nullopt THEN Nullopt
     ELSE [features |-> fs.features,
           settings |-> {[k \in DOMAIN c \ {"features"} |-> c[k]] : c \in configs}]
=============================================================================

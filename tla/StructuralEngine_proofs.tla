----------------------- MODULE StructuralEngine_proofs -----------------------
(***************************************************************************)
(* What analyze promises for every set of documents that the tools may     *)
(* print, every kind of failure and every evidence.                        *)
(*                                                                         *)
(* The invariant has two parts.  Order says which adapters have answered   *)
(* at a stage.  Linked says that the result of an adapter is Parse of what *)
(* its tool did, so that what analyze reads from the results is what the   *)
(* tools told.                                                             *)
(***************************************************************************)
EXTENDS StructuralEngine, FiniteSetTheorems, TLAPS

Answered(s) == results[s] # NoResult

\* The tools that have not run at a stage; nothing is said of a run that raised.
Before(s) == IF s \in {"signature", "exiftool"} THEN Tools
             ELSE IF s = "ffprobe" THEN {"ffprobe", "mediainfo"}
             ELSE IF s = "mediainfo" THEN {"mediainfo"}
             ELSE {}

Order ==
    /\ \A t \in Before(stage) : said[t] = NotRun /\ results[t] = NoResult
    /\ stage \notin {"signature", "raised"} => Answered("signature")
    /\ stage \in {"ffprobe", "mediainfo", "conclude", "reported"} => Answered("exiftool")
    /\ stage \in {"mediainfo", "conclude", "reported"} => Answered("ffprobe")
    /\ stage \in {"conclude", "reported"} => Answered("mediainfo")
    /\ stage = "reported" <=> report # NoReport

\* A tool is run for supported evidence only, and its result is what it did.
LinkedTo(t) ==
    IF Supported THEN /\ said[t] \in Runs(t)
                      /\ ~Escapes(said[t])
                      /\ results[t] = Parse(said[t])
                 ELSE said[t] = NotRun /\ results[t] = Unsupported

Linked ==
    /\ Answered("signature") =>
          results["signature"].status = IF Supported THEN "EXECUTED" ELSE "UNSUPPORTED_INPUT"
    /\ \A t \in Tools : Answered(t) => LinkedTo(t)

Inv == TypeOK /\ Order /\ Linked

----------------------------------------------------------------------------
(* Lemmas about the operators.                                             *)

LEMMA NoDocumentTypes == NoDocument \in Document
  BY EngineAssumption DEF NoDocument, Document, Numbers, Fields

\* What the runner may return has the type of a run, and is parsed to a result.
LEMMA RunTypes ==
  ASSUME NEW t \in Tools, NEW r \in Runs(t)
  PROVE  r \in Run /\ Parse(r) \in AdapterResult /\ Parse(r) # NoResult /\ r # NotRun
  <1>1. NoDocument \in Document
    BY NoDocumentTypes
  <1>2. Documents[t] \subseteq Document
    BY EngineAssumption
  <1>3. r.document \in Document /\ r.outcome \in Outcomes /\ r.version \in BOOLEAN
        /\ r \in Run
    BY <1>1, <1>2 DEF Runs, Run
  <1>4. Parse(r) \in AdapterResult /\ Parse(r) # NoResult
    BY <1>3 DEF Parse, AdapterResult, Statuses, NoResult
  <1>5. r # NotRun
    BY <1>3 DEF NotRun, Outcomes
  <1> QED BY <1>3, <1>4, <1>5

\* The empty output and the result of an adapter that does not apply.
LEMMA UnsupportedTypes == Unsupported \in AdapterResult /\ Unsupported # NoResult
                          /\ Unsupported.status = "UNSUPPORTED_INPUT"
  BY NoDocumentTypes DEF Unsupported, AdapterResult, Statuses, NoResult

\* Once a tool's adapter has answered, its output holds what the tool told.
LEMMA OutputsAreTold ==
  ASSUME TypeOK, Linked, NEW t \in Tools, Answered(t), NEW f \in Fields
  PROVE  results[t].output[f] = Told(t, f) /\ Told(t, f) \in Nat \cup {Absent, Wild}
         /\ (f \notin Numbers => Told(t, f) # Wild)
  <1>1. LinkedTo(t)
    BY DEF Linked
  <1>2. CASE Supported
    <2>1. said[t] \in Runs(t) /\ results[t].output = said[t].document
      BY <1>1, <1>2 DEF LinkedTo, Parse
    <2>2. said[t] # NotRun /\ said[t].document \in Document
      BY <2>1, RunTypes DEF Run
    <2>3. CASE Understood(t)
      BY <2>1, <2>2, <2>3 DEF Told, Document
    <2>4. CASE ~Understood(t)
      <3>1. said[t].document = NoDocument
        BY <2>1, <2>4 DEF Runs, Understood
      <3> QED BY <2>1, <2>4, <3>1, EngineAssumption DEF Told, NoDocument, Numbers
    <2> QED BY <2>3, <2>4
  <1>3. CASE ~Supported
    <2>1. said[t] = NotRun /\ results[t].output = NoDocument
      BY <1>1, <1>3 DEF LinkedTo, Unsupported
    <2> QED BY <2>1, EngineAssumption DEF Told, NoDocument
  <1> QED BY <1>2, <1>3

----------------------------------------------------------------------------
(* The invariant.                                                          *)

LEMMA InitInv == ASSUME Init PROVE Inv
  BY EngineAssumption DEF Init, Inv, TypeOK, Order, Before, Linked, Answered, Stages, Sequence, Tools,
      NoReport, NoResult

\* What the property SummaryIsSourced says of a summary, before it is reported.
Sourced(summary) ==
    \A f \in DOMAIN NoSummary :
        LET none == IF f = "codec" THEN {Absent} ELSE {Absent, 0} IN
        /\ summary[f] \in ToldOf(f) \cup {Absent}
        /\ ToldOf(f) \subseteq none \/ summary[f] \notin none

\* The summary of each category takes its values from what the tools told.
LEMMA SummaryTold ==
  ASSUME TypeOK, Linked, \A t \in Tools : Answered(t)
  PROVE  /\ Summary \in [DOMAIN NoSummary -> Nat \cup {Absent, Wild}]
         /\ Summary.codec # Wild
         /\ Sourced(Summary)
  <1> DEFINE Value == Nat \cup {Absent, Wild}
             exif(f) == Told("exiftool", f)
             probe(f) == Told("ffprobe", f)
             info(f) == Told("mediainfo", f)
  <1>1. /\ \A f \in Fields : Exif(f) = exif(f) /\ exif(f) \in Value
        /\ \A f \in Fields : Ffprobe(f) = probe(f) /\ probe(f) \in Value
        /\ \A f \in Fields : MediaInfo(f) = info(f) /\ info(f) \in Value
        /\ probe("codec") # Wild /\ info("codec") # Wild
    BY OutputsAreTold DEF Exif, Ffprobe, MediaInfo, Tools, Fields, Numbers
  <1>2. evidence.category \in {"image", "audio", "video", "other"}
    BY EngineAssumption DEF TypeOK, Asset, Categories
  <1>3. {"width", "height", "duration", "codec", "track"} \subseteq Fields
        /\ DOMAIN NoSummary = {"width", "height", "duration", "codec"}
        /\ NoSummary \in [{"width", "height", "duration", "codec"} -> {Absent}]
    BY DEF Fields, Numbers, NoSummary
  <1> HIDE DEF exif, probe, info
  <1>4. CASE evidence.category = "image"
    <2>1. Summary = [width |-> Or(exif("width"), probe("width")),
                     height |-> Or(exif("height"), probe("height")),
                     duration |-> Absent, codec |-> Absent]
      BY <1>1, <1>3, <1>4 DEF Summary, ImageSummary
    <2>2. /\ ToldOf("width") = {exif("width"), probe("width")}
          /\ ToldOf("height") = {exif("height"), probe("height")}
          /\ ToldOf("duration") = {} /\ ToldOf("codec") = {}
      BY <1>4 DEF ToldOf, Asked, exif, probe
    <2> QED BY <1>1, <1>3, <2>1, <2>2, EngineAssumption DEF Or, Sourced
  <1>5. CASE evidence.category = "audio"
    <2>1. Summary = [width |-> Absent, height |-> Absent,
                     duration |-> Or(probe("duration"), info("track")),
                     codec |-> OrText(probe("codec"), info("codec"))]
      BY <1>1, <1>3, <1>5 DEF Summary, AudioSummary
    <2>2. /\ ToldOf("width") = {} /\ ToldOf("height") = {}
          /\ ToldOf("duration") = {probe("duration"), info("track")}
          /\ ToldOf("codec") = {probe("codec"), info("codec")}
      BY <1>5 DEF ToldOf, Asked, probe, info
    <2>3. /\ Summary.width = Absent /\ Summary.height = Absent
          /\ Summary.duration = Or(probe("duration"), info("track"))
          /\ Summary.codec = OrText(probe("codec"), info("codec"))
      BY <2>1
    <2>4. Summary \in [DOMAIN NoSummary -> Nat \cup {Absent, Wild}]
      BY <1>1, <1>3, <2>1 DEF Or, OrText
    <2>5. Summary.codec # Wild
      BY <1>1, <2>3, EngineAssumption DEF OrText
    <2>6. Sourced(Summary)
      BY <1>3, <2>2, <2>3, EngineAssumption DEF Or, OrText, Sourced
    <2> QED BY <2>4, <2>5, <2>6
  <1>6. CASE evidence.category = "video"
    <2>1. Summary = [width |-> probe("width"), height |-> probe("height"),
                     duration |-> Or(probe("duration"), info("duration")),
                     codec |-> probe("codec")]
      BY <1>1, <1>3, <1>6 DEF Summary, VideoSummary
    <2>2. /\ ToldOf("width") = {probe("width")} /\ ToldOf("height") = {probe("height")}
          /\ ToldOf("duration") = {probe("duration"), info("duration")}
          /\ ToldOf("codec") = {probe("codec")}
      BY <1>6 DEF ToldOf, Asked, probe, info
    <2> QED BY <1>1, <1>3, <2>1, <2>2, EngineAssumption DEF Or, Sourced
  <1>7. CASE evidence.category = "other"
    <2>1. Summary = NoSummary
      BY <1>7 DEF Summary
    <2>2. \A f \in DOMAIN NoSummary : ToldOf(f) = {}
      BY <1>7 DEF ToldOf, Asked
    <2> QED BY <1>3, <2>1, <2>2, EngineAssumption DEF Sourced
  <1> QED BY <1>2, <1>4, <1>5, <1>6, <1>7

\* Every test has a status, and the verdict is what the tools did.
LEMMA VerdictTold ==
  ASSUME TypeOK, Linked, \A s \in DOMAIN Sequence : Answered(s)
  PROVE  /\ Tests \in [Registry -> Statuses]
         /\ Verdict(Tests) \in {"COMPLETED", "PARTIAL"}
         /\ (Verdict(Tests) = "COMPLETED") <=> (Supported => \A t \in Tools : Understood(t))
         /\ Supported => \A t \in Tools : (Tests[t] = "EXECUTED" <=> Understood(t))
         /\ Inventory = {t \in Tools : said[t].outcome \in {"SUCCEEDED", "OTHER_FAILURE"}}
  <1>1. DOMAIN Sequence = {"signature", "exiftool", "ffprobe", "mediainfo"}
    BY DEF Sequence
  <1>2. \A t \in Tools : LinkedTo(t)
    BY <1>1 DEF Linked, Tools
  <1>3. \A s \in DOMAIN Sequence : Tests[s] = results[s].status
    BY DEF Tests, TestStatus, Registry
  <1>4. \A s \in Registry \ DOMAIN Sequence : Tests[s] \in {"EXECUTED", "NOT_APPLICABLE"}
    BY DEF Tests, TestStatus
  <1>5. Tests["signature"] = IF Supported THEN "EXECUTED" ELSE "UNSUPPORTED_INPUT"
    BY <1>1, <1>3 DEF Linked
  <1>6. ASSUME NEW t \in Tools, Supported
        PROVE  /\ Tests[t] \in {"EXECUTED", "FAILED", "PROVIDER_UNAVAILABLE"}
               /\ (Tests[t] = "EXECUTED" <=> Understood(t))
               /\ (Available(t) <=> said[t].outcome \in {"SUCCEEDED", "OTHER_FAILURE"})
    <2>1. said[t] \in Runs(t) /\ ~Escapes(said[t]) /\ results[t] = Parse(said[t])
      BY <1>2, <1>6 DEF LinkedTo
    <2>2. Tests[t] = results[t].status
      BY <1>1, <1>3 DEF Tools
    <2>3. /\ said[t].outcome \in Outcomes
          /\ said[t].outcome # "RAISED"
          /\ said[t].printed \in {"nothing", "json", "invalid"}
          /\ said[t].printed = "nothing" <=> said[t].outcome # "SUCCEEDED"
          /\ said[t].version \in BOOLEAN
          /\ ~said[t].version => said[t].outcome = "EXECUTABLE_MISSING"
      <3>1. /\ said[t].outcome \in Outcomes
            /\ said[t].printed \in {"nothing", "json", "invalid", "unwritable"}
            /\ said[t].printed = "nothing" <=> said[t].outcome # "SUCCEEDED"
            /\ said[t].version \in BOOLEAN
            /\ [outcome |-> said[t].outcome, version |-> said[t].version] \in Promised
        BY <2>1 DEF Runs
      <3>2. said[t].outcome # "RAISED" /\ said[t].printed # "unwritable"
        BY <2>1 DEF Escapes
      <3>3. ~said[t].version => said[t].outcome \in {"EXECUTABLE_MISSING", "RAISED"}
        BY <3>1 DEF Promised
      <3> QED BY <3>1, <3>2, <3>3
    <2>4. results[t].status = IF said[t].outcome = "EXECUTABLE_MISSING"
                              THEN "PROVIDER_UNAVAILABLE"
                              ELSE IF said[t].outcome # "SUCCEEDED"
                                      \/ said[t].printed = "invalid" THEN "FAILED"
                              ELSE "EXECUTED"
      BY <2>1 DEF Parse
    <2>5. results[t].version = (said[t].version /\ said[t].outcome # "EXECUTABLE_MISSING")
      BY <2>1 DEF Parse
    <2>6. results[t].started = (said[t].outcome # "START_FAILED")
      BY <2>1 DEF Parse
    <2>7. Tests[t] = "EXECUTED" <=> Understood(t)
      BY <2>2, <2>3, <2>4 DEF Understood
    <2>8. Available(t) <=> said[t].outcome \in {"SUCCEEDED", "OTHER_FAILURE"}
      BY <2>3, <2>4, <2>5, <2>6 DEF Available, Outcomes
    <2> QED BY <2>2, <2>4, <2>7, <2>8
  <1>7. ASSUME NEW t \in Tools, ~Supported
        PROVE  /\ Tests[t] = "UNSUPPORTED_INPUT"
               /\ ~Available(t) /\ said[t].outcome = "none"
    <2>1. said[t] = NotRun /\ results[t] = Unsupported
      BY <1>2, <1>7 DEF LinkedTo
    <2>2. Tests[t] = results[t].status
      BY <1>1, <1>3 DEF Tools
    <2> QED BY <2>1, <2>2 DEF Unsupported, Available, NotRun
  <1>8. Registry = {"signature"} \cup Tools \cup (Registry \ DOMAIN Sequence)
    BY <1>1 DEF Registry, Tools
  <1>9. Tests \in [Registry -> Statuses]
    <2>1. \A s \in Registry : Tests[s] \in Statuses
      BY <1>4, <1>5, <1>6, <1>7, <1>8 DEF Statuses
    <2> QED BY <2>1 DEF Tests
  <1>10. /\ (Verdict(Tests) = "COMPLETED") <=> (Supported => \A t \in Tools : Understood(t))
         /\ Verdict(Tests) \in {"COMPLETED", "PARTIAL"}
    <2>1. CASE Supported
      BY <1>4, <1>5, <1>6, <1>8, <2>1 DEF Verdict
    <2>2. CASE ~Supported
      BY <1>4, <1>5, <1>7, <1>8, <2>2 DEF Verdict
    <2> QED BY <2>1, <2>2
  <1>11. Inventory = {t \in Tools : said[t].outcome \in {"SUCCEEDED", "OTHER_FAILURE"}}
    <2>1. \A t \in Tools : (Available(t) <=> said[t].outcome \in {"SUCCEEDED", "OTHER_FAILURE"})
      BY <1>6, <1>7
    <2> QED BY <2>1 DEF Inventory
  <1>12. Supported => \A t \in Tools : (Tests[t] = "EXECUTED" <=> Understood(t))
    BY <1>6
  <1> QED BY <1>9, <1>10, <1>11, <1>12
----------------------------------------------------------------------------
(* The invariant holds.                                                    *)

\* What analyze returns is a report of the right type.
LEMMA Conclusion ==
  ASSUME Inv, Conclude, ~Refused(Summary)
  PROVE  report' \in Report /\ report' # NoReport
  <1>1. \A s \in DOMAIN Sequence : Answered(s)
    BY DEF Inv, Order, Conclude, Sequence
  <1>2. \A t \in Tools : Answered(t)
    BY <1>1 DEF Tools, Sequence
  <1>3. Summary \in [DOMAIN NoSummary -> Nat \cup {Absent}]
    BY <1>2, SummaryTold DEF Inv, Refused
  <1>4. Tests \in [Registry -> Statuses] /\ Verdict(Tests) \in {"COMPLETED", "PARTIAL"}
    BY <1>1, VerdictTold DEF Inv
  <1>5. Findings(Summary) \subseteq FindingIds /\ Inventory \subseteq Tools
    BY DEF Findings, Inventory
  <1>6. report' = [status |-> Verdict(Tests), tests |-> Tests, summary |-> Summary,
                   findings |-> Findings(Summary), inventory |-> Inventory]
    BY DEF Conclude
  <1> QED BY <1>3, <1>4, <1>5, <1>6 DEF Report, NoReport

\* One adapter answers: everything else stays as it was.
LEMMA GetsKeepsInv ==
  ASSUME Inv, NEW result \in AdapterResult, stage \in DOMAIN Sequence, Gets(result),
         result # NoResult, said' \in [Tools -> {NotRun} \cup Run],
         \A t \in Tools \ {stage} : said'[t] = said[t],
         UNCHANGED <<evidence, report>>,
         \A t \in Tools : t = stage => LinkedTo(t)',
         stage = "signature" =>
            result.status = IF Supported THEN "EXECUTED" ELSE "UNSUPPORTED_INPUT"
  PROVE  Inv'
  <1> USE DEF Inv
  <1>1. /\ stage' = Sequence[stage]
        /\ results' \in [DOMAIN Sequence -> {NoResult} \cup AdapterResult]
        /\ results'[stage] = result
        /\ \A s \in DOMAIN Sequence \ {stage} : results'[s] = results[s]
    BY DEF Gets, TypeOK
  <1>2. TypeOK'
    BY <1>1 DEF TypeOK, Stages, Sequence
  <1>3. Order'
    BY <1>1 DEF Order, Before, Answered, Tools, Sequence
  <1>4. Linked'
    <2>1. \A t \in Tools \ {stage} : LinkedTo(t)' <=> LinkedTo(t)
      BY <1>1 DEF LinkedTo, Runs, Supported, Tools, Sequence
    <2>2. Supported' <=> Supported
      BY DEF Supported
    <2>3. Answered("signature")' =>
             results'["signature"].status = IF Supported THEN "EXECUTED" ELSE "UNSUPPORTED_INPUT"
      BY <1>1 DEF Linked, Answered, Sequence
    <2>4. ASSUME NEW t \in Tools, Answered(t)' PROVE LinkedTo(t)'
      <3>1. CASE t = stage
        BY <3>1
      <3>2. CASE t # stage
        <4>1. Answered(t)
          BY <1>1, <2>4, <3>2 DEF Answered, Tools, Sequence
        <4> QED BY <2>1, <3>2, <4>1 DEF Linked
      <3> QED BY <3>1, <3>2
    <2> QED BY <2>2, <2>3, <2>4 DEF Linked
  <1> QED BY <1>2, <1>3, <1>4

\* Every step keeps the invariant.
LEMMA NextInv == ASSUME Inv, [Next]_vars PROVE Inv'
  <1> USE DEF Inv
  <1>1. CASE Sign
    <2> DEFINE signed == [status |-> "EXECUTED", version |-> TRUE, started |-> TRUE,
                          output |-> NoDocument]
    <2>1. stage = "signature" /\ stage \in DOMAIN Sequence /\ stage \notin Tools
      BY <1>1 DEF Sign, Sequence, Tools
    <2>2. NoDocument \in Document
      BY NoDocumentTypes
    <2>3. CASE Supported
      <3>1. Gets(signed) /\ UNCHANGED <<evidence, said, report>>
        BY <1>1, <2>3 DEF Sign
      <3>2. signed \in AdapterResult /\ signed # NoResult /\ signed.status = "EXECUTED"
        BY <2>2 DEF AdapterResult, Statuses, NoResult
      <3> HIDE DEF signed
      <3> QED BY <2>1, <2>3, <3>1, <3>2, GetsKeepsInv DEF TypeOK
    <2>4. CASE ~Supported
      <3>1. Gets(Unsupported) /\ UNCHANGED <<evidence, said, report>>
        BY <1>1, <2>4 DEF Sign
      <3> QED BY <2>1, <2>4, <3>1, UnsupportedTypes, GetsKeepsInv DEF TypeOK
    <2> QED BY <2>3, <2>4
  <1>2. CASE SignFails
    BY <1>2 DEF SignFails, TypeOK, Order, Before, Linked, LinkedTo, Answered, Runs, Supported, Stages
  <1>3. CASE Execute
    <2>1. stage \in Tools /\ Supported
      BY <1>3 DEF Execute
    <2>2. PICK r \in Runs(stage) :
             /\ said' = [said EXCEPT ![stage] = r]
             /\ IF Escapes(r) THEN stage' = "raised" /\ UNCHANGED results
                                           ELSE Gets(Parse(r))
      BY <1>3 DEF Execute
    <2>3. UNCHANGED <<evidence, report>>
      BY <1>3 DEF Execute
    <2>4. r \in Run /\ Parse(r) \in AdapterResult /\ Parse(r) # NoResult
      BY <2>1, RunTypes
    <2>5. /\ said' \in [Tools -> {NotRun} \cup Run]
          /\ said'[stage] = r
          /\ \A t \in Tools \ {stage} : said'[t] = said[t]
      BY <2>1, <2>2, <2>4 DEF TypeOK
    <2>6. CASE Escapes(r)
      <3>1. stage' = "raised" /\ results' = results
        BY <2>2, <2>6
      <3>2. \A t \in Tools : Answered(t) => t # stage
        BY <2>1 DEF Order, Before, Answered, Tools
      <3>3. TypeOK'
        BY <2>3, <2>5, <3>1 DEF TypeOK, Stages
      <3>4. Order'
        BY <2>1, <2>3, <3>1 DEF Order, Before, Answered, Tools
      <3>5. Linked'
        BY <2>3, <2>5, <3>1, <3>2 DEF Linked, LinkedTo, Answered, Runs, Supported
      <3> QED BY <3>3, <3>4, <3>5
    <2>7. CASE ~Escapes(r)
      <3>1. Gets(Parse(r))
        BY <2>2, <2>7
      <3>2. results'[stage] = Parse(r)
        BY <2>1, <3>1 DEF Gets, TypeOK, Tools, Sequence
      <3>3. ASSUME NEW t \in Tools, t = stage PROVE LinkedTo(t)'
        BY <2>1, <2>2, <2>3, <2>5, <2>7, <3>2, <3>3 DEF LinkedTo, Supported, Runs
      <3>4. stage \in DOMAIN Sequence /\ stage # "signature"
        BY <2>1 DEF Tools, Sequence
      <3> QED BY <2>3, <2>4, <2>5, <3>1, <3>3, <3>4, GetsKeepsInv
    <2> QED BY <2>6, <2>7
  <1>4. CASE Skip
    <2>1. /\ stage \in Tools /\ ~Supported
          /\ Gets(Unsupported) /\ UNCHANGED <<evidence, said, report>>
      BY <1>4 DEF Skip
    <2>2. results'[stage] = Unsupported
      BY <2>1 DEF Gets, TypeOK, Tools, Sequence
    <2>3. ASSUME NEW t \in Tools, t = stage PROVE LinkedTo(t)'
      <3>1. said[stage] = NotRun
        BY <2>1 DEF Order, Before, Tools
      <3>2. Supported' <=> Supported
        BY <2>1 DEF Supported
      <3> QED BY <2>1, <2>2, <2>3, <3>1, <3>2 DEF LinkedTo
    <2>4. stage \in DOMAIN Sequence /\ stage # "signature"
      BY <2>1 DEF Tools, Sequence
    <2> QED BY <2>1, <2>3, <2>4, UnsupportedTypes, GetsKeepsInv DEF TypeOK
  <1>5. CASE Conclude
    <2>1. stage = "conclude" /\ UNCHANGED <<evidence, said, results>>
      BY <1>5 DEF Conclude
    <2>2. Linked'
      BY <2>1 DEF Linked, LinkedTo, Answered, Runs, Supported
    <2>3. CASE Refused(Summary)
      <3>1. stage' = "raised" /\ report' = report
        BY <1>5, <2>3 DEF Conclude
      <3> QED BY <2>1, <2>2, <3>1 DEF TypeOK, Stages, Order, Before, Answered
    <2>4. CASE ~Refused(Summary)
      <3>1. stage' = "reported"
        BY <1>5, <2>4 DEF Conclude
      <3>2. report' \in Report /\ report' # NoReport
        BY <1>5, <2>4, Conclusion
      <3> QED BY <2>1, <2>2, <3>1, <3>2 DEF TypeOK, Stages, Order, Before, Answered
    <2> QED BY <2>3, <2>4
  <1>6. CASE UNCHANGED vars
    BY <1>6 DEF vars, TypeOK, Order, Before, Linked, LinkedTo, Answered, Runs, Supported
  <1> QED BY <1>1, <1>2, <1>3, <1>4, <1>5, <1>6 DEF Next, Done
----------------------------------------------------------------------------
(* The theorems.                                                           *)

\* Only the last step reports, from what was told before it.
LEMMA Reporting ==
  ASSUME Inv, [Next]_vars, Reported'
  PROVE  \/ UNCHANGED vars
         \/ /\ Conclude /\ ~Refused(Summary)
            /\ UNCHANGED <<evidence, said, results>>
            /\ report' = [status |-> Verdict(Tests), tests |-> Tests, summary |-> Summary,
                          findings |-> Findings(Summary), inventory |-> Inventory]
            /\ \A s \in DOMAIN Sequence : Answered(s)
            /\ \A t \in Tools : Answered(t)
            /\ \A t \in Tools : Understood(t)' <=> Understood(t)
            /\ \A t \in Tools, f \in Fields : Told(t, f)' = Told(t, f)
            /\ Supported' <=> Supported
  <1>1. stage' = "reported"
    BY DEF Reported
  <1>2. CASE Sign \/ Skip
    BY <1>1, <1>2 DEF Sign, Skip, Gets, Sequence, Tools
  <1>3. CASE SignFails
    BY <1>1, <1>3 DEF SignFails
  <1>4. CASE Execute
    BY <1>1, <1>4 DEF Execute, Gets, Sequence, Tools
  <1>5. CASE Conclude
    <2>1. /\ ~Refused(Summary) /\ UNCHANGED <<evidence, said, results>>
          /\ report' = [status |-> Verdict(Tests), tests |-> Tests, summary |-> Summary,
                        findings |-> Findings(Summary), inventory |-> Inventory]
      BY <1>1, <1>5 DEF Conclude
    <2>2. \A s \in DOMAIN Sequence : Answered(s)
      BY <1>5 DEF Inv, Order, Conclude, Sequence
    <2>3. \A t \in Tools : Answered(t)
      BY <2>2 DEF Tools, Sequence
    <2>4. /\ \A t \in Tools : Understood(t)' <=> Understood(t)
          /\ \A t \in Tools, f \in Fields : Told(t, f)' = Told(t, f)
          /\ Supported' <=> Supported
      BY <2>1 DEF Understood, Told, Supported
    <2> QED BY <1>5, <2>1, <2>2, <2>3, <2>4
  <1> QED BY <1>2, <1>3, <1>4, <1>5 DEF Next, Done

\* Every state of a run satisfies the invariant.
LEMMA InvHolds == Spec => []Inv
  <1>1. Init => Inv
    BY InitInv
  <1>2. Inv /\ [Next]_vars => Inv'
    BY NextInv
  <1> QED BY <1>1, <1>2, PTL DEF Spec

\* analyze keeps its types, whatever the tools print.
THEOREM TypeCorrect == Spec => []TypeOK
  <1>1. Inv => TypeOK
    BY DEF Inv
  <1> QED BY <1>1, InvHolds, PTL

\* A run is COMPLETED only if every tool that applies succeeded and was understood, each
\* test says which did, and the inventory lists the tools that could be started.
THEOREM VerdictTrue == Spec => []VerdictIsTrue
  <1>1. Init => VerdictIsTrue
    BY DEF Init, VerdictIsTrue, Reported
  <1>2. ASSUME Inv, VerdictIsTrue, [Next]_vars PROVE VerdictIsTrue'
    <2> SUFFICES ASSUME Reported' PROVE VerdictIsTrue'
      BY DEF VerdictIsTrue
    <2>1. CASE UNCHANGED vars
      BY <1>2, <2>1 DEF vars, VerdictIsTrue, Reported, Supported, Understood
    <2>2. CASE ~UNCHANGED vars
      <3>1. /\ report'.status = Verdict(Tests) /\ report'.tests = Tests
            /\ report'.inventory = Inventory
            /\ \A t \in Tools : Understood(t)' <=> Understood(t)
            /\ Supported' <=> Supported
            /\ said' = said
            /\ \A s \in DOMAIN Sequence : Answered(s)
        BY <1>2, <2>2, Reporting
      <3>2. /\ (Verdict(Tests) = "COMPLETED") <=> (Supported => \A t \in Tools : Understood(t))
            /\ Supported => \A t \in Tools : (Tests[t] = "EXECUTED" <=> Understood(t))
            /\ Inventory = {t \in Tools : said[t].outcome \in {"SUCCEEDED", "OTHER_FAILURE"}}
        BY <1>2, <3>1, VerdictTold DEF Inv
      <3> QED BY <3>1, <3>2 DEF VerdictIsTrue
    <2> QED BY <2>1, <2>2
  <1>3. Inv /\ VerdictIsTrue /\ [Next]_vars => VerdictIsTrue'
    BY <1>2
  <1> QED BY <1>1, <1>3, InvHolds, PTL DEF Spec

\* A summarized value was printed by a tool that is asked for it, and a value that counts
\* is not hidden by a tool that failed or printed none.
THEOREM SummarySourced == Spec => []SummaryIsSourced
  <1>1. Init => SummaryIsSourced
    BY DEF Init, SummaryIsSourced, Reported
  <1>2. \A f : \A s \in Asked(f) : s[1] \in Tools /\ s[2] \in Fields \cup {f}
    BY DEF Asked, Tools, Fields, Numbers
  <1>3. ASSUME Inv, SummaryIsSourced, [Next]_vars PROVE SummaryIsSourced'
    <2> SUFFICES ASSUME Reported' PROVE SummaryIsSourced'
      BY DEF SummaryIsSourced
    <2>1. CASE UNCHANGED vars
      BY <1>3, <2>1 DEF vars, SummaryIsSourced, Reported, ToldOf, Asked, Told, Understood
    <2>2. CASE ~UNCHANGED vars
      <3>1. /\ report'.summary = Summary
            /\ UNCHANGED <<evidence, said>>
            /\ \A t \in Tools : Answered(t)
        BY <1>3, <2>2, Reporting
      <3>2. Sourced(Summary)
        BY <1>3, <3>1, SummaryTold DEF Inv
      <3>3. \A f : ToldOf(f)' = ToldOf(f)
        BY <3>1 DEF ToldOf, Asked, Told, Understood
      <3> QED BY <3>1, <3>2, <3>3 DEF SummaryIsSourced, Sourced
    <2> QED BY <2>1, <2>2
  <1>4. Inv /\ SummaryIsSourced /\ [Next]_vars => SummaryIsSourced'
    BY <1>3
  <1> QED BY <1>1, <1>4, InvHolds, PTL DEF Spec

\* Only evidence that cannot be read, a tool that cannot be killed, JSON that cannot be
\* written and numbers that no summary takes end the analysis: tools that are missing,
\* fail, time out or print no JSON never do.
THEOREM AbortsAreExplained == Spec => []AbortsHaveCauses
  <1>1. Init => AbortsHaveCauses
    BY DEF Init, AbortsHaveCauses
  <1>2. ASSUME Inv, AbortsHaveCauses, [Next]_vars PROVE AbortsHaveCauses'
    <2> SUFFICES ASSUME stage' = "raised" PROVE AbortsHaveCauses'
      BY DEF AbortsHaveCauses
    <2>1. CASE Sign \/ Skip
      BY <2>1 DEF Sign, Skip, Gets, Sequence, Tools
    <2>2. CASE SignFails
      <3>1. "unreadable" \in Faults /\ said'["exiftool"] = NotRun
        BY <1>2, <2>2 DEF SignFails, Inv, Order, Before, Tools
      <3> QED BY <3>1 DEF AbortsHaveCauses
    <2>3. CASE Execute
      <3>1. stage \in Tools
        BY <2>3 DEF Execute
      <3>2. PICK r \in Runs(stage) :
               /\ said' = [said EXCEPT ![stage] = r]
               /\ IF Escapes(r) THEN stage' = "raised" /\ UNCHANGED results
                                             ELSE Gets(Parse(r))
        BY <2>3 DEF Execute
      <3>3. Escapes(r)
        BY <3>1, <3>2 DEF Gets, Sequence, Tools
      <3>4. said'[stage] = r /\ r # NotRun
        BY <1>2, <3>1, <3>2, RunTypes DEF Inv, TypeOK
      <3>5. \E t \in Tools : said'[t] # NotRun /\ Escapes(said'[t])
        BY <3>1, <3>3, <3>4
      <3> QED BY <3>5 DEF AbortsHaveCauses
    <2>4. CASE Conclude
      <3>1. Refused(Summary) /\ UNCHANGED <<evidence, said>>
        BY <2>4 DEF Conclude
      <3>2. \A t \in Tools : Answered(t)
        BY <1>2, <2>4 DEF Inv, Order, Conclude, Tools
      <3>3. Sourced(Summary) /\ DOMAIN Summary = DOMAIN NoSummary
        BY <1>2, <3>2, SummaryTold DEF Inv
      <3>4. \E f \in DOMAIN NoSummary : Wild \in ToldOf(f)
        BY <3>1, <3>3, EngineAssumption DEF Refused, Sourced
      <3>5. \A f : ToldOf(f)' = ToldOf(f)
        BY <3>1 DEF ToldOf, Asked, Told, Understood
      <3> QED BY <3>4, <3>5 DEF AbortsHaveCauses
    <2>5. CASE UNCHANGED vars
      BY <1>2, <2>5 DEF vars, AbortsHaveCauses, ToldOf, Asked, Told, Understood
    <2> QED BY <1>2, <2>1, <2>2, <2>3, <2>4, <2>5 DEF Next, Done
  <1>3. Inv /\ AbortsHaveCauses /\ [Next]_vars => AbortsHaveCauses'
    BY <1>2
  <1> QED BY <1>1, <1>3, InvHolds, PTL DEF Spec

\* A finite set has more than one element exactly if two of its elements differ.
LEMMA TwoElements ==
  ASSUME NEW S, IsFiniteSet(S)
  PROVE  Cardinality(S) > 1 <=> \E x, y \in S : x # y
  <1>1. Cardinality(S) \in Nat
    BY FS_CardinalityType
  <1>2. Cardinality(S) = 0 <=> S = {}
    BY FS_EmptySet
  <1>3. Cardinality(S) = 1 <=> \E x : S = {x}
    BY FS_Singleton
  <1>4. (\E x, y \in S : x # y) <=> ~(S = {} \/ \E x : S = {x})
    OBVIOUS
  <1> QED BY <1>1, <1>2, <1>3, <1>4

\* The values of three tools are finitely many.
LEMMA ThreeValues == ASSUME NEW a, NEW b, NEW c PROVE IsFiniteSet({a, b, c} \ {Absent})
  <1>1. IsFiniteSet({a} \cup {b}) /\ IsFiniteSet({a} \cup {b} \cup {c})
    BY FS_Singleton, FS_AddElement
  <1>2. {a, b, c} \ {Absent} \in SUBSET ({a} \cup {b} \cup {c})
    OBVIOUS
  <1> QED BY <1>1, <1>2, FS_Subset

\* What is compared in the results is what the tools told.
LEMMA MismatchTold ==
  ASSUME TypeOK, Linked, \A t \in Tools : Answered(t), NEW c \in Compared
  PROVE  c.id \in Findings(Summary) <=> Disagree(c)
  <1>1. /\ \A f \in Fields : Exif(f) = Told("exiftool", f)
        /\ \A f \in Fields : Ffprobe(f) = Told("ffprobe", f)
        /\ \A f \in Fields : MediaInfo(f) = Told("mediainfo", f)
        /\ \A t \in Tools, f \in Fields : Told(t, f) \in Nat \cup {Absent, Wild}
    BY OutputsAreTold DEF Exif, Ffprobe, MediaInfo, Tools
  <1>2. {"width", "height", "duration", "streams", "time"} \subseteq Fields
    BY DEF Fields, Numbers
  <1>3. c.id \in Findings(Summary) <=> Finding(c.id, Summary)
    BY DEF Findings, FindingIds, Compared
  <1>4. CASE c = [id |-> "dimension", field |-> "width", tools |-> {"exiftool", "ffprobe"}]
    <2>1. Finding(c.id, Summary) <=> Differ(Exif("width"), Ffprobe("width"))
      BY <1>4 DEF Finding, MediaInfoFinding
    <2> QED BY <1>1, <1>2, <1>3, <1>4, <2>1 DEF Differ, Disagree
  <1>5. CASE c = [id |-> "height", field |-> "height", tools |-> {"exiftool", "ffprobe"}]
    <2>1. Finding(c.id, Summary) <=> Differ(Exif("height"), Ffprobe("height"))
      BY <1>5 DEF Finding, MediaInfoFinding
    <2> QED BY <1>1, <1>2, <1>3, <1>5, <2>1 DEF Differ, Disagree
  <1>6. CASE c = [id |-> "duration", field |-> "duration", tools |-> {"ffprobe", "mediainfo"}]
    <2> DEFINE a == Told("ffprobe", "duration")
               b == Told("mediainfo", "duration")
    <2>1. Finding(c.id, Summary) <=> Apart(a, b)
      BY <1>1, <1>2, <1>6 DEF Finding, MediaInfoFinding
    <2>2. Disagree(c) <=>
             \E x, y \in {a, b} : /\ Absent \notin {x, y}
                                  /\ IF Wild \notin {x, y} THEN x > y + Tolerance ELSE x # y
      BY <1>6 DEF Disagree
    <2>3. a \in Nat \cup {Absent, Wild} /\ b \in Nat \cup {Absent, Wild}
      BY <1>1, <1>2 DEF Tools
    <2> HIDE DEF a, b
    <2>4. Apart(a, b) <=>
             \E x, y \in {a, b} : /\ Absent \notin {x, y}
                                  /\ IF Wild \notin {x, y} THEN x > y + Tolerance ELSE x # y
      BY <2>3, EngineAssumption DEF Apart, Differ
    <2> QED BY <1>3, <2>1, <2>2, <2>4
  <1>7. CASE c = [id |-> "stream-count", field |-> "streams", tools |-> {"ffprobe", "mediainfo"}]
    <2>1. Finding(c.id, Summary) <=> Differ(Ffprobe("streams"), MediaInfo("streams"))
      BY <1>7 DEF Finding, MediaInfoFinding
    <2> QED BY <1>1, <1>2, <1>3, <1>7, <2>1 DEF Differ, Disagree
  <1>8. CASE c = [id |-> "creation-time", field |-> "time", tools |-> Tools]
    <2> DEFINE a == Told("exiftool", "time")
               b == Told("ffprobe", "time")
               d == Told("mediainfo", "time")
    <2>1. Exif("time") = a /\ Ffprobe("time") = b /\ MediaInfo("time") = d
      BY <1>1, <1>2
    <2>2. Disagree(c) <=> \E x, y \in {a, b, d} : Absent \notin {x, y} /\ x # y
      BY <1>8 DEF Disagree, Tools
    <2> HIDE DEF a, b, d
    <2>3. Finding(c.id, Summary) <=> Cardinality({a, b, d} \ {Absent}) > 1
      BY <1>8, <2>1 DEF Finding, MediaInfoFinding
    <2> DEFINE S == {a, b, d} \ {Absent}
    <2>4. IsFiniteSet(S)
      BY ThreeValues
    <2>5. (\E x, y \in S : x # y) <=> \E x, y \in {a, b, d} : Absent \notin {x, y} /\ x # y
      OBVIOUS
    <2> HIDE DEF S
    <2>6. Cardinality(S) > 1 <=> \E x, y \in S : x # y
      BY <2>4, TwoElements
    <2> QED BY <1>3, <2>2, <2>3, <2>5, <2>6 DEF S
  <1> QED BY <1>4, <1>5, <1>6, <1>7, <1>8 DEF Compared

\* A mismatch is reported exactly if two tools that were understood disagree.
THEOREM MismatchesObserved == Spec => []MismatchesAreObserved
  <1>1. Init => MismatchesAreObserved
    BY DEF Init, MismatchesAreObserved, Reported
  <1>2. ASSUME Inv, MismatchesAreObserved, [Next]_vars PROVE MismatchesAreObserved'
    <2> SUFFICES ASSUME Reported' PROVE MismatchesAreObserved'
      BY DEF MismatchesAreObserved
    <2>1. CASE UNCHANGED vars
      BY <1>2, <2>1
      DEF vars, MismatchesAreObserved, Reported, Disagree, Told, Understood, Compared
    <2>2. CASE ~UNCHANGED vars
      <3>1. /\ report'.findings = Findings(Summary)
            /\ said' = said
            /\ \A t \in Tools : Answered(t)
        BY <1>2, <2>2, Reporting
      <3>2. \A c \in Compared : (c.id \in Findings(Summary) <=> Disagree(c))
        BY <1>2, <3>1, MismatchTold DEF Inv
      <3>3. \A c \in Compared : Disagree(c)' <=> Disagree(c)
        BY <3>1 DEF Disagree, Told, Understood
      <3> QED BY <3>1, <3>2, <3>3 DEF MismatchesAreObserved, Compared
    <2> QED BY <2>1, <2>2
  <1>3. Inv /\ MismatchesAreObserved /\ [Next]_vars => MismatchesAreObserved'
    BY <1>2
  <1> QED BY <1>1, <1>3, InvHolds, PTL DEF Spec
=============================================================================

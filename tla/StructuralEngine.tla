-------------------------- MODULE StructuralEngine --------------------------
(***************************************************************************)
(* StructuralAnalysisEngine.analyze (packages/structural): the adapters    *)
(* one after the other, each with the result of the subprocess runner that *)
(* ToolRunner models, then the tool inventory, the normalized summary, the *)
(* consistency findings, a status for every registry entry and the verdict *)
(* that StructuralAnalysis commits.                                        *)
(*                                                                         *)
(* What a tool prints is a document: the fields that are compared or that  *)
(* an expected structure is judged by, each absent or with a value; the    *)
(* other fields are copied without a decision.  Numbers are compared as    *)
(* the text they were printed as, so two spellings of one are two values.  *)
(***************************************************************************)
EXTENDS Integers, FiniteSets, ToolAnswers

CONSTANTS
    Evidence,   \* the evidence to analyze: [category, extension, client]
    Documents,  \* what each tool may print that is valid JSON
    Length,     \* evidence.byte_length
    Tolerance,  \* the difference of durations that is no mismatch
    Absent,     \* no value
    Wild,       \* a number that no summary takes: negative, or beyond any int
    Faults      \* which of "missing", "start", "failed", "unkillable", "invalid",
                \* "unwritable", "unreadable" occur

Categories == {"image", "audio", "video"}
Tools == {"exiftool", "ffprobe", "mediainfo"}
\* track: the duration of MediaInfo's audio track; duration is that of the container.
Numbers == {"width", "height", "duration", "track"}
Fields == Numbers \cup {"codec", "size", "streams", "time", "software"}
Document ==
    {d \in [Fields -> Nat \cup {Absent, Wild}] : \A f \in Fields \ Numbers : d[f] # Wild}
NoDocument == [f \in Fields |-> Absent]

\* extension and client: what the filename and the upload declare, against the bytes.
Asset == [category : Categories \cup {"other"},
          extension : {"none", "same", "different"}, client : {"none", "same", "different"}]

ASSUME EngineAssumption ==
    /\ Evidence \subseteq Asset
    /\ DOMAIN Documents = Tools
    /\ \A t \in Tools : \A d \in Documents[t] : d \in Document
    /\ Length \in Nat /\ Tolerance \in Nat
    /\ Absent \notin Nat /\ Wild \notin Nat /\ Absent # Wild
    /\ Faults \subseteq {"missing", "start", "failed", "unkillable", "invalid",
                        "unwritable", "unreadable"}

VARIABLES
    evidence, \* the evidence that is analyzed
    stage,    \* what analyze does next
    said,     \* history: what the runner and the tool really did
    results,  \* adapter_results, with the structured output
    report    \* StructuralEngineResult

vars == <<evidence, stage, said, results, report>>

Sequence == [signature |-> "exiftool", exiftool |-> "ffprobe", ffprobe |-> "mediainfo",
             mediainfo |-> "conclude"]
Stages == DOMAIN Sequence \cup {"conclude", "reported", "raised"}

\* printed: what SUCCEEDED came with.  "unwritable" is valid JSON that cannot be parsed or
\* written: numbers that are not finite or too long, unpaired surrogates, deep nesting.
Run == [outcome : Outcomes, version : BOOLEAN,
        printed : {"nothing", "json", "invalid", "unwritable"},
        document : Document]
NotRun == [outcome |-> "none"]

Statuses == {"EXECUTED", "FAILED", "PROVIDER_UNAVAILABLE", "UNSUPPORTED_INPUT",
             "NOT_APPLICABLE"}
AdapterResult == [status : Statuses, version : BOOLEAN, started : BOOLEAN,
                  output : Document]
NoResult == [status |-> "none"]
NoReport == [status |-> "none"]

Init ==
    /\ evidence \in Evidence
    /\ stage = "signature"
    /\ said = [t \in Tools |-> NotRun]
    /\ results = [t \in DOMAIN Sequence |-> NoResult]
    /\ report = NoReport

Supported == evidence.category # "other"

----------------------------------------------------------------------------
(* The adapters.                                                           *)

Gets(result) ==
    /\ results' = [results EXCEPT ![stage] = result]
    /\ stage' = Sequence[stage]

Unsupported == [status |-> "UNSUPPORTED_INPUT", version |-> FALSE, started |-> TRUE,
                output |-> NoDocument]

Sign ==
    /\ stage = "signature"
    /\ Gets(IF Supported
            THEN [status |-> "EXECUTED", version |-> TRUE, started |-> TRUE,
                  output |-> NoDocument]
            ELSE Unsupported)
    /\ UNCHANGED <<evidence, said, report>>

\* The signature adapter opens the evidence itself and does not catch the error.
SignFails ==
    /\ stage = "signature" /\ Supported
    /\ "unreadable" \in Faults
    /\ stage' = "raised"
    /\ UNCHANGED <<evidence, said, results, report>>

\* What SafeSubprocessRunner.run may return for a tool.
Runs(t) ==
    {r \in [outcome : Outcomes, version : BOOLEAN,
            printed : {"nothing", "json", "invalid", "unwritable"},
            document : Documents[t] \cup {NoDocument}] :
        /\ r.outcome = "EXECUTABLE_MISSING" => "missing" \in Faults
        /\ r.outcome = "START_FAILED" => "start" \in Faults
        /\ r.outcome = "OTHER_FAILURE" => "failed" \in Faults
        /\ r.outcome = "RAISED" => "unkillable" \in Faults
        /\ [outcome |-> r.outcome, version |-> r.version] \in Promised
        /\ r.printed = "nothing" <=> r.outcome # "SUCCEEDED"
        /\ r.printed = "invalid" => "invalid" \in Faults
        /\ r.printed = "unwritable" => "unwritable" \in Faults
        /\ r.printed = "json" => r.document \in Documents[t]
        /\ r.printed # "json" => r.document = NoDocument}

\* A TimeoutExpired of the runner, and what json.loads, sanitize_json or
\* canonical_json_bytes raise for JSON that is no JSONDecodeError: no adapter catches them.
Escapes(r) == r.outcome = "RAISED" \/ r.printed = "unwritable"

\* parse_json_result
Parse(r) ==
    [status |-> IF r.outcome = "EXECUTABLE_MISSING" THEN "PROVIDER_UNAVAILABLE"
                ELSE IF r.outcome # "SUCCEEDED" \/ r.printed = "invalid" THEN "FAILED"
                ELSE "EXECUTED",
     version |-> r.version /\ r.outcome # "EXECUTABLE_MISSING",
     started |-> r.outcome # "START_FAILED",
     output |-> r.document]

Execute ==
    /\ stage \in Tools /\ Supported
    /\ \E r \in Runs(stage) :
          /\ said' = [said EXCEPT ![stage] = r]
          /\ IF Escapes(r) THEN stage' = "raised" /\ UNCHANGED results
                           ELSE Gets(Parse(r))
    /\ UNCHANGED <<evidence, report>>

Skip ==
    /\ stage \in Tools /\ ~Supported
    /\ Gets(Unsupported)
    /\ UNCHANGED <<evidence, said, report>>

----------------------------------------------------------------------------
(* build_structural_summary.                                               *)

Exif(f) == results["exiftool"].output[f]
Ffprobe(f) == results["ffprobe"].output[f]
MediaInfo(f) == results["mediainfo"].output[f]

\* Mutant of Or: only a missing number is no value.
OrAbsent(a, b) == IF a = Absent THEN b ELSE a

\* `_integer(a) or _integer(b)`: zero counts as no value.
Or(a, b) == IF a \in {Absent, 0} THEN b ELSE a

\* `_text(a) or _text(b)`: the text 0 is a value.
OrText(a, b) == IF a = Absent THEN b ELSE a

NoSummary == [width |-> Absent, height |-> Absent, duration |-> Absent, codec |-> Absent]

ImageSummary == [width |-> Or(Exif("width"), Ffprobe("width")),
                 height |-> Or(Exif("height"), Ffprobe("height")),
                 duration |-> Absent, codec |-> Absent]

\* MediaInfo is asked for its audio track, below for the container.
AudioSummary == [width |-> Absent, height |-> Absent,
                 duration |-> Or(Ffprobe("duration"), MediaInfo("track")),
                 codec |-> OrText(Ffprobe("codec"), MediaInfo("codec"))]

VideoSummary == [width |-> Ffprobe("width"), height |-> Ffprobe("height"),
                 duration |-> Or(Ffprobe("duration"), MediaInfo("duration")),
                 codec |-> Ffprobe("codec")]

Summary == IF evidence.category = "image" THEN ImageSummary
           ELSE IF evidence.category = "audio" THEN AudioSummary
           ELSE IF evidence.category = "video" THEN VideoSummary
           ELSE NoSummary

\* int() overflows, or the summary model refuses a negative value.
Refused(summary) == \E f \in DOMAIN summary : summary[f] = Wild

----------------------------------------------------------------------------
(* build_consistency_findings.                                             *)

Differ(a, b) == Absent \notin {a, b} /\ a # b

\* Mutant of Apart: the difference is compared without abs().
ApartBehind(a, b) == Differ(a, b) /\ (Wild \in {a, b} \/ a - b > Tolerance)

\* A wild duration is far from every other.
Apart(a, b) == Differ(a, b) /\ (Wild \in {a, b} \/ a - b > Tolerance \/ b - a > Tolerance)

ExpectedPresent(summary) ==
    IF evidence.category = "image" THEN summary.width # Absent ELSE summary.codec # Absent

MediaInfoFinding(id) ==
    \/ id = "duration" /\ Apart(Ffprobe("duration"), MediaInfo("duration"))
    \/ id = "stream-count" /\ Differ(Ffprobe("streams"), MediaInfo("streams"))
    \/ id = "creation-time"
       /\ Cardinality({Exif("time"), Ffprobe("time"), MediaInfo("time")} \ {Absent}) > 1

\* The size that was verified is the database's, for nothing else is analyzed.
Finding(id, summary) ==
    \/ id = "extension-mime" /\ Supported /\ evidence.extension = "different"
    \/ id = "client-mime" /\ evidence.client = "different"
    \/ id = "ffprobe-size" /\ Differ(Ffprobe("size"), Length)
    \/ id = "dimension" /\ Differ(Exif("width"), Ffprobe("width"))
    \/ id = "height" /\ Differ(Exif("height"), Ffprobe("height"))
    \/ MediaInfoFinding(id)
    \/ id = "expected-structure" /\ ~ExpectedPresent(summary)
    \/ id = "software-tag" /\ Exif("software") # Absent

FindingIds == {"extension-mime", "client-mime", "ffprobe-size", "dimension", "height",
               "duration", "stream-count", "creation-time", "expected-structure",
               "software-tag"}
Findings(summary) == {id \in FindingIds : Finding(id, summary)}

----------------------------------------------------------------------------
(* The tool inventory, the registry and the verdict.                       *)

\* Mutant of Available: START_FAILED is not looked at.
AvailableIfVersioned(t) ==
    /\ results[t].status # "PROVIDER_UNAVAILABLE"
    /\ results[t].version

Available(t) ==
    /\ results[t].status # "PROVIDER_UNAVAILABLE"
    /\ results[t].version
    /\ results[t].started
Inventory == {t \in Tools : Available(t)}

Registry == DOMAIN Sequence \cup
            {"image-summary", "audio-summary", "video-summary", "metadata-consistency"}

\* applicable_mime_categories of the tests that run no adapter.
Applicable(test) ==
    CASE test = "image-summary" -> {"image"}
      [] test = "audio-summary" -> {"audio"}
      [] test = "video-summary" -> {"video"}
      [] test = "metadata-consistency" -> Categories

TestStatus(test) ==
    IF test \in DOMAIN Sequence THEN results[test].status
    ELSE IF evidence.category \in Applicable(test) THEN "EXECUTED" ELSE "NOT_APPLICABLE"
Tests == [test \in Registry |-> TestStatus(test)]

Verdict(tests) ==
    IF \E test \in Registry : tests[test] \in {"FAILED", "PROVIDER_UNAVAILABLE"}
    THEN "PARTIAL" ELSE "COMPLETED"

Conclude ==
    /\ stage = "conclude"
    /\ IF Refused(Summary) THEN stage' = "raised" /\ UNCHANGED report
       ELSE /\ stage' = "reported"
            /\ report' = [status |-> Verdict(Tests), tests |-> Tests, summary |-> Summary,
                          findings |-> Findings(Summary), inventory |-> Inventory]
    /\ UNCHANGED <<evidence, said, results>>

----------------------------------------------------------------------------
Done == stage \in {"reported", "raised"} /\ UNCHANGED vars

Next == Sign \/ SignFails \/ Execute \/ Skip \/ Conclude \/ Done

Spec == Init /\ [][Next]_vars

Report == [status : {"COMPLETED", "PARTIAL"}, tests : [Registry -> Statuses],
           summary : [DOMAIN NoSummary -> Nat \cup {Absent}],
           findings : SUBSET FindingIds, inventory : SUBSET Tools]

TypeOK ==
    /\ evidence \in Evidence
    /\ stage \in Stages
    /\ said \in [Tools -> {NotRun} \cup Run]
    /\ results \in [DOMAIN Sequence -> {NoResult} \cup AdapterResult]
    /\ report \in {NoReport} \cup Report

----------------------------------------------------------------------------
(* Safety, in terms of what the tools really did and printed.              *)

Reported == stage = "reported"

Understood(t) == said[t].outcome = "SUCCEEDED" /\ said[t].printed = "json"

\* What a tool printed in a run whose output was understood.
Told(t, f) == IF said[t] # NotRun /\ Understood(t) THEN said[t].document[f] ELSE Absent

\* analyze, _build_test_results, _tool_inventory: a run is COMPLETED only if every tool
\* that applies succeeded and was understood, and each tool's test says which did; a
\* tool is listed as available exactly if it could be started on this evidence.
VerdictIsTrue ==
    Reported =>
        /\ (report.status = "COMPLETED") <=> (Supported => \A t \in Tools : Understood(t))
        /\ Supported => \A t \in Tools : (report.tests[t] = "EXECUTED" <=> Understood(t))
        /\ report.inventory = {t \in Tools : said[t].outcome \in {"SUCCEEDED", "OTHER_FAILURE"}}

\* The tools and fields that a summarized value may come from.
Asked(f) ==
    IF evidence.category = "image"
    THEN IF f \in {"width", "height"} THEN {<<"exiftool", f>>, <<"ffprobe", f>>} ELSE {}
    ELSE IF evidence.category = "audio"
    THEN IF f = "duration" THEN {<<"ffprobe", "duration">>, <<"mediainfo", "track">>}
         ELSE IF f = "codec" THEN {<<"ffprobe", "codec">>, <<"mediainfo", "codec">>} ELSE {}
    ELSE IF evidence.category = "video"
    THEN {<<"ffprobe", f>>} \cup (IF f = "duration" THEN {<<"mediainfo", f>>} ELSE {})
    ELSE {}

ToldOf(f) == {Told(s[1], s[2]) : s \in Asked(f)}

\* parse_json_result, analyze: a tool that is missing, does not start, fails, times out
\* or prints no JSON never costs the run the results of the others.  analyze raises only
\* for evidence that it cannot read, for a tool that survives SIGKILL, for JSON that cannot
\* be written again and for numbers that int or the summary models refuse, although all
\* but the first are the tool's and not the service's.
AbortsHaveCauses ==
    stage = "raised" =>
        \/ "unreadable" \in Faults /\ said["exiftool"] = NotRun
        \/ \E t \in Tools : said[t] # NotRun /\ Escapes(said[t])
        \/ \E f \in DOMAIN NoSummary : Wild \in ToldOf(f)

\* build_structural_summary: a summarized value was printed by a tool that succeeded and
\* is asked for it, and a value that counts is never hidden by a tool that failed, had
\* none or printed the zero of a field it does not know.
SummaryIsSourced ==
    Reported =>
        \A f \in DOMAIN NoSummary :
            LET none == IF f = "codec" THEN {Absent} ELSE {Absent, 0} IN
            /\ report.summary[f] \in ToldOf(f) \cup {Absent}
            /\ ToldOf(f) \subseteq none \/ report.summary[f] \notin none

\* What is compared: the finding, the field and the tools that speak of it.
Compared ==
    {[id |-> "dimension", field |-> "width", tools |-> {"exiftool", "ffprobe"}],
     [id |-> "height", field |-> "height", tools |-> {"exiftool", "ffprobe"}],
     [id |-> "duration", field |-> "duration", tools |-> {"ffprobe", "mediainfo"}],
     [id |-> "stream-count", field |-> "streams", tools |-> {"ffprobe", "mediainfo"}],
     [id |-> "creation-time", field |-> "time", tools |-> Tools]}

\* Two tools printed values of a field that cannot both be right.
Disagree(c) ==
    \E t, u \in c.tools :
        LET a == Told(t, c.field)
            b == Told(u, c.field) IN
        /\ Absent \notin {a, b}
        /\ IF c.field = "duration" /\ Wild \notin {a, b} THEN a > b + Tolerance ELSE a # b

\* build_consistency_findings: a mismatch is reported exactly if two tools that were
\* understood disagree, whichever tools failed; it is a lead for a reviewer, so neither
\* one too few nor one made of missing output.
MismatchesAreObserved ==
    Reported => \A c \in Compared : (c.id \in report.findings <=> Disagree(c))
=============================================================================

------------------------------- MODULE Staging -------------------------------
(***************************************************************************)
(* Facts an agent finds on the web for complexes without a fresh one.      *)
(* enrich_cron.py selects complexes, has `claude -p` answer, parses the    *)
(* answer and appends what survives to data/staging/<attr>.jsonl; a person *)
(* reads the staged lines and moves the good ones to data/seeds; and       *)
(* load_<attr>_seed.py writes the seeds to table enrichment, where facts   *)
(* expire.  Several crons of one attribute may overlap: no lock keeps them *)
(* apart.  auto_enrich() is the manual run that skips the person.          *)
(***************************************************************************)
EXTENDS Integers, Sequences, SequencesExt, FiniteSets

CONSTANTS
    N,           \* complexes, numbered by descending household_count
    Limit,       \* --limit
    Crons,       \* runs of enrich_cron.py that may overlap
    Manual,      \* runs of auto_enrich(), not in Crons
    Attrs,       \* the attributes a configuration looks at
    ManualAttrs, \* those that are filled by hand
    Blocked,     \* urls of BLOCKED_DOMAINS
    Untraceable, \* urls that are empty, or neither http nor urn
    Wiki,        \* urls of WIKI_DOMAINS
    Answers,     \* what the agent may print: sequences of lines
    Hopeless,    \* complexes for which it may never print a usable line
    MaxMishaps   \* bound on runs killed, lines rejected and facts expired, together

Complexes == 1..N
Runs == Crons \cup Manual

ASSUME StagingConstants ==
    /\ N \in Nat /\ Limit \in Nat \ {0} /\ MaxMishaps \in Nat /\ ManualAttrs \subseteq Attrs
    /\ Hopeless \subseteq Complexes
    /\ Crons \cap Manual = {}
    /\ Attrs \subseteq {"gym", "pet", "review", "floorplan"}
    /\ \A out \in Answers :
         /\ out \in Seq(ToSet(out))
         /\ \A l \in ToSet(out) : l.json => l.conf \in Int /\ l.size \in Int

VARIABLES
    attr,      \* the attribute of this behaviour
    staged,    \* data/staging/<attr>.jsonl: records, and Torn lines
    seeds,     \* data/seeds/<attr>_*.jsonl, one record per pair: the later wins
    fresh,     \* rows of table enrichment that have not expired
    pc,        \* per run: "idle", "claude", "dedup", "write", "load"
    cand,      \* per run: the complexes it asks about
    recs,      \* per run: the records it has parsed; their order tells nothing
    overlap,   \* history: two runs were between staged_pairs and the append
    mishaps

vars == <<attr, staged, seeds, fresh, pc, cand, recs, overlap,
          mishaps>>

Torn == [half |-> "a line"]
Pair(r) == <<r.complex, r.url>>

Init ==
    /\ attr \in Attrs
    /\ staged = <<>> /\ seeds = {} /\ fresh = {}
    /\ pc = [p \in Runs |-> "idle"]
    /\ cand = [p \in Runs |-> {}] /\ recs = [p \in Runs |-> {}]
    /\ overlap = FALSE /\ mishaps = 0

-----------------------------------------------------------------------------
(* Parsing an answer.  A line is what one JSON object says, or [json |->   *)
(* FALSE] for anything else.                                               *)

Confidence == 10                                 \* 1.0, in tenths
WikiCap == 5
SummaryCap == 2                                  \* REVIEW_SUMMARY_CAP, in units
Clamp(n, hi) == IF n > hi THEN hi ELSE IF n < 0 THEN 0 ELSE n

States == IF attr = "pet" THEN {"yes", "conditional", "no", "unknown"}
                          ELSE {"yes", "no", "unknown"}

(* R1 and R2: plans are not facts, a gym needs a word for it.              *)
Demote(l) ==
    LET planned == l.state \in {"yes", "conditional"} /\ l.future /\ ~l.done
        generic == attr = "gym" /\ l.state = "yes" /\ ~l.token
    IN  IF l.state \notin States \/ planned \/ generic THEN "unknown" ELSE l.state
CapWiki(l) == LET c == Clamp(l.conf, Confidence)
              IN  IF l.url \in Wiki THEN Clamp(c, WikiCap) ELSE c

(* What the three parsers require of a line alike.                         *)
SourcedUnchecked(l, valid) ==   \* mutant: blocked domains pass
    l.json /\ l.complex \in valid /\ l.url \notin Untraceable
Sourced(l, valid) ==
    /\ l.json /\ l.complex \in valid
    /\ l.url \notin Untraceable \cup Blocked

(* What each parser keeps of a line, as which value.  Bays, orientation    *)
(* and structure outside their domains become null; all three null drop    *)
(* the line.                                                               *)
NormBay(n) == IF n \in 1..9 THEN n ELSE 0
ParseState(l) == [kept |-> l.evidence, value |-> Demote(l)]          \* gym, pet
CapText(n) == IF n > SummaryCap THEN SummaryCap + 1 ELSE n   \* cut, and an ellipsis
ParseReview(l) == [kept |-> l.size > 0, value |-> CapText(l.size)]
ParseFloorplan(l) == [kept |-> NormBay(l.size) # 0 \/ l.token, value |-> NormBay(l.size)]
Parse(l) ==
    CASE attr = "review" -> ParseReview(l)
      [] attr = "floorplan" -> ParseFloorplan(l)
      [] OTHER -> ParseState(l)

RecordOf(l) ==
    [complex |-> l.complex, url |-> l.url, value |-> Parse(l).value, conf |-> CapWiki(l)]

(* The first such line of each pair, or of each complex, is kept.          *)
Key(l) == IF attr \in {"review", "floorplan"} THEN Pair(l) ELSE l.complex
ParseRecords(out, valid) ==
    LET good == {i \in DOMAIN out : Sourced(out[i], valid) /\ Parse(out[i]).kept}
        first == {i \in good : \A j \in good : Key(out[j]) = Key(out[i]) => i <= j}
    IN  {RecordOf(out[i]) : i \in first}

-----------------------------------------------------------------------------
(* The staging file and the table.                                         *)

Records == {staged[i] : i \in DOMAIN staged} \ {Torn}
Readable == Torn \notin ToSet(staged)            \* json.loads raises on half a line
StagedComplexes == {r.complex : r \in Records}
StagedPairs == {Pair(r) : r \in Records}
HasFresh(c) == \E r \in fresh : r.complex = c

(* A line appended after half a line becomes part of it.                   *)
Appended(lines) ==
    IF staged # <<>> /\ Last(staged) = Torn /\ lines # <<>>
    THEN staged \o Tail(lines) ELSE staged \o lines

WriteFacts(S) == fresh' = {r \in fresh : Pair(r) \notin {Pair(s) : s \in S}} \cup S

-----------------------------------------------------------------------------
(* enrich_cron.run_cron and auto_enrich.                                   *)

SelectStagedToo(excluded) ==   \* mutant: what is staged is asked again
    LET open == {c \in Complexes : ~HasFresh(c)}
    IN  {c \in open : Cardinality({d \in open : d < c}) < Limit}
SelectCandidates(excluded) ==
    LET open == {c \in Complexes : ~HasFresh(c) /\ c \notin excluded}
    IN  {c \in open : Cardinality({d \in open : d < c}) < Limit}

Go(p, where) == pc' = [pc EXCEPT ![p] = where]
Finish(p) ==
    /\ Go(p, "idle")
    /\ cand' = [cand EXCEPT ![p] = {}] /\ recs' = [recs EXCEPT ![p] = {}]

Select(p) ==
    /\ pc[p] = "idle"
    /\ IF p \in Crons THEN Readable /\ attr # "floorplan" ELSE attr \in ManualAttrs
    /\ LET c == SelectCandidates(IF p \in Crons THEN StagedComplexes ELSE {})
       IN  c # {} /\ cand' = [cand EXCEPT ![p] = c]
    /\ Go(p, "claude")
    /\ UNCHANGED <<attr, staged, fresh, recs, seeds, overlap, mishaps>>

Claude(p, out) ==
    /\ pc[p] = "claude"
    /\ LET r == ParseRecords(out, cand[p])
       IN  IF r = {} THEN Finish(p)
           ELSE /\ recs' = [recs EXCEPT ![p] = r] /\ cand' = [cand EXCEPT ![p] = {}]
                /\ Go(p, "dedup")
    /\ UNCHANGED <<attr, staged, fresh, seeds, overlap, mishaps>>

(* append_staging reads the pairs that are there...                        *)
StagedAlreadyUnchecked(p) ==   \* mutant: the staged pairs are not looked up
    /\ p \in Crons /\ pc[p] = "dedup" /\ Readable
    /\ Go(p, "write") /\ UNCHANGED <<cand, recs>>
    /\ overlap' = (overlap \/ \E q \in Crons \ {p} : pc[q] = "write")
    /\ UNCHANGED <<attr, staged, fresh, seeds, mishaps>>
StagedAlready(p) ==
    /\ p \in Crons /\ pc[p] = "dedup"
    /\ LET new == {r \in recs[p] : Pair(r) \notin StagedPairs}
       IN  IF ~Readable \/ new = {} THEN Finish(p)
           ELSE recs' = [recs EXCEPT ![p] = new] /\ Go(p, "write") /\ UNCHANGED cand
    /\ overlap' = (overlap \/ \E q \in Crons \ {p} : pc[q] = "write")
    /\ UNCHANGED <<attr, staged, fresh, seeds, mishaps>>
(* ... and appends the rest.                                               *)
AppendStaging(p) ==
    /\ p \in Crons /\ pc[p] = "write"
    /\ \E lines \in SetToSeqs(recs[p]) : staged' = Appended(lines)
    /\ Finish(p)
    /\ UNCHANGED <<attr, fresh, seeds, overlap, mishaps>>

(* auto_enrich: append_seed, then the loader, with no person between.      *)
AppendSeed(p) ==
    /\ p \in Manual /\ pc[p] = "dedup"
    /\ seeds' = {r \in seeds : Pair(r) \notin {Pair(s) : s \in recs[p]}}
                \cup recs[p]
    /\ Go(p, "load")
    /\ UNCHANGED <<attr, staged, fresh, cand, recs, overlap, mishaps>>
LoadRecords(p) ==
    /\ p \in Manual /\ pc[p] = "load"
    /\ WriteFacts({r \in recs[p] : ~HasFresh(r.complex)})
    /\ Finish(p)
    /\ UNCHANGED <<attr, staged, seeds, overlap, mishaps>>

(* A run is killed; while it appends, half a line may stay.                *)
Die(p) ==
    /\ pc[p] # "idle" /\ mishaps < MaxMishaps
    /\ mishaps' = mishaps + 1
    /\ \/ UNCHANGED staged
       \/ /\ p \in Crons /\ pc[p] = "write"
          /\ \E lines \in SetToSeqs(recs[p]) : \E n \in 1..Len(lines) :
                staged' = Appended(SubSeq(lines, 1, n - 1) \o <<Torn>>)
    /\ Finish(p)
    /\ UNCHANGED <<attr, fresh, seeds, overlap>>

-----------------------------------------------------------------------------
(* The person, and the loader that the person starts.                      *)

Without(i) == RemoveAt(staged, i)

Promote(i) ==
    /\ staged[i] # Torn
    /\ staged' = Without(i)
    /\ seeds' = {r \in seeds : Pair(r) # Pair(staged[i])} \cup {staged[i]}
    /\ UNCHANGED <<attr, fresh, pc, cand, recs, overlap, mishaps>>
Reject(i) ==
    /\ staged[i] # Torn /\ mishaps < MaxMishaps
    /\ staged' = Without(i) /\ mishaps' = mishaps + 1
    /\ UNCHANGED <<attr, seeds, fresh, pc, cand, recs, overlap>>
Mend(i) ==
    /\ staged[i] = Torn
    /\ staged' = Without(i)
    /\ UNCHANGED <<attr, fresh, pc, cand, recs, seeds, overlap, mishaps>>

(* load_<attr>_seed.py goes from complex to complex, a commit each: all    *)
(* sources of a complex at once, or none if one of them is fresh.          *)
LoadSeed(c) ==
    /\ ~HasFresh(c) /\ \E r \in seeds : r.complex = c
    /\ WriteFacts({r \in seeds : r.complex = c})
    /\ UNCHANGED <<attr, staged, seeds, pc, cand, recs, overlap, mishaps>>

Expire(r) ==
    /\ r \in fresh /\ mishaps < MaxMishaps
    /\ fresh' = fresh \ {r} /\ mishaps' = mishaps + 1
    /\ UNCHANGED <<attr, staged, seeds, pc, cand, recs, overlap>>

Person == \E i \in DOMAIN staged : Promote(i) \/ Reject(i) \/ Mend(i)
Cron(p) ==
    \/ Select(p) \/ StagedAlready(p) \/ AppendStaging(p) \/ AppendSeed(p)
    \/ LoadRecords(p) \/ \E out \in Answers : Claude(p, out)

Next ==
    \/ \E p \in Runs : Cron(p) \/ Die(p)
    \/ Person
    \/ \E c \in Complexes : LoadSeed(c)
    \/ \E r \in fresh : Expire(r)

(* cron goes on; the person repairs the file and loads seeds; a complex    *)
(* asked about again and again gets a usable answer in the end, if the web *)
(* has anything about it.                                                  *)
UsableFor(c) ==
    \E p \in Crons, out \in Answers :
       /\ \E r \in ParseRecords(out, cand[p]) : r.complex = c
       /\ Claude(p, out)
Fairness ==
    /\ \A p \in Crons : WF_vars(Cron(p)) /\ SF_vars(Select(p))
                        /\ SF_vars(StagedAlready(p)) /\ SF_vars(AppendStaging(p))
    /\ WF_vars(\E i \in DOMAIN staged : Mend(i))
    /\ \A c \in Complexes : WF_vars(LoadSeed(c))
    /\ \A c \in Complexes \ Hopeless : SF_vars(UsableFor(c))
Spec == Init /\ [][Next]_vars /\ Fairness

-----------------------------------------------------------------------------

(* Whatever the agent prints, what is staged, seeded or stored names its   *)
(* source and keeps the rules of the parsers: no blocked domain, a wiki    *)
(* counts little, a plan or a generic word never becomes a yes, a summary  *)
(* is cut to its cap and the ellipsis.                                     *)
Follows(r) ==
    /\ r.complex \in Complexes /\ r.url \notin Blocked \cup Untraceable
    /\ r.url \in Wiki => r.conf <= WikiCap
    /\ attr \in {"gym", "pet"} =>
          \E out \in Answers : \E l \in ToSet(out) :
             /\ l.json /\ l.complex = r.complex /\ l.url = r.url
             /\ r.value \in {"yes", "conditional"} =>
                   (l.future => l.done) /\ (attr = "gym" => l.token)
    /\ attr = "review" => r.value <= SummaryCap + 1
Disciplined == \A r \in Records \cup seeds \cup fresh : Follows(r)

(* A source of a complex is staged once, unless two crons appended at the  *)
(* same time; one run after another never repeats a line.                  *)
Once(lines) == \A i, j \in DOMAIN lines :
    i # j /\ Torn \notin {lines[i], lines[j]} => Pair(lines[i]) # Pair(lines[j])
OnePerPair == ~overlap => Once(staged)

(* Every complex about which the web has something is in the end fresh or  *)
(* staged, and again when it expires, whoever dies or leaves half a line,  *)
(* and although the larger complexes come first in every run; provided     *)
(* that those without a usable answer, of which nothing is recorded and    *)
(* which each run asks about again, do not fill a run by themselves.       *)
TurnsOf(S) == \A c \in S : []<>(HasFresh(c) \/ c \in StagedComplexes)
Served ==
    attr # "floorplan" /\ Cardinality(Hopeless) < Limit => TurnsOf(Complexes \ Hopeless)

(* The same without the proviso: "only what is neither loaded nor staged   *)
(* is selected, so run daily, the staging accumulates"                     *)
(* (docs/auto-enrich.md:37).                                               *)
Accumulates == attr # "floorplan" => TurnsOf(Complexes \ Hopeless)

-----------------------------------------------------------------------------

(* What the parsers can make of an answer.                                 *)
Printed == UNION {ToSet(out) : out \in Answers}
Made == {RecordOf(l) : l \in {m \in Printed : Sourced(m, Complexes) /\ Parse(m).kept}}

(* Types: a record is only ever made by a parser.                          *)
TypeOK ==
    /\ attr \in Attrs /\ overlap \in BOOLEAN /\ mishaps \in Nat
    /\ staged \in Seq(Made \cup {Torn}) /\ seeds \subseteq Made /\ fresh \subseteq Made
    /\ pc \in [Runs -> {"idle", "claude", "dedup", "write", "load"}]
    /\ cand \in [Runs -> SUBSET Complexes]
    /\ recs \in [Runs -> SUBSET Made] /\ \A p \in Runs : IsFiniteSet(recs[p])

(* Why a pair is staged once: a run has one record of a pair, and none of  *)
(* a staged pair once it has looked them up, as long as one run at a time  *)
(* is between the look and the write.                                      *)
Distinct(rs) == \A r, s \in rs : Pair(r) = Pair(s) => r = s
PairInv ==
    /\ \A p \in Runs : Distinct(recs[p])
    /\ OnePerPair
    /\ ~overlap => \A p \in Crons : pc[p] = "write" =>
         /\ \A r \in recs[p] : Pair(r) \notin StagedPairs
         /\ \A q \in Crons : pc[q] = "write" => q = p
=============================================================================

----------------------------- MODULE TagCapture -----------------------------
(***************************************************************************)
(* The tag mapping spike: a bounded, cached capture of a provider's        *)
(* answers (spike_tag_capture.py) and the traversal of the taxonomy that   *)
(* asks for them and later replays them, greedily and as a beam of three   *)
(* (spike_tag_mapping.py).                                                 *)
(*                                                                         *)
(* The script is sequential; what varies is the provider.  Probabilities   *)
(* are parts of Total.  A score is the geometric mean of the one or two    *)
(* decisions on a path, compared by its square.                            *)
(***************************************************************************)
EXTENDS Naturals, FiniteSets, SequencesExt

CONSTANTS
    tags,           \* the tags as read from the file
    genres,         \* taxonomy: the styles of each genre; labels are numbers in their order
    NONE,           \* the label of tags that are no genre
    GENRE_ONLY,     \* the label of a genre without a style
    Total,          \* the probability 1
    Weights,        \* the probabilities that occur, in parts of Total
    max_requests,
    max_attempts

ASSUME TagsAssumption == tags \in Seq({tags[i] : i \in DOMAIN tags})
ASSUME TaxonomyAssumption ==
    /\ DOMAIN genres # {} /\ DOMAIN genres \subseteq Nat /\ IsFiniteSet(DOMAIN genres)
    /\ \A g \in DOMAIN genres :
           genres[g] \subseteq Nat /\ IsFiniteSet(genres[g]) /\ {NONE, GENRE_ONLY} \cap genres[g] = {}
    /\ {NONE, GENRE_ONLY} \subseteq Nat /\ NONE \notin DOMAIN genres
ASSUME BoundsAssumption == {Total, max_requests, max_attempts} \subseteq Nat \ {0} /\ Weights \subseteq 0 .. Total

VARIABLES
    cache,      \* the captures: a distribution for each request <<tag, parent>>
    position,   \* of the tag at hand
    attempts,   \* of the request at hand
    requests,   \* budget spent
    failures,   \* requests that failed for good
    completed, failed, skipped,
    status      \* "verifying", "running", "sleeping", "done" or "refused"

reportVars == <<completed, failed, skipped, failures>>
vars == <<cache, position, attempts, requests, reportVars, status>>

-----------------------------------------------------------------------------
(* The traversal. *)

Children(path) ==
    CASE path = <<>>                      -> DOMAIN genres \cup {NONE}
      [] Len(path) = 1 /\ path[1] # NONE  -> genres[path[1]] \cup {GENRE_ONLY}
      [] OTHER                            -> {}

Branches(path) == Cardinality(Children(path)) > 1

(* Where a request may be needed *)
Parents == {<<>>} \cup {<<g>> : g \in DOMAIN genres}

(* What valid_distribution accepts *)
Distributions ==
    [path \in Parents |-> {p \in [Children(path) -> Weights] : SumFunction(p) = Total}]

(* The square of the geometric mean; a single child is no decision *)
Score(tag, c, path) ==
    LET first == c[<<tag, <<>>>>][path[1]]
    IN  IF Len(path) = 2 /\ Branches(<<path[1]>>) THEN first * c[<<tag, <<path[1]>>>>][path[2]] ELSE first * first

PathBefore(p, q) == p[1] < q[1] \/ (p[1] = q[1] /\ Last(p) < Last(q))

(* Mutant: the sort key has lost its sign *)
BetterUpsideDown(tag, c, p, q) ==
    \/ Score(tag, c, p) < Score(tag, c, q)
    \/ Score(tag, c, p) = Score(tag, c, q) /\ PathBefore(p, q)

Better(tag, c, p, q) ==
    \/ Score(tag, c, p) > Score(tag, c, q)
    \/ Score(tag, c, p) = Score(tag, c, q) /\ PathBefore(p, q)

(* The first `width` of the sorted candidates *)
Beam(tag, c, paths, width) ==
    {p \in paths : Cardinality({q \in paths : Better(tag, c, q, p)}) < width}

(* Options of probability zero are dropped *)
Expand(tag, c, path) ==
    IF Children(path) = {} THEN {path}
    ELSE {Append(path, o) : o \in {o \in Children(path) : Branches(path) => c[<<tag, path>>][o] > 0}}

FirstLevel(tag, c, width) == Beam(tag, c, Expand(tag, c, <<>>), width)

(* traverse *)
Candidates(tag, c, width) ==
    Beam(tag, c, UNION {Expand(tag, c, p) : p \in FirstLevel(tag, c, width)}, width)

Best(tag, c, width) ==
    CHOOSE p \in Candidates(tag, c, width) : \A q \in Candidates(tag, c, width) \ {p} : Better(tag, c, p, q)

(* The captures a traversal still lacks, as far as it can tell *)
Lacks(tag, c, width) ==
    IF <<tag, <<>>>> \notin DOMAIN c THEN {<<tag, <<>>>>}
    ELSE {<<tag, p>> : p \in {p \in FirstLevel(tag, c, width) : Branches(p)}} \ DOMAIN c

-----------------------------------------------------------------------------
(* Capturer. *)

(* dict.fromkeys: each tag once, in the order of its first appearance *)
pending == FoldLeft(LAMBDA seen, t : IF Contains(seen, t) THEN seen ELSE Append(seen, t), <<>>, tags)

(* Mutant: only the greedy path is captured *)
CaptureGreedy == 1

CaptureWidth == 3

TypeOK ==
    /\ position \in 1 .. Len(pending) + 1
    /\ attempts \in 0 .. max_attempts - 1
    /\ requests \in 0 .. max_requests
    /\ status \in {"verifying", "running", "sleeping", "done", "refused"}
    /\ \A key \in DOMAIN cache : cache[key] \in Distributions[key[2]]

Init ==
    /\ cache = [key \in {} |-> {}]
    /\ position = 1
    /\ attempts = 0
    /\ requests = 0
    /\ failures = {}
    /\ completed = <<>> /\ failed = <<>> /\ skipped = <<>>
    /\ status = "verifying"

(* The provider must resolve the pinned model, or nothing starts *)
VerifyModel ==
    /\ status = "verifying"
    /\ status' \in {"running", "refused"}
    /\ UNCHANGED <<cache, position, attempts, requests, reportVars>>

Tag == pending[position]

AtTag == status = "running" /\ position <= Len(pending)

Lacking == Lacks(Tag, cache, CaptureWidth)

AtRequest == AtTag /\ Lacking # {}

(* The request the traversal is at: the root, then the candidates in their order *)
Request == CHOOSE key \in Lacking : \A other \in Lacking \ {key} : Better(Tag, cache, key[2], other[2])

(* Every attempt spends budget *)
Attempt ==
    /\ AtRequest
    /\ requests < max_requests
    /\ requests' = requests + 1

NextTag == position' = position + 1 /\ attempts' = 0

Answered ==
    /\ Attempt
    /\ LET key == Request
       IN  \E p \in Distributions[key[2]] :
            cache' = [k \in DOMAIN cache \cup {key} |-> IF k = key THEN p ELSE cache[k]]
    /\ attempts' = 0
    /\ UNCHANGED <<position, reportVars, status>>

(* Mutant: a rate limit response spends neither budget nor attempts *)
TryAgainFree ==
    /\ AtRequest
    /\ status' = "sleeping"
    /\ UNCHANGED <<cache, position, attempts, requests, reportVars>>

(* Mutant: one attempt too many *)
TryAgainOnceMore ==
    /\ Attempt
    /\ attempts < max_attempts
    /\ attempts' = attempts + 1
    /\ status' = "sleeping"
    /\ UNCHANGED <<cache, position, reportVars>>

(* Rate limited within bounds, or a transient failure *)
TryAgain ==
    /\ Attempt
    /\ attempts + 1 < max_attempts
    /\ attempts' = attempts + 1
    /\ status' = "sleeping"
    /\ UNCHANGED <<cache, position, reportVars>>

WakeUp ==
    /\ status = "sleeping"
    /\ status' = "running"
    /\ UNCHANGED <<cache, position, attempts, requests, reportVars>>

(* The last attempt, too long a wait, another error or an invalid distribution *)
RequestFails ==
    /\ Attempt
    /\ failures' = failures \cup {Request}
    /\ failed' = Append(failed, Tag)
    /\ NextTag
    /\ UNCHANGED <<cache, completed, skipped, status>>

(* Another model answered: the run is abandoned and writes no bundle *)
ModelMismatch ==
    /\ Attempt
    /\ failures' = failures \cup {Request}
    /\ status' = "refused"
    /\ UNCHANGED <<cache, position, attempts, completed, failed, skipped>>

(* Mutant: the tag at hand is not among the skipped ones *)
RemainingAfter == SubSeq(pending, position + 1, Len(pending))

Remaining == SubSeq(pending, position, Len(pending))

BudgetExhausted ==
    /\ AtRequest
    /\ requests >= max_requests
    /\ skipped' = Remaining
    /\ status' = "done"
    /\ UNCHANGED <<cache, position, attempts, requests, completed, failed, failures>>

(* Nothing is lacking, or everything was in the cache *)
TagCompleted ==
    /\ AtTag
    /\ Lacking = {}
    /\ completed' = Append(completed, Tag)
    /\ NextTag
    /\ UNCHANGED <<cache, requests, failed, skipped, failures, status>>

RunOver ==
    /\ status = "running"
    /\ position > Len(pending)
    /\ status' = "done"
    /\ UNCHANGED <<cache, position, attempts, requests, reportVars>>

(* A new run resumes from the captures of a finished one *)
Resume ==
    /\ status = "done"
    /\ status' = "verifying"
    /\ position' = 1 /\ attempts' = 0 /\ requests' = 0
    /\ completed' = <<>> /\ failed' = <<>> /\ skipped' = <<>> /\ failures' = {}
    /\ UNCHANGED cache

Step ==
    \/ VerifyModel \/ Answered \/ TryAgain \/ WakeUp \/ RequestFails \/ ModelMismatch
    \/ BudgetExhausted \/ TagCompleted \/ RunOver

Next == Step \/ Resume

(* The script runs on, and the provider answers or its call fails *)
Spec == Init /\ [][Next]_vars /\ WF_vars(Step)

-----------------------------------------------------------------------------
(* Properties. *)

(***************************************************************************)
(* What a capture reports completed, the replay can evaluate: both the     *)
(* greedy and the beam traversal of such a tag find every capture they ask *)
(* for, through failures, retries, exhausted budgets and resumed runs      *)
(* (Capturer.run, evaluate).                                               *)
(***************************************************************************)
CompletedReplays ==
    status = "done" => \A i \in DOMAIN completed : \A width \in {1, 3} :
        /\ Lacks(completed[i], cache, width) = {}
        /\ Candidates(completed[i], cache, width) # {}

(***************************************************************************)
(* The beam only helps: its first path never scores below the greedy one,  *)
(* and is the best of all paths when no more than three first choices were *)
(* possible (traverse).                                                    *)
(***************************************************************************)
BeamIsNoWorse ==
    status = "done" => \A i \in DOMAIN completed :
        LET tag   == completed[i]
            beam  == Score(tag, cache, Best(tag, cache, 3))
            first == Expand(tag, cache, <<>>)
        IN  /\ beam >= Score(tag, cache, Best(tag, cache, 1))
            /\ Cardinality(first) <= 3 =>
                \A p \in UNION {Expand(tag, cache, q) : q \in first} : beam >= Score(tag, cache, p)

(***************************************************************************)
(* A finished run accounts for every distinct tag exactly once: completed, *)
(* failed with a recorded failure, or skipped for want of budget.          *)
(***************************************************************************)
EveryTagReported ==
    status = "done" =>
        /\ completed \o failed \o skipped \in Seq(Range(tags))
        /\ IsInjective(completed \o failed \o skipped)
        /\ Range(completed \o failed \o skipped) = Range(tags)
        /\ \A i \in DOMAIN failed : \E key \in failures : key[1] = failed[i]
        /\ skipped # <<>> => requests = max_requests

(***************************************************************************)
(* Every run ends, however often the provider rate-limits or fails         *)
(* (Capturer.resolve: each attempt spends budget).                         *)
(***************************************************************************)
RunEnds == (status = "running") ~> (status \in {"done", "refused"})
=============================================================================

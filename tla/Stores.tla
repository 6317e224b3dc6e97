-------------------------------- MODULE Stores --------------------------------
(***************************************************************************)
(* The stores that scans of several processes share while they retrieve    *)
(* (core/rag_merger.py): the embedding cache and the votes.  A scan embeds *)
(* its units through the cache, retrieves candidates for each, reads the   *)
(* votes once, and ranks what is left.  Developers vote meanwhile.  An     *)
(* embedding of a text t is <<"vector", t>>; scores are integers.          *)
(***************************************************************************)
EXTENDS Integers, Sequences, SequencesExt, Selection

CONSTANTS
    Scanners, Inputs,    \* scans, and the unit texts a scan may have
    TextLength,          \* of each text
    BatchSize, FlushEvery,   \* of embed_texts
    Voters, Findings,    \* votes to come, and the findings to vote on
    PointOf,             \* the memory a finding came from
    CandidateMatches,    \* candidates retrieved for a text: point, score, probability or NoProb
    FunctionOf,          \* the function a text is the code of
    NoProb, RerankThreshold, SuppressNet, TopK,
    Downweight           \* FEEDBACK_DOWNWEIGHT_PER_VOTE, in hundredths

UnitTexts == UNION {ToSet(units) : units \in Inputs}

\* A search returns a point once.
ASSUME StoresInputs ==
    /\ BatchSize \in Nat \ {0} /\ FlushEvery \in Nat \ {0}
    /\ TopK \in Nat /\ SuppressNet \in Int /\ RerankThreshold \in Int /\ Downweight \in Nat
    /\ \A units \in Inputs : units \in Seq(UnitTexts)
    /\ \A t \in UnitTexts :
        /\ TextLength[t] \in Nat
        /\ CandidateMatches[t] \in Seq(ToSet(CandidateMatches[t]))
        /\ \A x, y \in DOMAIN CandidateMatches[t] :
              /\ CandidateMatches[t][x].score \in Int
              /\ CandidateMatches[t][x].point = CandidateMatches[t][y].point => x = y

VARIABLES
    cached,              \* embedding_cache: text to vector
    scan,                \* the scans
    votes,               \* the rows of feedback
    voter                \* the requests to vote

storeVars == <<cached, scan, votes, voter>>

NewScan == [pc |-> "start", units |-> <<>>, vectors |-> <<>>, todo |-> <<>>, batches |-> 0,
            records |-> <<>>, known |-> {}, net |-> <<>>, shown |-> <<>>]
NewVoter == [pc |-> "start", finding |-> "none", vote |-> 0, found |-> FALSE]

StoresInit ==
    /\ cached = <<>> /\ votes = <<>>
    /\ scan = [s \in Scanners |-> NewScan] /\ voter = [v \in Voters |-> NewVoter]

\* embed_texts: hits of the cache, and the misses, shortest first.
ReadCache(s) ==
    /\ scan[s].pc = "start"
    /\ \E units \in Inputs :
        LET misses == {i \in DOMAIN units : units[i] \notin DOMAIN cached}
        IN  scan' = [scan EXCEPT ![s].pc = IF misses = {} THEN "retrieve" ELSE "embed",
                ![s].units = units,
                ![s].vectors = [i \in DOMAIN units |->
                    IF units[i] \in DOMAIN cached THEN cached[units[i]] ELSE <<>>],
                ![s].todo = Ranked(misses, LAMBDA i, j : \/ TextLength[units[i]] < TextLength[units[j]]
                    \/ (TextLength[units[i]] = TextLength[units[j]] /\ i < j))]
    /\ UNCHANGED <<cached, votes, voter>>

\* _embed_batch of the next misses; the vectors go to the places of their texts.
Placed(vectors, places, new) ==
    [i \in DOMAIN vectors |-> IF Contains(places, i) THEN new[CHOOSE j \in DOMAIN places : places[j] = i]
                                                     ELSE vectors[i]]
EmbedBatch(s) ==
    /\ scan[s].pc = "embed"
    /\ LET batch == SubSeq(scan[s].todo, 1, Min({BatchSize, Len(scan[s].todo)}))
           rest == SubSeq(scan[s].todo, Len(batch) + 1, Len(scan[s].todo))
           new == [j \in DOMAIN batch |-> <<"vector", scan[s].units[batch[j]]>>]
       IN  scan' = [scan EXCEPT ![s].vectors = Placed(@, batch, new), ![s].todo = rest,
              ![s].batches = @ + 1,
              ![s].records = @ \o [j \in DOMAIN batch |-> [key |-> scan[s].units[batch[j]], vector |-> new[j]]],
              ![s].pc = IF rest = <<>> \/ (scan[s].batches + 1) % FlushEvery = 0 THEN "select" ELSE "embed"]
    /\ UNCHANGED <<cached, votes, voter>>

Flushed(s) == [scan EXCEPT ![s].records = <<>>, ![s].known = {},
                           ![s].pc = IF scan[s].todo = <<>> THEN "retrieve" ELSE "embed"]
Keys(s) == {scan[s].records[i].key : i \in DOMAIN scan[s].records}
\* put_many: merge selects each key once, so the batch inserts what is not known yet ...
SelectKeys(s) ==
    /\ scan[s].pc = "select"
    /\ scan' = [scan EXCEPT ![s].pc = "commit", ![s].known = Keys(s) \cap DOMAIN cached]
    /\ UNCHANGED <<cached, votes, voter>>
\* ... and the commit fails as a whole on a key another scan has inserted since.
CommitKeys(s) ==
    /\ scan[s].pc = "commit"
    /\ LET vector(k) == scan[s].records[CHOOSE i \in DOMAIN scan[s].records : scan[s].records[i].key = k].vector
           conflict == \E k \in Keys(s) \ scan[s].known : k \in DOMAIN cached
       IN  cached' = IF conflict THEN cached
                     ELSE [k \in Keys(s) \cup DOMAIN cached |-> IF k \in Keys(s) THEN vector(k) ELSE cached[k]]
    /\ scan' = Flushed(s)
    /\ UNCHANGED <<votes, voter>>

\* get_net_votes: a memory's sum, of votes of 1 and of -1.
VotesFor(p, vote) == {i \in DOMAIN votes : PointOf[votes[i].finding] = p /\ votes[i].vote = vote}
NetVotes == [p \in {PointOf[votes[i].finding] : i \in DOMAIN votes} |->
    Cardinality(VotesFor(p, 1)) - Cardinality(VotesFor(p, -1))]
NetOf(net, p) == IF p \in DOMAIN net THEN net[p] ELSE 0

\* feedback_multiplier, in hundredths: votes for a memory never raise its score.
Multiplier(net) == Max({30, 100 - Downweight * Max({-net, 0})})

\* finalize_matches of one unit's candidates.
Kept(match, net) ==
    /\ NetOf(net, match.point) > SuppressNet
    /\ match.prob # NoProb => match.prob >= RerankThreshold
Weighed(match, net) == match.score * Multiplier(NetOf(net, match.point))
Finalized(matches, net) ==
    LET kept == {i \in DOMAIN matches : Kept(matches[i], net)}
        weight(i) == Weighed(matches[i], net)
        before(i, j) == weight(i) > weight(j) \/ (weight(i) = weight(j) /\ i < j)
    IN  {i \in kept : Cardinality({j \in kept : before(j, i)}) < TopK}

\* _anchor: the matches of all units with their function, and the places they come from.
Anchored(units, vectors, net) ==
    UNION {LET matches == CandidateMatches[vectors[i][2]] IN
           {[point |-> matches[k].point, score |-> Weighed(matches[k], net), in |-> FunctionOf[units[i]],
             unit |-> i, place |-> k] : k \in Finalized(matches, net)} : i \in DOMAIN units}
\* _dedupe: the best match of a memory in each function, in order of score.
Same(x, y) == x.point = y.point /\ x.in = y.in
Better(x, y) ==
    \/ x.score > y.score
    \/ x.score = y.score /\ (x.unit < y.unit \/ (x.unit = y.unit /\ x.place < y.place))
Deduped(found) ==
    LET best == {x \in found : ~\E y \in found : Same(x, y) /\ Better(y, x)}
        order == Ranked(best, LAMBDA x, y : Better(x, y))
    IN  [k \in 1..Cardinality(best) |->
            [point |-> order[k].point, score |-> order[k].score, in |-> order[k].in]]

\* _analyze_units_sync: the candidates of every unit, then one read of the votes for all.
Shown(units, vectors, net) == Deduped(Anchored(units, vectors, net))
AnalyzeUnits(s) ==
    /\ scan[s].pc = "retrieve"
    /\ scan' = [scan EXCEPT ![s].pc = "done", ![s].net = NetVotes,
                            ![s].shown = Shown(scan[s].units, scan[s].vectors, NetVotes)]
    /\ UNCHANGED <<cached, votes, voter>>

\* submit_feedback: look for the finding's vote, then insert or change it.
RowOf(f) == {i \in DOMAIN votes : votes[i].finding = f}
FindVote(v) ==
    /\ voter[v].pc = "start"
    /\ \E f \in Findings, n \in {-1, 1} :
        voter' = [voter EXCEPT ![v] = [pc |-> "found", finding |-> f, vote |-> n,
                                       found |-> RowOf(f) # {}]]
    /\ UNCHANGED <<cached, scan, votes>>
\* Mutant: no such constraint.
RefusedNever(v) == FALSE
\* The commit; the unique constraint on finding_id refuses a second row, the request fails.
Refused(v) == ~voter[v].found /\ RowOf(voter[v].finding) # {}
CommitVote(v) ==
    /\ voter[v].pc = "found"
    /\ LET row == [finding |-> voter[v].finding, vote |-> voter[v].vote] IN
        votes' = IF Refused(v) THEN votes
                 ELSE IF voter[v].found
                 THEN [i \in DOMAIN votes |-> IF i \in RowOf(row.finding) THEN row ELSE votes[i]]
                 ELSE Append(votes, row)
    /\ voter' = [voter EXCEPT ![v].pc = IF Refused(v) THEN "error" ELSE "ok"]
    /\ UNCHANGED <<cached, scan>>

StoresNext ==
    \/ \E s \in Scanners : ReadCache(s) \/ EmbedBatch(s) \/ SelectKeys(s) \/ CommitKeys(s) \/ AnalyzeUnits(s)
    \/ \E v \in Voters : FindVote(v) \/ CommitVote(v)
------------------------------------------------------------------------------
\* What a scan shows is what its own texts retrieve and the votes leave, whoever else fills
\* the cache: of a unit's matches that are kept all that must be among its best are shown,
\* and none that cannot be (of equals one may go); each once for its function, with its best
\* score, in order of score (embed_texts, put_many, finalize_matches, _dedupe).
Remain(t, net) == {x \in ToSet(CandidateMatches[t]) : Kept(x, net)}
SurelyBest(t, net) ==
    {x \in Remain(t, net) :
        Cardinality({y \in Remain(t, net) \ {x} : Weighed(y, net) >= Weighed(x, net)}) < TopK}
MaybeBest(t, net) ==
    {x \in Remain(t, net) : Cardinality({y \in Remain(t, net) : Weighed(y, net) > Weighed(x, net)}) < TopK}
RetrievalAddsUp ==
    \A s \in Scanners : scan[s].pc = "done" =>
        LET shown == scan[s].shown
            net == scan[s].net
        IN  /\ \A i, j \in DOMAIN shown : i < j =>
                  shown[i].score >= shown[j].score /\ ~Same(shown[i], shown[j])
            /\ \A t \in ToSet(scan[s].units) : \A x \in SurelyBest(t, net) :
                  \E k \in DOMAIN shown : /\ shown[k].point = x.point /\ shown[k].in = FunctionOf[t]
                                          /\ shown[k].score >= Weighed(x, net)
            /\ \A k \in DOMAIN shown : \E t \in ToSet(scan[s].units) : \E x \in MaybeBest(t, net) :
                  shown[k] = [point |-> x.point, score |-> Weighed(x, net), in |-> FunctionOf[t]]

\* A finding counts once, with the vote of a request that was answered "ok", however many
\* requests race; and a failed request lost only to another vote on its finding
\* (submit_feedback, get_net_votes).
VotesCount ==
    /\ \A f \in Findings : Cardinality(RowOf(f)) <= 1
    /\ \A i \in DOMAIN votes : \E v \in Voters :
          voter[v].pc = "ok" /\ voter[v].finding = votes[i].finding /\ voter[v].vote = votes[i].vote
    /\ \A v \in Voters : voter[v].pc \in {"ok", "error"} => RowOf(voter[v].finding) # {}
==============================================================================

------------------------------- MODULE Periphery -------------------------------
(***************************************************************************)
(* The programs around the review: each behaviour is one of them.          *)
(***************************************************************************)
EXTENDS ActionRun, ActionComments, TeamIngest, Stores, EvalRun, Corpus, VectorStore

VARIABLE part
vars == <<part, actionRunVars, commentVars, ingestVars, storeVars, evalVars, corpusVars, vectorVars>>

Init == /\ part \in {"action", "comments", "ingest", "stores", "eval", "corpus", "vectors"}
        /\ RunInit /\ CommentsInit /\ IngestInit /\ StoresInit /\ EvalInit /\ CorpusInit /\ VectorsInit
        /\ part # "eval" => harness = "pr" /\ file = <<>>
        /\ part # "comments" => comments = <<>>
        /\ part # "vectors" => ~hybrid /\ collections["cve"].layout = Absent

Next ==
    /\ UNCHANGED part
    /\ \/ /\ part = "action" /\ ActionRunNext
          /\ UNCHANGED <<commentVars, ingestVars, storeVars, evalVars, corpusVars, vectorVars>>
       \/ /\ part = "comments" /\ CommentsNext
          /\ UNCHANGED <<actionRunVars, ingestVars, storeVars, evalVars, corpusVars, vectorVars>>
       \/ /\ part = "ingest" /\ IngestNext
          /\ UNCHANGED <<actionRunVars, commentVars, storeVars, evalVars, corpusVars, vectorVars>>
       \/ /\ part = "stores" /\ StoresNext
          /\ UNCHANGED <<actionRunVars, commentVars, ingestVars, evalVars, corpusVars, vectorVars>>
       \/ /\ part = "eval" /\ EvalNext
          /\ UNCHANGED <<actionRunVars, commentVars, ingestVars, storeVars, corpusVars, vectorVars>>
       \/ /\ part = "corpus" /\ CorpusNext
          /\ UNCHANGED <<actionRunVars, commentVars, ingestVars, storeVars, evalVars, vectorVars>>
       \/ /\ part = "vectors" /\ VectorsNext
          /\ UNCHANGED <<actionRunVars, commentVars, ingestVars, storeVars, evalVars, corpusVars>>
Spec == Init /\ [][Next]_vars
------------------------------------------------------------------------------
\* What a scan is told of the memories is what the stores hold: the matches its own texts
\* retrieve and the votes leave, from collections that have the vectors it searches on
\* (RetrievalAddsUp in Stores, SearchesHold in VectorStore).
RetrievalSound == RetrievalAddsUp /\ SearchesHold
==============================================================================

--------------------------- MODULE MCKnowledgeBase ---------------------------
(* The deployments TLC checks the knowledge base in.                       *)
EXTENDS KnowledgeBase, TLC

CONSTANTS api, grpc, worker, a1, g1, g2, w1, f1, f2, f3

(* Two files of one document, and one whose name save_upload sanitises.    *)
Names     == f1 :> "a" @@ f2 :> "a" @@ f3 :> "b c"
Displayed == f1 :> "a" @@ f2 :> "a" @@ f3 :> "b_c"

HomeOf == a1 :> api @@ g1 :> grpc @@ g2 :> grpc @@ w1 :> worker

(* rag-service/server.py, the document API, and the Celery tasks.          *)
Offered ==
  [p \in Processes |->
     CASE p = api    -> {"upload", "rebuild", "delete", "clear"}
       [] p = grpc   -> {"upsert", "delete"}
       [] p = worker -> {"add", "rebuild"}]

ApiAlone ==
  [processes |-> {api}, threads |-> {a1}, crashes |-> 1,
   uploaded |-> {}, unused |-> {f1, f2, f3}]

(* The gRPC server alone, the API alone, and the API with a Celery worker, *)
(* with a crash or with uploads.  The gRPC server works in threads; the API*)
(* is one event loop and never awaits inside the knowledge base, a worker  *)
(* runs one task at a time.                                                *)
Deployed ==
  {[processes |-> {grpc}, threads |-> {g1, g2}, crashes |-> 1,
    uploaded |-> {f1, f2}, unused |-> {}],
   ApiAlone,
   [processes |-> {api, worker}, threads |-> {a1, w1}, crashes |-> 1,
    uploaded |-> {f3}, unused |-> {}],
   [processes |-> {api, worker}, threads |-> {a1, w1}, crashes |-> 0,
    uploaded |-> {f1}, unused |-> {f2}]}

OnlyApi == {ApiAlone}
=============================================================================

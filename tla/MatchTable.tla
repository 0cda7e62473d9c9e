----------------------------- MODULE MatchTable -----------------------------
(***************************************************************************)
(* What the table job_matches promises: its primary key is the pair        *)
(* (job_listing_id, prompt_version), every writer inserts and none         *)
(* updates, so the first result of a pair is the one that stays.           *)
(***************************************************************************)
CONSTANTS Jobs, Versions

VARIABLE matches         \* [Jobs \X Versions -> Result]

Scored == {"match", "nonmatch"}          \* the LLM's verdict against the threshold
Result == {"none", "gone"} \cup Scored   \* "gone": the posting was a 404, recorded as score 0

TableTypeOK == matches \in [Jobs \X Versions -> Result]

\* One INSERT of one row; a duplicate key is refused by the database.
Insert(cell, result) ==
    /\ matches[cell] = "none"
    /\ matches' = [matches EXCEPT ![cell] = result]

TableNext == \E cell \in Jobs \X Versions, result \in Result \ {"none"} : Insert(cell, result)

TableSpec == TableTypeOK /\ [][TableNext]_matches
=============================================================================

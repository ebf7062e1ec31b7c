----------------------------- MODULE ModelCall -----------------------------
(***************************************************************************)
(* One call of a language model: the writer's (_tune_with_llm) or a        *)
(* critic's (_call_critic_model) in PipelineManager.py, or the one of the  *)
(* outline pass (OutlinePass/scripts/run_outline.py).  The call selects    *)
(* the database objects the statement depends on, fits the answer into the *)
(* context window, sends the request, perhaps again, and decides from the  *)
(* text of the reply.                                                      *)
(*                                                                         *)
(* Abstractions.  A catalogue entry is its owner and name; tokens are      *)
(* counted in units, one per selected object.  A reply is the complete     *)
(* JSON objects in it, in a fence or not, and whether it was cut short.    *)
(* Sampling parameters, headers and the delay between attempts are left    *)
(* out.                                                                    *)
(***************************************************************************)
EXTENDS Integers, SequencesExt

CONSTANTS
  Catalog,            \* entries: records of owner and name
  TableLists,         \* job.tables: lists of references
  DependencyLists,    \* dependencies of an entry: lists of references
  TokenLimits,        \* requested max_tokens, 0 for none
  PromptTokens,       \* estimate of a message without any object
  ContextSize, Safety, MinOutput,
  Attempts,           \* TUNER_API_ATTEMPTS, CRITIC_API_ATTEMPTS
  MaxBlocks           \* bound: JSON objects in a reply

NoOwner == "no owner"

ASSUME CallAssumption ==
  /\ Attempts \in Nat \ {0}                           \* max(1, ...)
  /\ {ContextSize, MinOutput} \subseteq Nat \ {0}     \* max(1, ...), max(256, ...)
  /\ {PromptTokens, Safety, MaxBlocks} \subseteq Nat
  /\ TokenLimits \subseteq Nat
  /\ IsFiniteSet(Catalog)
  /\ \A refs \in TableLists \cup DependencyLists : refs \in Seq(ToSet(refs))

VARIABLES
  cfg,                \* role, tables, dependencies, files and limit of the call
  phase,
  queue, selected,    \* _select_relevant_db_objects
  unresolved,         \* tables nothing is found for, as a set
  granted,            \* payload["max_tokens"], 0 for none
  attempt, reply,
  decision            \* what the caller gets

callVars == <<queue, selected, unresolved>>
vars == <<cfg, phase, callVars, granted, attempt, reply, decision>>

(* A block is a complete JSON object: it keeps the contract and says yes   *)
(* (a statement, an approval) or no (a blank statement, a rejection), or   *)
(* it breaks the contract.                                                 *)
Block == {"yes", "no", "breach"}

Reply == [kind : {"reply"}, fenced : BOOLEAN, cut : BOOLEAN,
          blocks : UNION {[1 .. n -> Block] : n \in 0 .. MaxBlocks}]

(* Not connected; no answer in time; HTTP 429, 5xx and 4xx; a body that is *)
(* not JSON; JSON without the message.                                     *)
Failure == [kind : {"unreachable", "timeout", "throttled", "server_error",
                    "refused", "garbled", "shapeless"}]
NoReply == [kind |-> "none"]

PipelineCalls ==
  [role : {"writer", "critic"}, tables : TableLists,
   dependencies : [Catalog -> DependencyLists],
   files : {"none", "valid", "invalid"}, max_tokens : TokenLimits]

(* The outline pass sends one statement, without any database context.     *)
OutlineCalls ==
  [role : {"outline"}, tables : {<<>>}, dependencies : {[o \in Catalog |-> <<>>]},
   files : {"none"}, max_tokens : TokenLimits \ {0}]

Init ==
  /\ cfg \in PipelineCalls \cup OutlineCalls
  /\ phase = "load" /\ queue = <<>> /\ selected = <<>> /\ unresolved = {}
  /\ granted = 0 /\ attempt = 0 /\ reply = NoReply /\ decision = "none"

-----------------------------------------------------------------------------
(* The end of a call.  A critic whose call raises is a rejection           *)
(* (critique_tuned_sql), a writer that raises keeps the candidate of the   *)
(* round before (tune_sql), and the outline pass ends without its files.   *)
End(d) == phase' = "done" /\ decision' = d

Raise == End(IF cfg.role = "critic" THEN "rejected" ELSE "failed")

-----------------------------------------------------------------------------
(* _load_db_context.  A reference is looked up with its owner, and without *)
(* it when that finds nothing.                                             *)
Named(ref) == {o \in Catalog : o.name = ref.name}
Owned(ref) == {o \in Named(ref) : o.owner = ref.owner}

Matches(ref) ==
  IF ref.owner # NoOwner /\ Owned(ref) # {} THEN Owned(ref) ELSE Named(ref)

Found(refs) == FlattenSeq([i \in 1 .. Len(refs) |-> SetToSeq(Matches(refs[i]))])

LoadContext ==
  /\ phase = "load"
  /\ CASE cfg.files = "invalid" -> Raise /\ UNCHANGED callVars
       [] cfg.files = "none" ->
            /\ phase' = "budget" /\ unresolved' = ToSet(cfg.tables)
            /\ UNCHANGED <<queue, selected, decision>>
       [] cfg.files = "valid" ->
            /\ phase' = "select" /\ queue' = Found(cfg.tables)
            /\ unresolved' = {t \in ToSet(cfg.tables) : Matches(t) = {}}
            /\ UNCHANGED <<selected, decision>>
  /\ UNCHANGED <<cfg, granted, attempt, reply>>

Follow_Fault(o) == <<>>                 \* only the tables themselves

Follow(o) == Found(cfg.dependencies[o])

Skipped_Fault == queue                  \* looks at the head, leaves it there

Skipped == Tail(queue)

SelectObject ==
  /\ phase = "select" /\ queue # <<>>
  /\ LET o == Head(queue)
     IN IF o \in ToSet(selected) THEN queue' = Skipped /\ UNCHANGED selected
        ELSE queue' = Tail(queue) \o Follow(o) /\ selected' = Append(selected, o)
  /\ UNCHANGED <<cfg, phase, unresolved, granted, attempt, reply, decision>>

EndContext ==
  /\ phase = "select" /\ queue = <<>>
  /\ phase' = "budget"
  /\ UNCHANGED <<cfg, callVars, granted, attempt, reply, decision>>

(* A writer's answer has to fit what the input leaves of the window; a     *)
(* critic asks for its limit as it is.                                     *)
Estimate == PromptTokens + Len(selected)
Available == ContextSize - Estimate - Safety

Granted_Fault == cfg.max_tokens         \* checked, but not lowered

Granted ==
  IF cfg.role = "writer" /\ cfg.max_tokens > Available THEN Available
  ELSE cfg.max_tokens

Budget ==
  /\ phase = "budget"
  /\ IF cfg.role = "writer" /\ cfg.max_tokens > 0 /\ Available < MinOutput
     THEN Raise /\ UNCHANGED granted
     ELSE /\ granted' = IF cfg.max_tokens > 0 THEN Granted ELSE 0
          /\ phase' = "send" /\ UNCHANGED decision
  /\ UNCHANGED <<cfg, callVars, attempt, reply>>

-----------------------------------------------------------------------------
Send ==
  /\ phase = "send"
  /\ phase' = "wait" /\ attempt' = attempt + 1
  /\ UNCHANGED <<cfg, callVars, granted, reply, decision>>

(* The server, or the network in its place.                                *)
Answer ==
  /\ phase = "wait"
  /\ phase' = "read" /\ reply' \in Reply \cup Failure
  /\ UNCHANGED <<cfg, callVars, granted, attempt, decision>>

(* The pipeline's callers repeat what URLError reports; only the writer    *)
(* also the OSError of a read that times out and the ValueError of a body  *)
(* that is not JSON.  The outline pass asks once.                          *)
Retryable_Fault == reply.kind \in {r.kind : r \in Failure}

Retryable ==
  /\ cfg.role # "outline"
  /\ reply.kind \in {"unreachable", "throttled", "server_error"}
                    \cup IF cfg.role = "writer" THEN {"timeout", "garbled"} ELSE {}

MayRetry == Retryable /\ attempt < Attempts

Retry ==
  /\ phase = "read" /\ MayRetry
  /\ phase' = "send"
  /\ UNCHANGED <<cfg, callVars, granted, attempt, reply, decision>>

GiveUp ==
  /\ phase = "read" /\ reply.kind # "reply" /\ ~ MayRetry
  /\ Raise
  /\ UNCHANGED <<cfg, callVars, granted, attempt, reply>>

(* _extract_json_object: the first fenced object, or else everything from  *)
(* the first opening brace to the last closing one, which is one object or *)
(* no JSON at all.                                                         *)
Extract_Fault == IF reply.blocks = <<>> THEN "none" ELSE Head(reply.blocks)

Extract ==
  IF reply.blocks # <<>> /\ (reply.fenced \/ Len(reply.blocks) = 1)
  THEN Head(reply.blocks) ELSE "none"

WriterDecision ==
  CASE reply.cut \/ Extract \in {"none", "breach"} -> "kept"     \* fallback_sql
    [] OTHER -> IF Extract = "yes" THEN "rewritten" ELSE "blank"

CriticDecision == IF Extract = "yes" THEN "approved" ELSE "rejected"

(* The outline has no contract: what an object breaks, or lacks, is empty. *)
(* Only a text without an object is marked for manual review.              *)
OutlineDecision == IF Extract = "none" THEN "manual_review" ELSE "outlined"

Decide ==
  /\ phase = "read" /\ reply.kind = "reply"
  /\ End(CASE cfg.role = "writer" -> WriterDecision
            [] cfg.role = "critic" -> CriticDecision
            [] cfg.role = "outline" -> OutlineDecision)
  /\ UNCHANGED <<cfg, callVars, granted, attempt, reply>>

Done == phase = "done" /\ UNCHANGED vars

Step ==
  \/ LoadContext \/ SelectObject \/ EndContext \/ Budget
  \/ Send \/ Answer \/ Retry \/ GiveUp \/ Decide

Next == Step \/ Done

(* Every request is given a timeout, so something always comes back.       *)
Spec == Init /\ [][Next]_vars /\ WF_vars(Step)

-----------------------------------------------------------------------------
(***************************************************************************)
(* Properties.                                                             *)
(***************************************************************************)
Phases == {"load", "select", "budget", "send", "wait", "read", "done"}
Sent == phase \in {"wait", "read"} \/ (phase = "done" /\ attempt > 0)

(* Type invariant; the attempts stay within their number and an object is  *)
(* selected once, so that neither requests nor the prompt grow without end.*)
TypeOK ==
  /\ phase \in Phases /\ cfg \in PipelineCalls \cup OutlineCalls
  /\ selected \in Seq(Catalog) /\ IsInjective(selected)
  /\ queue \in Seq(Catalog)
  /\ unresolved \subseteq ToSet(cfg.tables)
  /\ granted \in Nat /\ attempt \in 0 .. Attempts
  /\ reply \in Reply \cup Failure \cup {NoReply}
  /\ decision \in {"none", "rewritten", "blank", "kept", "failed", "approved",
                   "rejected", "outlined", "manual_review"}

(* The context sent with a statement is complete and nothing else: what is *)
(* selected is the smallest set of entries that holds those its tables are *)
(* found under and, with an entry, those its dependencies are found under, *)
(* whatever the cycles; a table is reported unresolved exactly when no     *)
(* entry of that name is in it.  (The types are part of it: an entry is    *)
(* selected once.)                                                         *)
Closed(S) ==
  /\ \A i \in DOMAIN cfg.tables : Matches(cfg.tables[i]) \subseteq S
  /\ \A o \in S : \A i \in DOMAIN cfg.dependencies[o] :
       Matches(cfg.dependencies[o][i]) \subseteq S

ContextComplete ==
  /\ TypeOK
  /\ Sent /\ cfg.files = "valid" =>
       /\ Closed(ToSet(selected))
       /\ \A S \in SUBSET ToSet(selected) : Closed(S) => S = ToSet(selected)
       /\ \A t \in ToSet(cfg.tables) :
            t \in unresolved <=> ~ \E o \in ToSet(selected) : o.name = t.name

(* A writer that asks for a limit never sends a request whose answer might *)
(* not fit: prompt, objects, reserve and answer together stay within the   *)
(* window, and the answer is given room unless less was asked for.         *)
AnswerFits ==
  Sent /\ cfg.role = "writer" /\ cfg.max_tokens > 0 =>
    /\ PromptTokens + Len(selected) + Safety + granted <= ContextSize
    /\ granted >= MinOutput \/ granted = cfg.max_tokens

(* One answer counts: after a reply, or a refusal that repeating cannot    *)
(* change, the model is not asked again until another answer suits better. *)
OneAnswerCounts ==
  [][phase' = "wait" /\ phase # "wait" /\ attempt > 0 =>
       reply.kind \notin {"reply", "shapeless", "refused"}]_vars

(* README.md:140, the JSON contract comes first: a reply leads to a new    *)
(* statement or an approval only when it says so in one object that keeps  *)
(* the contract, being the only one or the first in a fence; and such a    *)
(* reply is never thrown away, but for a writer's that was cut short.  A   *)
(* critic's approval counts although the rest of its reply was cut off.    *)
(* The outline pass reads a reply by the same rule, whatever it says.      *)
Readable ==
  /\ reply.kind = "reply" /\ reply.blocks # <<>>
  /\ Len(reply.blocks) > 1 => reply.fenced

Says(answer) == Readable /\ reply.blocks[1] = answer

DecisionEarned ==
  phase = "done" =>
    /\ decision = "approved" <=> cfg.role = "critic" /\ Says("yes")
    /\ decision = "rewritten" <=>
         cfg.role = "writer" /\ Says("yes") /\ ~ reply.cut
    /\ decision = "kept" => reply.kind = "reply"
    /\ decision = "outlined" <=> cfg.role = "outline" /\ Readable

(* A call ends, whatever the server does and however the catalogue is      *)
(* knotted.                                                                *)
CallEnds == <>(phase = "done")
=============================================================================

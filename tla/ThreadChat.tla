----------------------------- MODULE ThreadChat -----------------------------
(***************************************************************************)
(* The messages of one text thread: send (api/chat.py), regenerate, swipe, *)
(* continue, edit, select and truncate (domain/message_actions.py), and    *)
(* the creation and deletion of the thread (domain/thread_service.py).     *)
(*                                                                         *)
(* Every request has a database session of its own.  Its SELECTs see what  *)
(* is committed at that moment; its writes are flushed and committed       *)
(* together, so a request is a sequence of reads, a long wait for the      *)
(* language model and one write.  A write that breaks a unique or foreign  *)
(* key fails as a whole.                                                   *)
(*                                                                         *)
(* A text is named by the request that wrote it.  A continue with text in  *)
(* the composer reads and writes like a swipe.  Timestamps, titles and     *)
(* keep_stale_after, which only touches them, are left out.                *)
(***************************************************************************)
EXTENDS Integers, FiniteSets, FiniteSetsExt

CONSTANTS
    Sends,          \* POST /chat/{thread}/send
    Generations,    \* POST /messages/{id}/regenerate, /swipes, /continue
    Editors,        \* PATCH, truncate-stale, swipes with an id, DELETE thread
    Opening,        \* the greeting, the thread's first message
    Blank,          \* texts without a character: a character may have no greeting
    None

MessageIds == {Opening} \cup (Sends \X {"user", "assistant"})
Writers == Sends \cup Generations \cup Editors \cup {Opening}
Readers == Sends \cup Generations
Kinds == {"regenerate", "swipe", "continue"}

ASSUME ThreadConstants ==
    /\ Sends \cap Generations = {} /\ Sends \cap Editors = {}
    /\ Generations \cap Editors = {}
    /\ Blank \subseteq {Opening}
    /\ None \notin MessageIds \cup Writers /\ Opening \notin Sends \cup Generations \cup Editors

VARIABLES
    alive,      \* the thread's row is there
    msgs,       \* Message rows: sequence, content_text, selection, stale_after_edit
    alts,       \* MessageAlternate rows; an alternate is named by its writer
    pc,
    kind,       \* of a generation
    target,     \* per generation and editor: the message it is about
    seen,       \* what a request read last: a sequence, an index, a flag, a selection
    context,    \* per send and generation: <<message, text>> shown to the model
    overtaken   \* history: whose context was edited before its text was stored

vars == <<alive, msgs, alts, pc, kind, target, seen, context, overtaken>>

Row == [seq : Nat, text : Writers, sel : Writers \cup {None}, stale : BOOLEAN]
Alternate == [id : Writers, msg : MessageIds, idx : Nat, text : Writers]
Nothing == [seq |-> 0, idx |-> 0, stale |-> FALSE, sel |-> None, until |-> None]

TypeOK ==
    /\ alive \in BOOLEAN
    /\ msgs \in [MessageIds -> Row \cup {None}]
    /\ alts \subseteq Alternate
    /\ pc \in [Sends \cup Generations \cup Editors ->
                 {"idle", "append", "again", "prompt", "llm", "persist", "store", "edit",
                  "done", "failed"}]
    /\ kind \in [Generations -> Kinds \cup {None}]
    /\ target \in [Generations \cup Editors -> MessageIds \cup {None}]
    /\ seen \in [Sends \cup Generations \cup Editors ->
                   [seq : Nat, idx : Nat, stale : BOOLEAN, sel : Writers \cup {None},
                    until : MessageIds \cup {None}]]
    /\ context \in [Readers -> SUBSET (MessageIds \X Writers)]
    /\ overtaken \subseteq Readers

Present == {m \in MessageIds : msgs[m] # None}
Assistant(m) == m \in {Opening} \cup (Sends \X {"assistant"})
Alternates(m) == {a \in alts : a.msg = m}

\* selected_content: the selected alternate if there is one, else content_text.
Shown(m) ==
    IF \E a \in Alternates(m) : a.id = msgs[m].sel
    THEN (CHOOSE a \in Alternates(m) : a.id = msgs[m].sel).text
    ELSE msgs[m].text

\* create_thread: the greeting, with its first alternate selected.
Init ==
    /\ alive = TRUE
    /\ msgs = [m \in MessageIds |->
                 IF m = Opening THEN [seq |-> 0, text |-> Opening, sel |-> Opening, stale |-> FALSE]
                 ELSE None]
    /\ alts = {[id |-> Opening, msg |-> Opening, idx |-> 0, text |-> Opening]}
    /\ pc = [r \in Sends \cup Generations \cup Editors |-> "idle"]
    /\ kind = [g \in Generations |-> None]
    /\ target = [r \in Generations \cup Editors |-> None]
    /\ seen = [r \in Sends \cup Generations \cup Editors |-> Nothing]
    /\ context = [r \in Readers |-> {}]
    /\ overtaken = {}

Goes(r, to) == pc' = [pc EXCEPT ![r] = to]

-----------------------------------------------------------------------------
(* Sequence numbers and keys.                                               *)

\* _next_sequence and _next_alternate_index: the largest so far plus one.
NextSequence == Max({msgs[m].seq : m \in Present} \cup {-1}) + 1

NextIndex(m) == Max({a.idx : a \in Alternates(m)} \cup {-1}) + 1

\* Mutant: foreign keys are not enforced (the SQLite default).
NoForeignKeys(m) == TRUE

\* PRAGMA foreign_keys=ON: a row's parent has to be there when it is written.
ThreadKey(m) == alive
MessageKey(m) == msgs[m] # None

\* INSERT of a message: the thread is there and the sequence is free
\* (uq_messages_thread_sequence); else nothing is written.
CanAppend(r, m) == ThreadKey(m) /\ \A n \in Present : msgs[n].seq # seen[r].seq
Append(r, m) ==
    msgs' = [msgs EXCEPT ![m] = [seq |-> seen[r].seq, text |-> r, sel |-> None, stale |-> FALSE]]

-----------------------------------------------------------------------------
(* POST /chat/{thread}/send.                                                *)

\* _append_message reads the thread and the largest sequence.
ReadSequence(s) ==
    /\ pc[s] \in {"idle", "persist"}
    /\ alive
    /\ seen' = [seen EXCEPT ![s].seq = NextSequence]
    /\ Goes(s, IF pc[s] = "idle" THEN "append" ELSE "store")
    /\ UNCHANGED <<alive, msgs, alts, kind, target, context, overtaken>>

AppendUser(s) ==
    /\ pc[s] = "append"
    /\ IF CanAppend(s, <<s, "user">>)
       THEN Append(s, <<s, "user">>) /\ Goes(s, "prompt")
       ELSE UNCHANGED msgs /\ Goes(s, "failed")
    /\ UNCHANGED <<alive, alts, kind, target, seen, context, overtaken>>

\* _history_entries: stale messages are skipped before the cut is looked for, and a message
\* that shows nothing is left out.
History(until) ==
    LET cut == until # None /\ until \in Present /\ ~ msgs[until].stale
    IN  {<<m, Shown(m)>> : m \in {n \in Present : Shown(n) \notin Blank /\
            ~ msgs[n].stale /\ (cut => msgs[n].seq <= msgs[until].seq)}}

\* build_structured_prompt over the whole thread.
ReadThread(s) ==
    /\ pc[s] = "prompt"
    /\ IF alive
       THEN context' = [context EXCEPT ![s] = History(None)] /\ Goes(s, "llm")
       ELSE UNCHANGED context /\ Goes(s, "failed")
    /\ UNCHANGED <<alive, msgs, alts, kind, target, seen, overtaken>>

\* The stream ends: an accepted reply is to be stored, a refused, empty or
\* broken one is not.
Answered(r) ==
    /\ pc[r] = "llm"
    /\ Goes(r, "persist") \/ Goes(r, "failed")
    /\ UNCHANGED <<alive, msgs, alts, kind, target, seen, context, overtaken>>

AppendReply(s) ==
    /\ pc[s] = "store"
    /\ IF CanAppend(s, <<s, "assistant">>)
       THEN Append(s, <<s, "assistant">>) /\ Goes(s, "done")
       ELSE UNCHANGED msgs /\ Goes(s, "failed")
    /\ UNCHANGED <<alive, alts, kind, target, seen, context, overtaken>>

\* The thread is gone before the reply's sequence is read.
ReplyHomeless(s) ==
    /\ pc[s] = "persist" /\ ~ alive
    /\ Goes(s, "failed")
    /\ UNCHANGED <<alive, msgs, alts, kind, target, seen, context, overtaken>>

-----------------------------------------------------------------------------
(* Regenerate, swipe and continue.                                          *)

\* Mutant: the message itself counts as its predecessor.
PreviousOrSelf(m) ==
    LET before == {n \in Present : msgs[n].seq <= msgs[m].seq /\ ~ msgs[n].stale}
    IN  IF before = {} THEN None
        ELSE CHOOSE n \in before : \A k \in before : msgs[k].seq <= msgs[n].seq

\* _previous_message_id: the last message before it that is not stale.
Previous(m) ==
    LET before == {n \in Present : msgs[n].seq < msgs[m].seq /\ ~ msgs[n].stale}
    IN  IF before = {} THEN None
        ELSE CHOOSE n \in before : \A k \in before : msgs[k].seq <= msgs[n].seq

\* get_generation_context of an AI message: what precedes it is to be read.  A continue
\* also takes the text that the message shows, as the beginning of the answer.
BeginGeneration(g) ==
    \E m \in Present, k \in Kinds :
        LET prefix == {t \in {Shown(m)} \ Blank : k = "continue"} IN
        /\ pc[g] = "idle" /\ Assistant(m)
        /\ target' = [target EXCEPT ![g] = m] /\ kind' = [kind EXCEPT ![g] = k]
        /\ seen' = [seen EXCEPT ![g].until = Previous(m)]
        /\ context' = [context EXCEPT ![g] = {m} \X prefix]
        /\ Goes(g, IF k = "continue" /\ prefix = {} THEN "again" ELSE "prompt")
        /\ UNCHANGED <<alive, msgs, alts, overtaken>>

\* A continue without a prefix: get_generation_context with include_target
IncludeTarget(g) ==
    /\ pc[g] = "again"
    /\ IF target[g] \in Present
       THEN seen' = [seen EXCEPT ![g].until = target[g]] /\ Goes(g, "prompt")
       ELSE UNCHANGED seen /\ Goes(g, "failed")
    /\ UNCHANGED <<alive, msgs, alts, kind, target, context, overtaken>>

\* build_structured_prompt up to that message, in a later read.
ReadContext(g) ==
    /\ pc[g] = "prompt"
    /\ IF alive
       THEN context' = [context EXCEPT ![g] = @ \cup History(seen[g].until)] /\ Goes(g, "llm")
       ELSE UNCHANGED context /\ Goes(g, "failed")
    /\ UNCHANGED <<alive, msgs, alts, kind, target, seen, overtaken>>

\* The message is read again, with the largest index of its alternates.
ReadTarget(g) ==
    /\ pc[g] = "persist"
    /\ IF target[g] \in Present
       THEN /\ seen' = [seen EXCEPT ![g].idx = NextIndex(target[g]),
                                    ![g].stale = msgs[target[g]].stale]
            /\ Goes(g, "store")
       ELSE UNCHANGED seen /\ Goes(g, "failed")
    /\ UNCHANGED <<alive, msgs, alts, kind, target, context, overtaken>>

\* INSERT of an alternate and UPDATE of its message, in one transaction
\* (uq_message_alternates_index); else nothing is written.
CanStore(g) ==
    /\ MessageKey(target[g])
    /\ \A a \in Alternates(target[g]) : a.idx # seen[g].idx
NewAlternate(g) == [id |-> g, msg |-> target[g], idx |-> seen[g].idx, text |-> g]

\* replace_selected_ai_response.  The ORM writes the columns that changed: a
\* message that was not stale when it was read keeps the flag it has by now.
Replace(g) ==
    /\ pc[g] = "store" /\ kind[g] = "regenerate" /\ CanStore(g)
    /\ alts' = alts \cup {NewAlternate(g)}
    /\ msgs' = [msgs EXCEPT ![target[g]].text = g, ![target[g]].sel = g,
                            ![target[g]].stale = @ /\ ~ seen[g].stale]
    /\ Goes(g, "done")
    /\ UNCHANGED <<alive, kind, target, seen, context, overtaken>>

\* add_selected_alternate, of a swipe or a continue: neither content_text nor
\* the stale flag changes.
AddAlternate(g) ==
    /\ pc[g] = "store" /\ kind[g] # "regenerate" /\ CanStore(g)
    /\ alts' = alts \cup {NewAlternate(g)}
    /\ msgs' = [msgs EXCEPT ![target[g]].sel = g]
    /\ Goes(g, "done")
    /\ UNCHANGED <<alive, kind, target, seen, context, overtaken>>

StoreFails(g) ==
    /\ pc[g] = "store" /\ ~ CanStore(g)
    /\ Goes(g, "failed")
    /\ UNCHANGED <<alive, msgs, alts, kind, target, seen, context, overtaken>>

-----------------------------------------------------------------------------
(* Edit, select, truncate, delete.                                          *)

\* edit_message_and_mark_downstream_stale reads the message ...
BeginEdit(e) ==
    \E m \in Present :
        /\ pc[e] = "idle"
        /\ target' = [target EXCEPT ![e] = m]
        /\ seen' = [seen EXCEPT ![e].stale = msgs[m].stale, ![e].sel = msgs[m].sel]
        /\ Goes(e, "edit")
        /\ UNCHANGED <<alive, msgs, alts, kind, context, overtaken>>

\* The rows an edit of a user message marks stale.
StaleAfter(m, n) == msgs[n].seq > msgs[m].seq

\* ... and writes it and the alternate it had selected.  The edit of a user
\* message makes it current again and every later message stale.
Edit(e) ==
    LET m == target[e]
        editedText == [msgs EXCEPT ![m].text = e,
                                   ![m].stale = @ /\ ~ (seen[e].stale /\ ~ Assistant(m))]
    IN  /\ pc[e] = "edit"
        /\ IF m \in Present
           THEN /\ msgs' = [n \in MessageIds |->
                     IF n \in Present /\ ~ Assistant(m) /\ StaleAfter(m, n)
                     THEN [msgs[n] EXCEPT !.stale = TRUE] ELSE editedText[n]]
                /\ alts' = {IF a.msg = m /\ a.id = seen[e].sel THEN [a EXCEPT !.text = e] ELSE a :
                               a \in alts}
                /\ overtaken' = overtaken \cup
                     {r \in Readers : pc[r] \in {"llm", "persist", "store"}
                                      /\ \E t \in Writers : <<m, t>> \in context[r]}
                /\ Goes(e, "done")
           ELSE UNCHANGED <<msgs, alts, overtaken>> /\ Goes(e, "failed")
        /\ UNCHANGED <<alive, kind, target, seen, context>>

\* select_alternate: one of the message's own.
Select(e) ==
    \E a \in alts :
        /\ pc[e] = "idle"
        /\ msgs' = [msgs EXCEPT ![a.msg].sel = a.id]
        /\ Goes(e, "done")
        /\ UNCHANGED <<alive, alts, kind, target, seen, context, overtaken>>

\* The stale messages after m.
Dropped(m) == {n \in Present : msgs[n].seq > msgs[m].seq /\ msgs[n].stale}

\* truncate_stale_after: the alternates of those messages, then the messages.
Truncate(e) ==
    \E m \in Present :
        /\ pc[e] = "idle"
        /\ alts' = {a \in alts : a.msg \notin Dropped(m)}
        /\ msgs' = [n \in MessageIds |-> IF n \in Dropped(m) THEN None ELSE msgs[n]]
        /\ Goes(e, "done")
        /\ UNCHANGED <<alive, kind, target, seen, context, overtaken>>

DeleteThread(e) ==
    /\ pc[e] = "idle" /\ alive
    /\ alive' = FALSE
    /\ alts' = {}
    /\ msgs' = [m \in MessageIds |-> None]
    /\ Goes(e, "done")
    /\ UNCHANGED <<kind, target, seen, context, overtaken>>

-----------------------------------------------------------------------------
Next ==
    \/ \E s \in Sends :
          ReadSequence(s) \/ AppendUser(s) \/ ReadThread(s) \/ AppendReply(s) \/ ReplyHomeless(s)
    \/ \E r \in Readers : Answered(r)
    \/ \E g \in Generations :
          \/ BeginGeneration(g) \/ IncludeTarget(g) \/ ReadContext(g) \/ ReadTarget(g)
          \/ Replace(g) \/ AddAlternate(g) \/ StoreFails(g)
    \/ \E e \in Editors : BeginEdit(e) \/ Edit(e) \/ Select(e) \/ Truncate(e) \/ DeleteThread(e)

Spec == Init /\ [][Next]_vars

-----------------------------------------------------------------------------
(* Properties.                                                              *)

\* What a message shows is its own: the selected alternate is a row of that
\* message.  The column is not a foreign key, and messages and alternates go
\* separately when stale ones are truncated while others are written.
SelectionIsOwn ==
    \A m \in Present : msgs[m].sel # None => \E a \in Alternates(m) : a.id = msgs[m].sel

\* A thread that was deleted stays empty, whatever requests were waiting for
\* the language model: no message and no alternate outlives its parent.
NothingOutlivesItsParent ==
    /\ ~ alive => Present = {}
    /\ \A a \in alts : a.msg \in Present

\* The newest text written for a message by a request.
Newest(m) ==
    IF Alternates(m) = {} THEN msgs[m].text
    ELSE (CHOOSE a \in Alternates(m) : \A b \in Alternates(m) : b.idx <= a.idx).text

\* An edit is never overlooked: when a message that is not stale shows the
\* newest text generated for it, and the model was shown an earlier user
\* message that reads differently today, the edit was made while the model was
\* working.  (Selecting an older alternate by hand is the user's choice.)
EditsAreNoticed ==
    \A m \in Present :
        LET r == Shown(m) IN
        /\ Assistant(m) /\ ~ msgs[m].stale /\ r = Newest(m) /\ r \in Readers \ overtaken
        => \A c \in context[r] :
              /\ c[1] \in Present /\ ~ Assistant(c[1]) /\ msgs[c[1]].seq < msgs[m].seq
              => Shown(c[1]) = c[2]

\* A generation is shown nothing behind its target, and of the target only a continue is
\* shown something, provided that the message it cuts at was still there and not stale when
\* the prompt was read: the cut is found by a first read and applied to a second one.
ContextStopsAtTarget ==
    [][\A g \in Generations :
          /\ context'[g] # context[g]
          /\ seen'[g].until \in Present /\ ~ msgs[seen'[g].until].stale
          /\ target'[g] \in Present
          => \A c \in context'[g] :
                \/ msgs[c[1]].seq < msgs[target'[g]].seq
                \/ c[1] = target'[g] /\ kind'[g] = "continue"]_vars

\* Every row belongs: to a parent that exists, and the selected alternate to its message.
RowsBelong == TypeOK /\ SelectionIsOwn /\ NothingOutlivesItsParent

\* A generation is made from what precedes it, a continue from its target too: it reads
\* nothing beyond, and when what it read is edited later it is marked stale.
GenerationsReadThePast == []EditsAreNoticed /\ ContextStopsAtTarget
=============================================================================

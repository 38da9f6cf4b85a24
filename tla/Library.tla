------------------------------ MODULE Library ------------------------------
(***************************************************************************)
(* The library of the web server: voices and their samples, characters and *)
(* their portraits, as rows of SQLite and files of the blob directories,   *)
(* plus the one voice prompt the AI backend keeps for Qwen3.               *)
(*                                                                         *)
(* Every HTTP request runs on its own database session, so a request may   *)
(* be overtaken at each await: between the rows it reads and the commit    *)
(* that writes them, and while the backend works for it.  An action is the *)
(* stretch from one such point to the next.  SQLAlchemy writes at a commit *)
(* only the columns whose value differs from the one that was loaded.      *)
(*                                                                         *)
(* Names, texts, cards and audio are left out: a request that is refused   *)
(* for its contents changes nothing and is no step.                        *)
(***************************************************************************)
EXTENDS Naturals, Sequences, FiniteSets

CONSTANTS
  Requests,   \* slots for requests in progress
  Voices,     \* identities new_voice_id can mint
  Chars,      \* identities new_character_id can mint
  Assets,     \* identities new_voice_asset_id and new_asset_id can mint
  Keys,       \* keys of metadata.engine_settings
  MaxStarts,  \* bound: requests begun in one behaviour
  None

ASSUME LibraryConstants ==
  /\ IsFiniteSet(Assets) /\ MaxStarts \in Nat
  /\ None \notin Voices \cup Chars \cup Assets

VARIABLES
  file,     \* of each asset: what its blob directory holds under its name
  asset,    \* the rows voice_assets and character_assets
  order,    \* the assets in the order of created_at
  voice,    \* the rows of voices
  char,     \* the rows of characters
  prompt,   \* the backend: whose prompt is resident (a voice or a sample)
  lease,    \* the backend: the voice a live call has leased, or None
  req,      \* the requests in progress
  raced,    \* history: what was last written by a request that overlapped another
  forced,   \* history: <<voice, character>> the user deleted in spite of
  patched,  \* history: the settings users were told are saved
  started   \* how many requests were begun

vars == <<file, asset, order, voice, char, prompt, lease, req, raced, forced, patched,
          started>>
rows == <<file, asset, order, voice, char>>
backend == <<prompt, lease>>
history == <<raced, forced, patched>>

-----------------------------------------------------------------------------
(* State *)

Engines == {"qwen", "other"}
Row == [kind : {"none", "sample", "portrait", "portrait_history"},
        owner : Voices \cup Chars \cup {None}]
VoiceRow == [state : {"none", "available", "deleted"}, engine : Engines,
             settings : SUBSET Keys, sample : Assets \cup {None}]
CharRow == [state : {"none", "live", "deleted"}, voice : Voices \cup {None}]

Ops == {"idle", "upload", "save", "rename", "delete", "play", "call",
        "preview", "write", "replace", "remove"}

Request == [op : Ops, at : {"start", "stored", "read", "sent"},
            voice : Voices \cup {None}, char : Chars \cup {None},
            asset : Assets \cup {None}, engine : Engines,
            key : Keys \cup {None},
            saw : SUBSET (Keys \cup Chars \cup Assets \cup Voices),
            met : BOOLEAN]

(* A request of no kind, to be given the fields its kind uses. *)
Blank == [op |-> "idle", at |-> "start", voice |-> None, char |-> None,
          asset |-> None, engine |-> "other", key |-> None, saw |-> {},
          met |-> FALSE]

Idle(r) == req[r].op = "idle"
At(r, op, at) == req[r].op = op /\ req[r].at = at

(* Two requests that step on each other's toes.  Only the history uses it. *)
Conflict(p, q) ==
  \/ /\ {p.op, q.op} \in {{"delete", o} : o \in {"write", "play", "call"}}
     /\ p.voice = q.voice /\ p.voice # None
  \/ p.op = "rename" /\ q.op = "rename" /\ p.voice = q.voice
  \/ p.op = "replace" /\ q.op = "replace" /\ p.char = q.char

Start(r, q) ==
  /\ started < MaxStarts /\ started' = started + 1
  /\ req' = [s \in Requests |->
            IF s = r THEN [q EXCEPT !.met = \E t \in Requests \ {r} : Conflict(q, req[t])]
                     ELSE [req[s] EXCEPT !.met = @ \/ Conflict(req[s], q)]]

Goto(r, at) == req' = [req EXCEPT ![r].at = at] /\ UNCHANGED started
Return(r) == req' = [req EXCEPT ![r] = Blank] /\ UNCHANGED started

Mark(r, what) ==
  raced' = IF req[r].met THEN raced \cup {what} ELSE raced \ {what}

Fresh(table) == {x \in DOMAIN table : table[x].state = "none"}
\* A name no row, file or request has: uuid4.
FreshAssets ==
  {a \in Assets : /\ asset[a].kind = "none" /\ file[a] = "none"
                  /\ \A s \in Requests : req[s].asset # a}

Available(v) == v \in Voices /\ voice[v].state = "available"
Live(c) == char[c].state = "live"

-----------------------------------------------------------------------------
(* Queries *)

(* asset_for_voice: the newest sample that names the voice. *)
AssetForVoice(v) ==
  LET own == {i \in 1 .. Len(order) : /\ asset[order[i]].kind = "sample"
                                      /\ asset[order[i]].owner = v}
  IN  IF own = {} THEN None
      ELSE order[CHOOSE i \in own : \A j \in own : j <= i]

(* referents_for_voice: live characters whose default voice it is. *)
Referents(v) == {c \in Chars : Live(c) /\ char[c].voice = v}

(* The portraits _archive_active_portraits and _active_portrait select. *)
ActivePortraits(c) ==
  {a \in Assets : asset[a].kind = "portrait" /\ asset[a].owner = c}

(* sample_blob: the row and its file are there. *)
SampleBlob(a) == a \in Assets /\ asset[a].kind = "sample" /\ file[a] = "whole"

-----------------------------------------------------------------------------
(* Samples and voices *)

(* atomic_write_blob: written under a temporary name, flushed and renamed, *)
(* in one stretch without an await.                                        *)
AtomicWriteBlob(a) == file' = [file EXCEPT ![a] = "whole"]

(* The validated bytes are stored, the row is committed after it. *)
UploadSample(r) ==
  /\ Idle(r)
  /\ \E a \in FreshAssets :
       /\ AtomicWriteBlob(a)
       /\ Start(r, [Blank EXCEPT !.op = "upload", !.at = "stored", !.asset = a])
  /\ UNCHANGED <<asset, order, voice, char, backend, history>>

UploadCommit(r) ==
  /\ At(r, "upload", "stored")
  /\ asset' = [asset EXCEPT ![req[r].asset] = [kind |-> "sample", owner |-> None]]
  /\ order' = Append(order, req[r].asset)
  /\ Return(r)
  /\ UNCHANGED <<file, voice, char, backend, history>>

(* save_voice: the sample's row and bytes are read; nothing asks whether   *)
(* another voice has the sample already.                                   *)
SaveVoice(r) ==
  /\ Idle(r)
  /\ \E a \in Assets, e \in Engines :
       /\ SampleBlob(a)
       /\ Start(r, [Blank EXCEPT !.op = "save", !.at = "read", !.asset = a, !.engine = e])
  /\ UNCHANGED <<rows, backend, history>>

SaveCommit(r) ==
  /\ At(r, "save", "read")
  /\ \E v \in Fresh(voice) :
       /\ voice' = [voice EXCEPT ![v] = [state |-> "available", engine |-> req[r].engine,
                                          settings |-> {}, sample |-> req[r].asset]]
       /\ asset' = [asset EXCEPT ![req[r].asset].owner = v]
  /\ Return(r)
  /\ UNCHANGED <<file, order, char, backend, history>>

(* rename_voice: the metadata that was loaded is merged with the patch and *)
(* written as a whole; an equal value is not written.                      *)
RenameVoice(r) ==
  /\ Idle(r)
  /\ \E v \in Voices, k \in Keys :
       /\ Available(v)
       /\ Start(r, [Blank EXCEPT !.op = "rename", !.at = "read", !.voice = v, !.key = k,
                                 !.saw = voice[v].settings])
  /\ UNCHANGED <<rows, backend, history>>

MergedSettings(q) == q.saw \cup {q.key}

RenameCommit(r) ==
  LET q == req[r]
      merged == MergedSettings(q)
  IN  /\ At(r, "rename", "read")
      /\ voice' = IF merged = q.saw THEN voice
                  ELSE [voice EXCEPT ![q.voice].settings = merged]
      /\ patched' = [patched EXCEPT ![q.voice] = @ \cup {q.key}]
      /\ raced' = IF q.met THEN raced \cup {<<q.voice, "settings">>} ELSE raced
      /\ Return(r)
      /\ UNCHANGED <<file, asset, order, char, backend, forced>>

(* delete_voice: the voice and its referents are read.  Deleted already:   *)
(* answered.  Referents and no force: 409.  A Qwen3 voice's prompt is      *)
(* removed from the backend first.                                         *)
DeleteVoice(r) ==
  /\ Idle(r)
  /\ \E v \in Voices, force \in BOOLEAN :
       /\ Available(v)
       /\ Referents(v) = {} \/ force
       /\ Start(r, [Blank EXCEPT !.op = "delete", !.voice = v, !.saw = Referents(v),
                                 !.at = IF voice[v].engine = "qwen" THEN "sent" ELSE "read"])
  /\ UNCHANGED <<rows, backend, history>>

(* _qwen3_invalidation_result: an answer that is lost or malformed is a    *)
(* failure, though the prompt may be gone.                                 *)
InvalidationAnswer(r) == Goto(r, "read") \/ Return(r)

(* invalidate_tts_prompt refuses a voice that a live call has leased; any  *)
(* failure, a lost answer too, ends the request with 502 and the voice is  *)
(* kept.                                                                   *)
InvalidatePrompt(r) ==
  LET v == req[r].voice
  IN  /\ At(r, "delete", "sent")
      /\ \/ /\ lease # v
            /\ prompt' = IF prompt = v THEN None ELSE prompt
            /\ InvalidationAnswer(r)
         \/ Return(r) /\ UNCHANGED prompt
      /\ UNCHANGED <<rows, lease, history>>

DeleteCommit(r) ==
  LET v == req[r].voice
  IN  /\ At(r, "delete", "read")
      /\ voice' = [voice EXCEPT ![v].state = "deleted"]
      /\ forced' = forced \cup {<<v, c>> : c \in req[r].saw}
      /\ Return(r)
      /\ UNCHANGED <<file, asset, order, char, backend, raced, patched>>

(* validate_saved_qwen3_reference: what may be sent to the backend. *)
SavedReference(v) ==
  Available(v) /\ voice[v].engine = "qwen" /\ SampleBlob(AssetForVoice(v))

(* The voice and its sample are read, then the backend is asked to prepare *)
(* the prompt under the voice's key: test_play_voice to synthesize once,   *)
(* the offer of a call to hold it on lease.                                *)
TestPlayVoice(r) ==
  /\ Idle(r)
  /\ \E v \in Voices :
       /\ SavedReference(v)
       /\ Start(r, [Blank EXCEPT !.op = "play", !.at = "sent", !.voice = v])
  /\ UNCHANGED <<rows, backend, history>>

OfferVoice(r) ==
  /\ Idle(r)
  /\ \E v \in Voices :
       /\ SavedReference(v)
       /\ Start(r, [Blank EXCEPT !.op = "call", !.at = "sent", !.voice = v])
  /\ UNCHANGED <<rows, backend, history>>

(* prepare_tts_engine: a prompt leased to another voice is not displaced;  *)
(* a preparation that fails has dropped the prompt before.                 *)
PrepareVoice(r) ==
  LET v == req[r].voice
  IN  /\ At(r, "play", "sent") \/ At(r, "call", "sent")
      /\ \/ /\ lease \in {None, v}
            /\ prompt' = v
            /\ lease' = IF req[r].op = "call" THEN v ELSE lease
            /\ Mark(r, <<v, "prompt">>)
         \/ lease = None /\ prompt' = None /\ UNCHANGED <<lease, raced>>
         \/ UNCHANGED <<prompt, lease, raced>>
      /\ Return(r)
      /\ UNCHANGED <<rows, forced, patched>>

(* preview_voice: the prompt is prepared under the key of the sample, not  *)
(* of the voice saved from it.                                             *)
PreviewVoice(r) ==
  /\ Idle(r)
  /\ \E a \in Assets :
       /\ SampleBlob(a)
       /\ Start(r, [Blank EXCEPT !.op = "preview", !.at = "sent", !.asset = a])
  /\ UNCHANGED <<rows, backend, history>>

PreparePreview(r) ==
  /\ At(r, "preview", "sent")
  /\ \/ lease = None /\ prompt' \in {req[r].asset, None}
     \/ UNCHANGED prompt
  /\ Return(r)
  /\ UNCHANGED <<rows, lease, history>>

CallEnds ==
  /\ lease # None
  /\ lease' = None
  /\ UNCHANGED <<rows, prompt, req, history, started>>

-----------------------------------------------------------------------------
(* Characters *)

(* Mutant: a deleted voice is accepted. *)
KnownVoice(v) == v \in {None} \cup {w \in Voices : voice[w].state # "none"}

(* create_character and update_character: the default voice must exist and *)
(* be available when it is looked up.                                      *)
ValidDefaultVoice(v) == v = None \/ Available(v)

WriteCharacter(r) ==
  /\ Idle(r)
  /\ \E v \in Voices \cup {None} :
       /\ ValidDefaultVoice(v)
       /\ \/ Start(r, [Blank EXCEPT !.op = "write", !.at = "read", !.voice = v])
          \/ \E c \in Chars :
               /\ Live(c)
               /\ Start(r, [Blank EXCEPT !.op = "write", !.at = "read", !.voice = v,
                                         !.char = c, !.saw = {char[c].voice} \ {None}])
  /\ UNCHANGED <<rows, backend, history>>

WriteCommit(r) ==
  LET q == req[r]
      unchanged == q.char # None /\ q.saw = {q.voice} \ {None}
  IN  /\ At(r, "write", "read")
      /\ IF unchanged THEN UNCHANGED <<char, raced>>
         ELSE \E c \in IF q.char = None THEN Fresh(char) ELSE {q.char} :
                /\ char' = IF q.char = None
                           THEN [char EXCEPT ![c] = [state |-> "live", voice |-> q.voice]]
                           ELSE [char EXCEPT ![c].voice = q.voice]
                /\ Mark(r, <<c, "voice">>)
      /\ Return(r)
      /\ UNCHANGED <<file, asset, order, voice, backend, forced, patched>>

DeleteCharacter ==
  /\ \E c \in Chars : Live(c) /\ char' = [char EXCEPT ![c].state = "deleted"]
  /\ UNCHANGED <<file, asset, order, voice, backend, req, history, started>>

(* parse_character_card_bytes: what a card that is not refused can be. *)
CardFormats == {"json", "png"}

(* import_character commits the character; a PNG card goes on to store the *)
(* image as its portrait, as a second transaction.                         *)
ImportCharacter(r) ==
  /\ Idle(r)
  /\ \E c \in Fresh(char), format \in CardFormats :
       /\ char' = [char EXCEPT ![c] = [state |-> "live", voice |-> None]]
       /\ IF format = "png"
          THEN Start(r, [Blank EXCEPT !.op = "replace", !.char = c])
          ELSE UNCHANGED <<req, started>>
  /\ UNCHANGED <<file, asset, order, voice, backend, history>>

(* _default_voice_response: what the character's page says of its voice. *)
DefaultVoiceState(c) ==
  IF char[c].voice = None THEN "none"
  ELSE IF Available(char[c].voice) THEN "assigned" ELSE "unavailable"

-----------------------------------------------------------------------------
(* Portraits *)

ReplacePortrait(r) ==
  /\ Idle(r)
  /\ \E c \in Chars : Live(c) /\ Start(r, [Blank EXCEPT !.op = "replace", !.char = c])
  /\ UNCHANGED <<rows, backend, history>>

(* validate_portrait_upload: the image of a card that was accepted may be  *)
(* refused as a portrait.                                                  *)
PortraitVerdicts == {"refused", "valid"}

(* The character is looked up, the image validated, the blob written.  A   *)
(* refusal after an import leaves the character without its portrait.      *)
StorePortrait(r) ==
  /\ At(r, "replace", "start")
  /\ \E verdict \in PortraitVerdicts :
     IF verdict = "refused" \/ ~Live(req[r].char)
     THEN Return(r) /\ UNCHANGED file
     ELSE \E a \in FreshAssets :
            /\ AtomicWriteBlob(a)
            /\ req' = [req EXCEPT ![r].at = "stored", ![r].asset = a]
            /\ UNCHANGED started
  /\ UNCHANGED <<asset, order, voice, char, backend, history>>

ReadPortraits(r) ==
  /\ At(r, "replace", "stored")
  /\ req' = [req EXCEPT ![r].at = "read", ![r].saw = ActivePortraits(req[r].char)]
  /\ UNCHANGED <<rows, backend, started, history>>

(* Mutant: nothing is archived. *)
KeepAll(table, old) == table

Archived(table, old) ==
  [a \in Assets |-> IF a \in old THEN [table[a] EXCEPT !.kind = "portrait_history"]
                    ELSE table[a]]

ReplaceCommit(r) ==
  LET q == req[r]
  IN  /\ At(r, "replace", "read")
      /\ asset' = [Archived(asset, q.saw) EXCEPT ![q.asset] =
                     [kind |-> "portrait", owner |-> q.char]]
      /\ order' = Append(order, q.asset)
      /\ Mark(r, <<q.char, "portrait">>)
      /\ Return(r)
      /\ UNCHANGED <<file, voice, char, backend, forced, patched>>

DeletePortrait(r) ==
  /\ Idle(r)
  /\ \E c \in Chars :
       /\ Live(c)
       /\ Start(r, [Blank EXCEPT !.op = "remove", !.at = "read", !.char = c,
                                 !.saw = ActivePortraits(c)])
  /\ UNCHANGED <<rows, backend, history>>

DeletePortraitCommit(r) ==
  /\ At(r, "remove", "read")
  /\ asset' = Archived(asset, req[r].saw)
  /\ Return(r)
  /\ UNCHANGED <<file, order, voice, char, backend, history>>

-----------------------------------------------------------------------------
(* Faults *)

(* The web server dies: every request is gone, a file that was being       *)
(* written stays behind under its temporary name.                          *)
Crash ==
  /\ \E r \in Requests : ~Idle(r)
  /\ req' = [r \in Requests |-> Blank]
  /\ \/ UNCHANGED file
     \/ \E a \in FreshAssets : file' = [file EXCEPT ![a] = "tmp"]
  /\ UNCHANGED <<asset, order, voice, char, backend, history, started>>

BackendRestarts ==
  /\ prompt # None
  /\ prompt' = None /\ lease' = None
  /\ UNCHANGED <<rows, req, history, started>>

-----------------------------------------------------------------------------
Init ==
  /\ file = [a \in Assets |-> "none"]
  /\ asset = [a \in Assets |-> [kind |-> "none", owner |-> None]]
  /\ order = << >>
  /\ voice = [v \in Voices |-> [state |-> "none", engine |-> "other", settings |-> {},
                                sample |-> None]]
  /\ char = [c \in Chars |-> [state |-> "none", voice |-> None]]
  /\ prompt = None /\ lease = None
  /\ req = [r \in Requests |-> Blank]
  /\ raced = {} /\ forced = {} /\ patched = [v \in Voices |-> {}]
  /\ started = 0

VoiceRequest(r) ==
  \/ UploadSample(r) \/ UploadCommit(r) \/ SaveVoice(r) \/ SaveCommit(r)
  \/ RenameVoice(r) \/ RenameCommit(r)
  \/ DeleteVoice(r) \/ InvalidatePrompt(r) \/ DeleteCommit(r)
  \/ TestPlayVoice(r) \/ OfferVoice(r) \/ PrepareVoice(r) \/ PreviewVoice(r) \/ PreparePreview(r)

CharacterRequest(r) ==
  \/ WriteCharacter(r) \/ WriteCommit(r) \/ ImportCharacter(r)
  \/ ReplacePortrait(r) \/ StorePortrait(r) \/ ReadPortraits(r) \/ ReplaceCommit(r)
  \/ DeletePortrait(r) \/ DeletePortraitCommit(r)

Next ==
  \/ \E r \in Requests : VoiceRequest(r) \/ CharacterRequest(r)
  \/ DeleteCharacter \/ CallEnds \/ Crash \/ BackendRestarts

Spec == Init /\ [][Next]_vars

-----------------------------------------------------------------------------
(* Properties *)

(* The rows, the files, the backend's prompt and the requests in progress  *)
(* have the shape the schema and the request handlers give them, and no    *)
(* asset is committed twice.                                               *)
TypeOK ==
  /\ file \in [Assets -> {"none", "tmp", "whole"}]
  /\ asset \in [Assets -> Row]
  /\ order \in Seq(Assets) /\ \A i, j \in 1 .. Len(order) : order[i] = order[j] => i = j
  /\ voice \in [Voices -> VoiceRow]
  /\ char \in [Chars -> CharRow]
  /\ prompt \in Voices \cup Assets \cup {None}
  /\ lease \in Voices \cup {None}
  /\ req \in [Requests -> Request]
  /\ started \in 0 .. MaxStarts

(* Whatever request dies in whatever place, a row of voice_assets or       *)
(* character_assets never names a file that is missing or half written:    *)
(* upload_sample and replace_portrait store the blob before the row.       *)
RowsHaveFiles == \A a \in Assets : asset[a].kind # "none" => file[a] = "whole"

(* A live character shows "Voice unavailable" only because the user       *)
(* forced the deletion in spite of that character, or because the          *)
(* assignment and the deletion overlapped: the check of                    *)
(* _validated_default_voice_id and the referents of delete_voice leave no  *)
(* other way (not a failed deletion, not a crash, not a later edit).       *)
UnavailableVoiceIsExplained ==
  \A c \in Chars : Live(c) /\ DefaultVoiceState(c) = "unavailable" =>
    <<char[c].voice, c>> \in forced \/ <<c, "voice">> \in raced

(* The backend keeps the prompt of a deleted voice, or a lease on it, only *)
(* if a synthesis or an offer with that voice overlapped the deletion:     *)
(* delete_voice removes the prompt before it deletes, gives up when the    *)
(* removal fails, and nothing reads the voice afterwards.                  *)
DeadPromptIsExplained ==
  \A v \in Voices : voice[v].state = "deleted" /\ v \in {prompt, lease} =>
    <<v, "prompt">> \in raced

(* A voice is left without a sample only when a later save_voice of the    *)
(* same uploaded asset took it.                                            *)
VoicesKeepTheirSample ==
  \A v \in Voices : voice[v].state # "none" /\ AssetForVoice(v) = None =>
    \E w \in Voices \ {v} : voice[w].sample = voice[v].sample

(* A character has one active portrait at most, unless two replacements    *)
(* overlapped: replace_portrait archives what it found before it stored    *)
(* its own.                                                                *)
OneActivePortrait ==
  \A c \in Chars : Cardinality(ActivePortraits(c)) > 1 => <<c, "portrait">> \in raced

(* A setting that rename_voice confirmed is lost only to another           *)
(* rename_voice that ran at the same time: the merge keeps the others.     *)
ConfirmedSettingsSurvive ==
  \A v \in Voices : <<v, "settings">> \notin raced => patched[v] \subseteq voice[v].settings

(* What a deletion leaves dangling (a character's voice, a prompt, a lease) *)
(* was left by a request that overlapped it or by the user's own order.     *)
DeletionIsExplained == UnavailableVoiceIsExplained /\ DeadPromptIsExplained

(* Nothing that was stored is lost or doubled, file, sample, portrait or    *)
(* setting, unless two requests for the same thing overlapped.              *)
LossIsExplained ==
  /\ TypeOK
  /\ RowsHaveFiles /\ VoicesKeepTheirSample
  /\ OneActivePortrait /\ ConfirmedSettingsSurvive
=============================================================================

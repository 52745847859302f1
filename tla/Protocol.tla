------------------------------ MODULE Protocol ------------------------------
(***************************************************************************)
(* The protocol page.  The plan: the page's list of assignments, and the   *)
(* panel and grid that edit it; an assignment gives a task to a vendor,    *)
(* only Anthropic's run and the others are simulated.  The translation:    *)
(* one AgentIntent written for two vendors by their adapters, the panels   *)
(* that show both, and the editor of its user turn.                        *)
(*                                                                         *)
(* A native prompt is its system texts, its turns and its fidelity notes,  *)
(* each note reduced to what it is about; tools, parameters and the bytes  *)
(* of the JSON are left out.  A prompt's size is the blocks it holds.      *)
(***************************************************************************)
EXTENDS Naturals, Sequences, SequencesExt

CONSTANTS
  Tasks,       \* TASK_DIMENSIONS
  Providers,   \* the vendors of the adapters the page makes
  Live,        \* "anthropic"
  LaneTokens,  \* MA_LANE_TOKENS
  FirstPlan,   \* INITIAL_ASSIGNMENTS: a vendor for some of the tasks, in order
  Intents,     \* the intents the demo may be given
  PREBAKED_INTENT,
  Edits,       \* what may be typed into the editor; blank is ""
  WINDOW       \* max_context_window_tokens of each adapter, in blocks

Assignments == [task : Tasks, vendor : Providers \cup {Live}, status : {"real", "mock"}]

ASSUME VendorPlanAssumption ==
  /\ Live \notin LaneTokens
  /\ FirstPlan \in Seq(Assignments)
  /\ \A i, j \in DOMAIN FirstPlan : FirstPlan[i].task = FirstPlan[j].task => i = j

NoText == "no text"
IntentMessages == [role : STRING, text : STRING, answer : STRING, call : BOOLEAN,
                   attachments : Seq([kind : STRING, ref : STRING]), tag : BOOLEAN, cache : BOOLEAN]

ASSUME DemoAssumption ==
  /\ Edits \subseteq STRING /\ NoText \notin Edits
  /\ \A intent \in Intents \cup {PREBAKED_INTENT} :
       intent \in [id : STRING, messages : Seq(IntentMessages), format : STRING]

VARIABLES
  plan,        \* the page's assignments: <<[task, vendor, status], ...>>
  demo,        \* [given, intent, editable, draft, error]: the intent handed in, as edited
               \* since, whether it may be, the editor's text and its complaint; and
               \* history: said, the last text that went through
  rendered    \* history: the intent_id of every protocol.demo.rendered

planVars == <<plan>>
demoVars == <<demo, rendered>>

----------------------------------------------------------------------------
(* The plan: MultiVendorPanel and TaskAssignmentGrid.                      *)

IsMockVendor(v) == v # Live
NormaliseExecutionStatus(v) == IF IsMockVendor(v) THEN "mock" ELSE "real"
EnforceMockPolicy(as) == [i \in DOMAIN as |-> [as[i] EXCEPT !.status = NormaliseExecutionStatus(as[i].vendor)]]

\* The columns of the grid: the lanes are left out and Anthropic is always there.
PanelVendors == (Providers \ LaneTokens) \cup {Live}

PlanInit == plan = EnforceMockPolicy(FirstPlan)

\* The assignment of a task, in a list of at most one.
Assigned(t) == SelectSeq(plan, LAMBDA a : a.task = t)

\* The assignments of the other tasks, in their order.
WithoutTask(as, t) ==
  FoldLeft(LAMBDA kept, a : IF a.task = t THEN kept ELSE Append(kept, a), <<>>, as)

\* The task's former assignment goes and the new one is last.
BuildNextAssignments(as, t, v) ==
  Append(WithoutTask(as, t),
         [task |-> t, vendor |-> v, status |-> NormaliseExecutionStatus(v)])

\* handleToggle: the panel enforces the policy on the list, and the page again.
HandleToggle(as, t, v) == EnforceMockPolicy(BuildNextAssignments(as, t, v))

\* A click, Enter or Space on a cell that is not the assigned one.
HandleCellActivate(t, v) ==
  /\ \A i \in DOMAIN Assigned(t) : Assigned(t)[i].vendor # v
  /\ plan' = HandleToggle(plan, t, v)

PlanNext == \E t \in Tasks, v \in PanelVendors : HandleCellActivate(t, v)
PlanSpec == PlanInit /\ [][PlanNext]_planVars

----------------------------------------------------------------------------
(* An AgentIntent: [id, messages, format].  A message has a role, a text   *)
(* or none, an answer and its tool_call_id if it is a tool's result, and   *)
(* attachments [kind, ref]; its text may carry a tag and a cache marker.   *)

HasText(m) == m.text \notin {"", NoText}

IsSystem(m) == m.role = "system"
IsAnswer(m) == m.role = "tool_result"
Turns(intent) == SelectSeq(intent.messages, LAMBDA m : ~IsSystem(m))

\* validate: every message holds something, and an answer says which call it is of.
Valid(intent) ==
  /\ intent.messages # <<>>
  /\ \A i \in DOMAIN intent.messages : LET m == intent.messages[i] IN
       /\ HasText(m) \/ m.answer # NoText \/ m.attachments # <<>>
       /\ IsAnswer(m) => m.call

----------------------------------------------------------------------------
(* The adapters.                                                           *)

TextBlock(m, tag, cache) == [kind |-> "text", text |-> m.text, tag |-> tag, cache |-> cache]
AnswerBlock(m) == [kind |-> "answer", text |-> m.answer]
PartBlock(p) == [kind |-> "part", part |-> p]

MergeRunsOverwritten(spoken) == \* a run keeps the blocks of its last message only
  LET Extend(turns, s) ==
        IF s.blocks = <<>> THEN turns
        ELSE IF turns # <<>> /\ Last(turns).role = s.role
        THEN [turns EXCEPT ![Len(turns)] = s]
        ELSE Append(turns, s)
  IN FoldLeft(Extend, <<>>, spoken)

\* One turn for each run of messages of one role; a message without blocks is passed over.
MergeRuns(spoken) ==
  LET Extend(turns, s) ==
        IF s.blocks = <<>> THEN turns
        ELSE IF turns # <<>> /\ Last(turns).role = s.role
        THEN [turns EXCEPT ![Len(turns)].blocks = @ \o s.blocks]
        ELSE Append(turns, s)
  IN FoldLeft(Extend, <<>>, spoken)

Note(if, what) == IF if THEN <<what>> ELSE <<>>
NotesOfAll(messages, NotesOf(_)) == FlattenSeq([i \in DOMAIN messages |-> NotesOf(messages[i])])

\* Anthropic: images by link or by Files API id; other attachments cannot be sent.
ClaudeTakes(p) == p.kind = "image" /\ p.ref \in {"link", "file"}
ClaudeRole(m) == IF m.role = "assistant" THEN "assistant" ELSE "user"

\* An answer to no call is passed over with all its message holds.
ClaudeBlocks(m) ==
  LET parts == SelectSeq(m.attachments, ClaudeTakes)
      blocks == [i \in DOMAIN parts |-> PartBlock(parts[i])]
  IN IF IsAnswer(m)
     THEN IF m.call THEN <<AnswerBlock(m)>> \o blocks ELSE <<>>
     ELSE IF HasText(m) THEN <<TextBlock(m, m.tag, m.cache)>> \o blocks ELSE blocks

ClaudeTurn(m) == [role |-> ClaudeRole(m), blocks |-> ClaudeBlocks(m)]

ClaudeNotes(m) ==
  IF IsAnswer(m) /\ ~m.call THEN <<"answer dropped">>
  ELSE [i \in 1..Len(SelectSeq(m.attachments, LAMBDA p : ~ClaudeTakes(p))) |-> "part dropped"]
         \o Note(ClaudeBlocks(m) = <<>>, "message skipped")

ClaudeSystemNotes(m) ==
  IF ~IsSystem(m) THEN <<>>
  ELSE Note(m.attachments # <<>>, "part dropped") \o Note(~HasText(m), "message skipped")

SystemTexts(intent) == SelectSeq(intent.messages, LAMBDA m : IsSystem(m) /\ HasText(m))

ClaudePrompt(intent) ==
  [system |-> [i \in DOMAIN SystemTexts(intent) |->
                 LET m == SystemTexts(intent)[i] IN TextBlock(m, m.tag, m.cache)],
   turns |-> MergeRuns([i \in DOMAIN Turns(intent) |-> ClaudeTurn(Turns(intent)[i])]),
   notes |-> NotesOfAll(intent.messages, ClaudeSystemNotes)
               \o NotesOfAll(Turns(intent), ClaudeNotes)
               \o Note(intent.format # "text", "format mapped")]

\* Gemini: every attachment is sent as a file; tags and cache markers are not.
GeminiRole(m) ==
  IF m.role = "assistant" THEN "model" ELSE IF IsAnswer(m) THEN "function" ELSE "user"

GeminiBlocks(m) ==
  LET blocks == [i \in DOMAIN m.attachments |-> PartBlock(m.attachments[i])]
  IN IF IsAnswer(m) THEN <<AnswerBlock(m)>> \o blocks
     ELSE IF HasText(m) THEN <<TextBlock(m, FALSE, FALSE)>> \o blocks ELSE blocks

GeminiTurn(m) == [role |-> GeminiRole(m), blocks |-> GeminiBlocks(m)]

GeminiNotes(m) ==
  Note(~IsAnswer(m) /\ HasText(m) /\ m.tag, "tag dropped")
    \o Note(~IsAnswer(m) /\ HasText(m) /\ m.cache, "cache dropped")
    \o [i \in 1..Len(SelectSeq(m.attachments, LAMBDA p : p.ref # "link")) |-> "upload needed"]
    \o Note(GeminiBlocks(m) = <<>>, "message skipped")

GeminiSystemNotes(m) ==
  IF ~IsSystem(m) THEN <<>>
  ELSE Note(m.tag, "tag dropped") \o Note(m.cache, "cache dropped")
         \o Note(m.attachments # <<>>, "part dropped")

\* The adapter is a mock, which is its first note.
GeminiPrompt(intent) ==
  [system |-> [i \in DOMAIN SystemTexts(intent) |-> TextBlock(SystemTexts(intent)[i], FALSE, FALSE)],
   turns |-> MergeRuns([i \in DOMAIN Turns(intent) |-> GeminiTurn(Turns(intent)[i])]),
   notes |-> <<"mock">> \o NotesOfAll(intent.messages, GeminiSystemNotes)
               \o NotesOfAll(Turns(intent), GeminiNotes)
               \o Note(intent.format = "xml", "format downgraded")]

Adapters == {"claude", "gemini"}
SerializeIntent(a, intent) == IF a = "claude" THEN ClaudePrompt(intent) ELSE GeminiPrompt(intent)

Spoken(prompt) == FlattenSeq([i \in DOMAIN prompt.turns |-> prompt.turns[i].blocks])

\* assertWithinWindow throws.
Overflows(a, prompt) == Len(prompt.system) + Len(Spoken(prompt)) > WINDOW[a]

\* Shown as the prompt, or as the error in its place.
SafeSerialize(a, intent) ==
  LET prompt == SerializeIntent(a, intent) IN [ok |-> ~Overflows(a, prompt), prompt |-> prompt]

\* classifyFidelityNote: the notes the panels mark as warnings.
IsWarning(note) ==
  note \in {"answer dropped", "part dropped", "tag dropped", "cache dropped", "format downgraded"}

Classified(notes) == [i \in DOMAIN notes |-> [text |-> notes[i], warning |-> IsWarning(notes[i])]]

\* Without a note the panel says that every field was preserved.
ClaudePanel(prompt) ==
  [prompt |-> prompt, notes |-> Classified(prompt.notes), preserved |-> prompt.notes = <<>>]

GeminiPanel(prompt) ==
  [prompt |-> prompt, notes |-> Classified(prompt.notes), preserved |-> FALSE]

PanelOf(a, intent) ==
  LET serialized == SafeSerialize(a, intent)
  IN IF ~serialized.ok THEN [error |-> TRUE]
     ELSE [error |-> FALSE] @@ (IF a = "claude" THEN ClaudePanel(serialized.prompt)
                                ELSE GeminiPanel(serialized.prompt))

----------------------------------------------------------------------------
(* TranslationSplit: the editor of the first user turn.                    *)

IsUser(m) == m.role = "user"

\* findFirstUserText looks for a text that is not empty, replaceFirstUserText for a text.
ShownTurn(intent) == SelectInSeq(intent.messages, LAMBDA m : IsUser(m) /\ HasText(m))
EditedTurn(intent) == SelectInSeq(intent.messages, LAMBDA m : IsUser(m) /\ m.text # NoText)

FindFirstUserText(intent) ==
  IF ShownTurn(intent) = 0 THEN "" ELSE intent.messages[ShownTurn(intent)].text

ReplaceFirstUserText(intent, text) ==
  IF EditedTurn(intent) = 0 THEN intent
  ELSE [intent EXCEPT !.messages[EditedTurn(intent)].text = text]

Fresh(intent, editable) ==
  [given |-> intent, intent |-> intent, editable |-> editable,
   draft |-> FindFirstUserText(intent), error |-> "none", said |-> NoText]

DemoInit ==
  /\ \E i \in Intents \cup {PREBAKED_INTENT}, e \in BOOLEAN : demo = Fresh(i, e)
  /\ rendered = <<demo.intent.id>>

\* The embedder hands in the prebaked intent; the editor's complaint stays.  The event goes
\* out when the intent_id is not the last one it went out for.
IntentHandedIn ==
  /\ demo.intent # PREBAKED_INTENT
  /\ demo' = [Fresh(PREBAKED_INTENT, demo.editable) EXCEPT !.error = demo.error]
  /\ rendered' = IF Last(rendered) = PREBAKED_INTENT.id THEN rendered
                  ELSE Append(rendered, PREBAKED_INTENT.id)

Type(text) ==
  /\ demo.editable /\ text # demo.draft
  /\ demo' = [demo EXCEPT !.draft = text]
  /\ UNCHANGED rendered

\* On blur and on Replay: the embedder adopts the next intent, and the editor reads it again.
HandleEditCommit ==
  /\ demo.editable
  /\ LET next == ReplaceFirstUserText(demo.intent, demo.draft)
     IN demo' = IF demo.draft = "" THEN [demo EXCEPT !.error = "empty"]
                ELSE IF ~Valid(next) THEN [demo EXCEPT !.error = "invalid"]
                ELSE [demo EXCEPT !.intent = next, !.draft = FindFirstUserText(next),
                                  !.error = "none", !.said = demo.draft]
  /\ UNCHANGED rendered

DemoNext == IntentHandedIn \/ HandleEditCommit \/ \E t \in Edits : Type(t)
DemoSpec == DemoInit /\ [][DemoNext]_demoVars

----------------------------------------------------------------------------

\* However often cells are flipped a task has at most one vendor, so that the
\* counts of the panel's footer are counts of tasks.
OneVendorPerTask == \A i, j \in DOMAIN plan : plan[i].task = plan[j].task => i = j

\* docs/contracts/vendor_adapter_ui.contract.md section 4: an assignment to another
\* vendor is marked as simulated, and one given back to Anthropic is live again.
OnlyAnthropicIsLive == \A i \in DOMAIN plan : (plan[i].status = "real") <=> (plan[i].vendor = Live)

\* Both: the plan the footer counts and the badges mark is one vendor per task, live only
\* where it is Anthropic's.
PlanIsSound == OneVendorPerTask /\ OnlyAnthropicIsLive

\* docs/contracts/protocol_adapter.contract.md: both prompts carry what the intent says.  The
\* turns hold every text, answer and attachment the vendor takes, in the order of the intent
\* whatever runs were merged, and roles alternate as the vendors' interfaces ask.
ItemsOf(m) ==
  (IF IsAnswer(m) THEN <<AnswerBlock(m)>>
   ELSE IF HasText(m) THEN <<[kind |-> "text", text |-> m.text]>> ELSE <<>>)
    \o [i \in DOMAIN m.attachments |-> PartBlock(m.attachments[i])]

Plain(block) == IF block.kind = "text" THEN [kind |-> "text", text |-> block.text] ELSE block

Sendable(a, item) == a = "gemini" \/ item.kind # "part" \/ ClaudeTakes(item.part)

SaysWhatTheIntentSays(a) ==
  LET prompt == PanelOf(a, demo.intent).prompt
      turns == SelectSeq(Turns(demo.intent), LAMBDA m : a = "gemini" \/ ~IsAnswer(m) \/ m.call)
      items == FlattenSeq([i \in DOMAIN turns |-> ItemsOf(turns[i])])
  IN /\ [i \in DOMAIN Spoken(prompt) |-> Plain(Spoken(prompt)[i])]
          = SelectSeq(items, LAMBDA item : Sendable(a, item))
     /\ \A i \in 1..Len(prompt.turns) - 1 : prompt.turns[i].role # prompt.turns[i + 1].role

\* The same contract: what a vendor does not take is in its notes "rather than silently
\* dropped", and the panel marks it as a warning: there is one exactly when an attachment, an
\* answer, a tag or a marker of a text of the intent is not in the prompt, and Claude's panel
\* says that all was preserved only where it was.
Holds(intent, Has(_)) == \E i \in DOMAIN intent.messages : Has(intent.messages[i])

LossesAreWarned(a) ==
  LET intent == demo.intent
      panel == PanelOf(a, intent)
      blocks == panel.prompt.system \o Spoken(panel.prompt)
      Sent(kind) == Len(SelectSeq(blocks, LAMBDA b : b.kind = kind))
      Warned(what) == [text |-> what, warning |-> TRUE] \in ToSet(panel.notes)
      Texts(Marked(_)) == Len(SelectSeq(intent.messages,
                                        LAMBDA m : ~IsAnswer(m) /\ HasText(m) /\ Marked(m)))
      Kept(Marked(_)) == Len(SelectSeq(blocks, LAMBDA b : b.kind = "text" /\ Marked(b)))
      Attached == FlattenSeq([i \in DOMAIN intent.messages |-> intent.messages[i].attachments])
      Answers == Len(SelectSeq(intent.messages, IsAnswer))
  IN /\ Warned("tag dropped") <=> Texts(LAMBDA m : m.tag) > Kept(LAMBDA b : b.tag)
     /\ Warned("cache dropped") <=> Texts(LAMBDA m : m.cache) > Kept(LAMBDA b : b.cache)
     /\ Warned("answer dropped") <=> Answers > Sent("answer")
     /\ panel.preserved => Sent("part") = Len(Attached) /\ Sent("answer") = Answers
     /\ Sent("part") < Len(Attached) <=> Warned("part dropped") \/ (Warned("answer dropped")
          /\ Holds(intent, LAMBDA m : IsAnswer(m) /\ ~m.call /\ m.attachments # <<>>))

\* An edit changes the user turn the editor shows and nothing else of the intent handed in,
\* however many are made; the text that went through is the one the vendors are told.  A user
\* turn with an empty text before it takes the edit in its place.
EditChangesTheShownTurn ==
  LET given == demo.given.messages
      turn == EditedTurn(demo.given)
  IN /\ Len(demo.intent.messages) = Len(given)
     /\ \A i \in DOMAIN given : i # turn => demo.intent.messages[i] = given[i]
     /\ demo.said # NoText /\ turn # 0 => FindFirstUserText(demo.intent) = demo.said

\* The demo is announced once for an intent, however often it is edited.
RenderedOncePerIntent ==
  /\ Last(rendered) = demo.intent.id
  /\ \A i \in 1..Len(rendered) - 1 : rendered[i] # rendered[i + 1]

\* Both, of every panel that shows a prompt.
PromptsCarryTheIntent ==
  \A a \in Adapters :
    ~PanelOf(a, demo.intent).error => SaysWhatTheIntentSays(a) /\ LossesAreWarned(a)
=============================================================================

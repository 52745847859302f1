------------------------------- MODULE Worlds -------------------------------
(***************************************************************************)
(* The world aesthetic: the theme runtime that restyles the document and   *)
(* remembers one world for the browser, the registry that remembers one    *)
(* world for a builder session, the switcher of the builder page and the   *)
(* picker of the advisor page, across navigation and reloads.  Colours and *)
(* fonts are left out: a document is styled as one world.                  *)
(***************************************************************************)
EXTENDS Naturals, Sequences

CONSTANTS
  WorldIds,     \* DESCRIPTOR_ORDER: the worlds, in the order they are listed
  DefaultWorld, \* DEFAULT_WORLD
  NoWorld       \* nothing stored

AllWorlds == {WorldIds[i] : i \in DOMAIN WorldIds}

ASSUME WorldsAssumption ==
  WorldIds \in Seq(AllWorlds) /\ DefaultWorld \in AllWorlds /\ NoWorld \notin AllWorlds

VARIABLES
  page,       \* the page shown: builder, advisor or another one
  theme,      \* [active, root]: the runtime's active world, and data-world on the document
  stored,     \* localStorage: [theme, session]
  remembered, \* the registry's memory store, for the builder's session
  storage,    \* whether the browser lets the page use localStorage
  shown       \* [switcher, picker]: the world each control marks as active

worldsVars == <<page, theme, stored, remembered, storage, shown>>

\* hydrateActiveWorld, once per load of the document.
WorldsInit ==
  /\ page = "other" /\ storage \in BOOLEAN
  /\ theme = [active |-> DefaultWorld, root |-> DefaultWorld]
  /\ stored = [theme |-> IF storage THEN DefaultWorld ELSE NoWorld, session |-> NoWorld]
  /\ remembered = NoWorld
  /\ shown = [switcher |-> DefaultWorld, picker |-> DefaultWorld]

\* applyWorld: active, the document, then localStorage; a refused write is swallowed.
Applied(world) ==
  /\ theme' = [active |-> world, root |-> world]
  /\ stored' = IF storage THEN [stored EXCEPT !.theme = world] ELSE stored

\* getActiveForSession: memory is read only where localStorage throws.
SessionWorld(kept, memory) ==
  LET world == IF storage THEN kept.session ELSE memory
  IN IF world = NoWorld THEN DefaultWorld ELSE world

\* The switcher's mount effect; its promise is settled before any other event.
SwitcherMounts(memory) ==
  LET world == SessionWorld(stored, memory)
  IN Applied(world) /\ shown' = [shown EXCEPT !.switcher = world]

\* The router shows another page; the document and the module state stay.
VisitBuilder ==
  /\ page # "builder" /\ page' = "builder"
  /\ SwitcherMounts(remembered)
  /\ UNCHANGED <<remembered, storage>>

\* INITIAL_SESSION names the default world, whatever the theme is.
VisitAdvisor ==
  /\ page # "advisor" /\ page' = "advisor"
  /\ shown' = [shown EXCEPT !.picker = DefaultWorld]
  /\ UNCHANGED <<theme, stored, remembered, storage>>

VisitOther ==
  /\ page # "other" /\ page' = "other"
  /\ UNCHANGED <<theme, stored, remembered, storage, shown>>

\* handleSelect: the mark, the theme, then the session's world.
HandleSelect(world) ==
  /\ page = "builder"
  /\ shown' = [shown EXCEPT !.switcher = world]
  /\ theme' = [active |-> world, root |-> world]
  /\ stored' = IF storage THEN [theme |-> world, session |-> world] ELSE stored
  /\ remembered' = world
  /\ UNCHANGED <<page, storage>>

\* handleKey: the world after or before the focused one; the focused one is the active one.
ArrowKey(step) ==
  LET at == CHOOSE i \in DOMAIN WorldIds : WorldIds[i] = shown.switcher
  IN HandleSelect(WorldIds[((at - 1 + step) % Len(WorldIds)) + 1])

\* onWorldAestheticChange of the advisor page: no session is told.
PickWorld(world) ==
  /\ page = "advisor"
  /\ shown' = [shown EXCEPT !.picker = world]
  /\ Applied(world)
  /\ UNCHANGED <<page, remembered, storage>>

\* readPersistedWorld() ?? fallback
Persisted(kept) == IF kept.theme = NoWorld THEN DefaultWorld ELSE kept.theme

\* The document is loaded again: module state is gone; the switcher's effect runs before the
\* boot component's, and its promise after both.
ReloadDocument ==
  /\ remembered' = NoWorld
  /\ LET booted == Persisted(stored)
         world == IF page = "builder" THEN SessionWorld(stored, NoWorld) ELSE booted
     IN /\ theme' = [active |-> world, root |-> world]
        /\ stored' = IF storage THEN [stored EXCEPT !.theme = world] ELSE stored
        /\ shown' = [switcher |-> IF page = "builder" THEN world ELSE DefaultWorld,
                     picker |-> DefaultWorld]
  /\ UNCHANGED <<page, storage>>

WorldsNext ==
  \/ VisitBuilder \/ VisitAdvisor \/ VisitOther \/ ReloadDocument
  \/ \E world \in AllWorlds : HandleSelect(world) \/ PickWorld(world)
  \/ page = "builder" /\ \E step \in {1, Len(WorldIds) - 1} : ArrowKey(step)

WorldsSpec == WorldsInit /\ [][WorldsNext]_worldsVars
-----------------------------------------------------------------------------
\* On the builder page the switcher marks the world the document is styled in, and that is the
\* world of the session: three places agree after any route to the page.
SwitcherMarksTheTheme ==
  page = "builder" =>
    /\ shown.switcher = theme.active /\ theme.root = theme.active
    /\ SessionWorld(stored, remembered) = theme.active

\* docs/contracts/design_tokens.contract.md, Testing Surface: "set active world, reload, assert
\* persists", where the browser lets the page store anything.
ReloadKeepsTheWorld == [][storage /\ ReloadDocument => theme' = theme]_worldsVars
=============================================================================

------------------------------- MODULE WorkPages -------------------------------
(***************************************************************************)
(* The record pages of the control plane.  Each loads the instances, a     *)
(* list and one record, keeps its selection in the address and runs        *)
(* commands on what it shows.  They share the protocol of module           *)
(* RecordPage and differ in the traits below: what moves the selection,    *)
(* what a failed load leaves behind, and what a command does when its      *)
(* answer arrives.                                                         *)
(***************************************************************************)

\* A command: what it does to the records of the page on the server ("adds",
\* "ensures", "replaces", "edits", "removes" or "nothing"), whether its answer
\* selects the record in the address, what it writes into the page ("detail",
\* the "row" of the record, the whole "list"), and whether the page is loaded
\* anew.
Command(does, selects, writes, refreshes) ==
    [does |-> does, selects |-> selects, writes |-> writes, refreshes |-> refreshes]

Creates == Command("adds", TRUE, {}, TRUE)
Edits == Command("edits", FALSE, {}, TRUE)
Removes == Command("removes", FALSE, {}, TRUE)
Follows == Command("nothing", FALSE, {}, TRUE)

\* A page whose list answer moves the selection and whose failures clear the
\* record shown.
Page(commands) ==
    [selects |-> "answer",        \* what moves the selection into the list: the
                                  \* "answer" of the list, an "effect", or one
                                  \* that waits for a "loaded" list
     opens |-> TRUE,              \* opens the first instance when it has none
     follows |-> TRUE,            \* the list is loaded anew for a new selection
     clears |-> {"rows", "record", "detail"}, \* what failures clear: of the list
                                  \* its rows and the record, of the record itself
     idles |-> {"list", "detail"},  \* loads whose state ends with the scope
     commands |-> commands]

-----------------------------------------------------------------------------
(* Work items.                                                             *)

TaskCommands == {Creates, Edits, Follows}     \* create, update and move, remind
TasksPage == Page(TaskCommands)

ReminderCommands == {Creates, Edits}          \* create, update, snooze and close
RemindersPage == Page(ReminderCommands)

AutomationCommands == {Creates, Edits}        \* create, update, trigger
AutomationsPage == Page(AutomationCommands)

ChannelCommands == {Creates, Edits}
ChannelsPage == Page(ChannelCommands)

WorkspaceCommands == {Creates, Edits}         \* create, update, next action
WorkspacesPage == Page(WorkspaceCommands)

ArtifactCommands == {Creates, Edits}
ArtifactsPage == Page(ArtifactCommands)

\* The follow-ups of an item create a conversation and link it, or a task.
InboxCommands == {Creates, Edits, Follows}
InboxPage == Page(InboxCommands)

ConversationCommands == {Creates, Edits}      \* create, update, append
ConversationsPage == Page(ConversationCommands)

\* A notification command writes its answer into the page, whatever the page
\* shows by then, and does not load the record again.
NotificationSync == Command("edits", FALSE, {"detail"}, FALSE)
NotificationCommands == {Command("adds", TRUE, {"detail"}, TRUE), NotificationSync}
NotificationsPage == Page(NotificationCommands)

-----------------------------------------------------------------------------
(* Assistants and knowledge.                                               *)

ProfileCommands == {Creates, Edits, Follows}  \* create, update, evaluate
AssistantProfilesPage == Page(ProfileCommands)

SourceCommands == {Creates, Edits}
KnowledgeSourcesPage == Page(SourceCommands)

ContactCommands == {Creates, Edits}
ContactsPage == Page(ContactCommands)

PluginCommands == {Creates, Edits}            \* create, manifest, binding
PluginsPage == Page(PluginCommands)

\* The memory list is loaded once and picks with the selection it was asked
\* with; a correction selects the entry that replaces the corrected one.
MemoryCommands ==                             \* create; update and revoke; delete;
    {Creates, Edits, Removes,                 \* correct
     Command("replaces", TRUE, {}, TRUE)}
MemoryPage == [Page(MemoryCommands) EXCEPT !.follows = FALSE]

LearningCommands == {Creates, Edits}          \* create and scan, decide
LearningPage == [Page(LearningCommands) EXCEPT
                   !.follows = FALSE, !.clears = {}, !.idles = {}]

\* Restoring the operator, which others may have restored meanwhile, replaces
\* the list by the one of the answer and selects in it: the operator, unless
\* the page filters.
AgentRepair == Command("ensures", TRUE, {"list"}, FALSE)
AgentCommands ==
    {Command("adds", TRUE, {"detail", "row"}, TRUE),
     Command("edits", FALSE, {"detail", "row"}, TRUE), AgentRepair}
AgentsPage == [Page(AgentCommands) EXCEPT !.clears = {}, !.idles = {"detail"}]

\* The skills page moves its selection in an effect of its own, whenever the
\* list or the selection changes, and whether or not the list was loaded.
SkillCommands == {Creates, Edits, Follows}    \* create; update, activate,
                                              \* archive; record usage
SkillsPage == [Page(SkillCommands) EXCEPT
                 !.selects = "effect", !.follows = FALSE, !.clears = {},
                 !.idles = {}]

-----------------------------------------------------------------------------
(* Execution runs.  Every command is about the run shown; a restart makes  *)
(* a new run of it and selects that.                                       *)

ExecutionCommands ==            \* replay, pause, resume, interrupt, quarantine,
    {Edits, Command("replaces", TRUE, {}, TRUE)}      \* escalate; restart
ExecutionPage == [Page(ExecutionCommands) EXCEPT
                    !.selects = "loaded", !.opens = FALSE, !.follows = FALSE,
                    !.clears = {"rows", "detail"}]

PageNamed ==
    [execution |-> ExecutionPage,
     tasks |-> TasksPage, reminders |-> RemindersPage,
     automations |-> AutomationsPage, channels |-> ChannelsPage,
     workspaces |-> WorkspacesPage, artifacts |-> ArtifactsPage,
     inbox |-> InboxPage, conversations |-> ConversationsPage,
     notifications |-> NotificationsPage, profiles |-> AssistantProfilesPage,
     sources |-> KnowledgeSourcesPage, contacts |-> ContactsPage,
     plugins |-> PluginsPage, memory |-> MemoryPage,
     learning |-> LearningPage, agents |-> AgentsPage, skills |-> SkillsPage]
=============================================================================

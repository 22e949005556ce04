---------------------------- MODULE GoogleNodes -----------------------------
(***************************************************************************)
(* The Google Workspace nodes (nodes/google): forms, operations and        *)
(* triggers.  Their requests go through the generated SDK clients, which   *)
(* check status and body, over retryTransport, without any deadline.       *)
(***************************************************************************)
EXTENDS Calls

Sdk    == {"endless"}
Fetch  == Read(Sdk)
List   == Pages(Sdk)
Insert == Create(Sdk)
Update(params) == At(params, Set(Sdk))
Drop(params)   == At(params, Remove(Sdk))
Look(params) == <<Need(params), Fetch>>
Google(type, form, ops) == Node(type, "google", form, <<Cred>>, ops)

-----------------------------------------------------------------------------
(* Gmail                                                                   *)
GmailForm ==
    LET mails   == {"message:send", "message:reply", "draft:create", "draft:update"}
        fresh   == mails \ {"message:reply"}
        lists   == {"message:list", "thread:list", "draft:list"} IN
    { Field({"messageId"}, {"message:get", "message:modify", "message:reply"}),
      Field({"threadId"}, {"thread:get", "thread:modify"}),
      Field({"draftId"}, {"draft:get", "draft:update", "draft:delete"}),
      Field({"labelId"}, {"label:update", "label:delete"}),
      Field({"q"}, lists \cup {"trigger:newEmail"}),
      Field({"maxResults", "maxPages"}, lists),
      Field({"to", "subject", "body", "contentType"}, mails),
      Field({"cc", "bcc", "attachments"}, fresh),
      Field({"addLabelIds", "removeLabelIds"}, {"message:modify", "thread:modify"}),
      Field({"labelName", "labelListVisibility"}, {"label:create", "label:update"}),
      Field({"pollSeconds"}, {"trigger:newEmail"}) }

(* sendOrDraft: the recipient is asked for unless the mail is a reply or   *)
(* the update of a draft; building the MIME text may fail.                 *)
Compose(needsTo, send) == (IF needsTo THEN <<Need({"to"})>> ELSE <<>>) \o <<Parse, send>>

GmailMessages ==
    { Does({"message:list"}, <<List>>),
      Does({"message:get"}, Look({"messageId"})),
      Does({"message:send"}, Compose(TRUE, Insert)),
      Does({"message:reply"}, Look({"messageId"}) \o Compose(FALSE, Insert)),
      Does({"message:modify"}, <<Need({"messageId"}), Update({"messageId"})>>) }

GmailDrafts ==
    { Does({"draft:create"}, Compose(TRUE, Insert)),
      Does({"draft:update"}, <<Need({"draftId"})>> \o Compose(FALSE, Update({"draftId"}))),
      Does({"draft:delete"}, <<Need({"draftId"}), Drop({"draftId"})>>),
      Does({"draft:get"}, Look({"draftId"})),
      Does({"draft:list"}, <<List>>) }

GmailThreads ==
    { Does({"thread:get"}, Look({"threadId"})),
      Does({"thread:list"}, <<List>>),
      Does({"thread:modify"}, <<Need({"threadId"}), Update({"threadId"})>>) }

GmailLabels ==
    { Does({"label:list"}, <<Fetch>>),
      Does({"label:create"}, <<Need({"labelName"}), Insert>>),
      Does({"label:update"}, <<Need({"labelId"}), Update({"labelId"})>>),
      Does({"label:delete"}, <<Need({"labelId"}), Drop({"labelId"})>>) }

(* The first fifty messages, then each unseen one; one that cannot be read *)
(* is left out.                                                            *)
GmailTrigger ==
    { Does({"trigger:newEmail"}, <<Fetch, Read(Sdk \cup {"body", "status", "error"})>>) }

Gmail == Google("google.gmail", GmailForm,
                GmailMessages \cup GmailDrafts \cup GmailThreads \cup GmailLabels \cup GmailTrigger)

-----------------------------------------------------------------------------
(* Drive                                                                   *)
DriveForm ==
    LET onOne == {"file:get", "file:delete", "file:copy", "file:move"} IN
    { Field({"fileId"}, onOne \cup {"file:share", "file:download"}),
      Field({"q"}, {"file:list", "trigger:newFile"}),
      Field({"pageSize", "maxPages", "fields"}, {"file:list"}),
      Field({"name"}, {"folder:create", "file:copy", "file:createFromText", "file:upload"}),
      Field({"content", "mimeType"}, {"file:createFromText"}),
      Field({"folderId"}, {"folder:create", "file:copy", "file:move", "file:createFromText",
                           "file:upload", "trigger:newFile"}),
      Field({"email", "role"}, {"file:share"}),
      Field({"driveId"}, onOne \cup {"file:list", "folder:create", "file:upload"}),
      Field({"binaryProperty"}, {"file:upload", "file:download"}),
      Field({"pollSeconds"}, {"trigger:newFile"}) }

DriveFiles ==
    { Does({"file:get"}, Look({"fileId"})),
      Does({"file:delete"}, <<Need({"fileId"}), Drop({"fileId"})>>),
      Does({"folder:create"}, <<Need({"name"}), Insert>>),
      Does({"file:copy"}, <<Need({"fileId"}), Insert>>) }

DriveList == { Does({"file:list"}, <<List>>) }

(* The parents are read first, and those the file had then are removed.    *)
DriveMove == { Does({"file:move"}, <<Need({"fileId"}), Need({"folderId"}), Fetch,
                                    Update({"fileId"})>>) }

DriveShare == { Does({"file:share"}, <<Need({"fileId"}), Need({"email"}), Insert>>) }

DriveCreateFromText == { Does({"file:createFromText"}, <<Need({"name"}), Insert>>) }

(* The binary of the first item only.                                      *)
DriveUpload == { Does({"file:upload"}, <<Parse, Insert>>) }

DriveDownload == { Does({"file:download"}, Look({"fileId"}) \o <<Fetch>>) }

(* The first hundred files.                                                *)
DriveTrigger == { Does({"trigger:newFile"}, <<Fetch>>) }

Drive == Google("google.drive", DriveForm,
                DriveFiles \cup DriveList \cup DriveMove \cup DriveShare \cup DriveCreateFromText
                \cup DriveUpload \cup DriveDownload \cup DriveTrigger)

-----------------------------------------------------------------------------
(* Calendar                                                                *)
CalendarForm ==
    LET ofEvent == {"event:list", "event:get", "event:create", "event:update", "event:delete"} IN
    { Field({"calendarId"}, ofEvent \cup {"freebusy:query", "trigger:newEvent"}),
      Field({"eventId"}, {"event:get", "event:update", "event:delete"}),
      Field({"body"}, {"event:create", "event:update"}),
      Field({"q", "maxResults"}, {"event:list"}),
      Field({"maxPages"}, {"event:list", "calendar:list"}),
      Field({"timeMin", "timeMax"}, {"event:list", "freebusy:query", "trigger:newEvent"}),
      Field({"calendarIds"}, {"freebusy:query"}),
      Field({"pollSeconds"}, {"trigger:newEvent"}) }

CalendarEvents ==
    { Does({"calendar:list"}, <<List>>),
      Does({"event:get"}, Look({"eventId"})),
      Does({"event:create"}, <<Insert>>),
      Does({"event:update"}, <<Need({"eventId"}), Update({"eventId"})>>),
      Does({"event:delete"}, <<Need({"eventId"}), Drop({"eventId"})>>) }

CalendarList == { Does({"event:list"}, <<List>>) }

CalendarFreeBusy == { Does({"freebusy:query"}, <<Ask(Sdk)>>) }

CalendarTrigger == { Does({"trigger:newEvent"}, <<Fetch>>) }

Calendar == Google("google.calendar", CalendarForm,
                   CalendarEvents \cup CalendarList \cup CalendarFreeBusy \cup CalendarTrigger)

-----------------------------------------------------------------------------
(* Sheets                                                                  *)
SheetsForm ==
    LET ranged == {"values:get", "values:append", "values:update", "values:clear",
                   "values:toObjects", "values:deleteRows", "values:deleteColumns",
                   "trigger:rowAdded", "trigger:rowUpdated"} IN
    { Field({"spreadsheetId"}, ranged \cup {"spreadsheet:get", "spreadsheet:delete"}),
      Field({"range"}, ranged),
      Field({"body"}, {"spreadsheet:create", "values:append", "values:update"}),
      Field({"count"}, {"values:deleteRows", "values:deleteColumns"}),
      Field({"pollSeconds"}, {"trigger:rowAdded", "trigger:rowUpdated"}) }

(* A client and a plain request for what only Drive can delete.            *)
DeleteFile(id) == <<Need({id}), Cred, Drop({id})>>
(* The title inside the body.                                              *)
Titled == <<Need({"body"}), Parse, Insert>>
OnRange == {"spreadsheetId", "range"}
Ranged == <<Need({"spreadsheetId"}), Need({"range"})>>

SheetsOps ==
    { Does({"spreadsheet:get"}, Look({"spreadsheetId"})),
      Does({"spreadsheet:create"}, Titled),
      Does({"spreadsheet:delete"}, DeleteFile("spreadsheetId")),
      Does({"values:get", "values:toObjects"}, Ranged \o <<Fetch>>),
      Does({"values:append"}, Ranged \o <<Insert>>),
      Does({"values:update", "values:clear"}, Ranged \o <<Update(OnRange)>>) }

(* The sheet is looked up; a second deletion of row n deletes row n + 1.   *)
SheetsDelete == { Does({"values:deleteRows", "values:deleteColumns"},
                       Ranged \o <<Fetch, Carrying(Drop(OnRange))>>) }

SheetsTrigger == { Does({"trigger:rowAdded", "trigger:rowUpdated"}, Ranged \o <<Fetch>>) }

Sheets == Google("google.sheets", SheetsForm, SheetsOps \cup SheetsDelete \cup SheetsTrigger)

-----------------------------------------------------------------------------
(* Forms                                                                   *)
FormsForm ==
    { Field({"formId"}, {"form:get", "response:list", "response:get", "trigger:newResponse"}),
      Field({"responseId"}, {"response:get"}),
      Field({"q"}, {"form:list"}),
      Field({"pageSize", "maxPages"}, {"form:list", "response:list"}),
      Field({"pollSeconds"}, {"trigger:newResponse"}) }

FormsOps ==
    { Does({"form:get"}, Look({"formId"})),
      Does({"response:list"}, <<Need({"formId"}), List>>),
      Does({"response:get"}, <<Need({"formId"}), Need({"responseId"}), Fetch>>) }

(* The status of the answer is not looked at: an error is an empty list.   *)
FormsList == { Does({"form:list"}, <<Cred, Pages(Sdk \cup {"status"})>>) }

(* The first hundred responses.                                            *)
FormsTrigger == { Does({"trigger:newResponse"}, Look({"formId"})) }

Forms == Google("google.forms", FormsForm, FormsOps \cup FormsList \cup FormsTrigger)

-----------------------------------------------------------------------------
(* Tasks: the updates and deletions need the list, which their form lacks. *)
TasksForm ==
    { Field({"tasklistId"}, {"tasklist:delete", "task:list", "task:create"}),
      Field({"taskId"}, {"task:update", "task:delete"}),
      Field({"body"}, {"tasklist:create", "task:create", "task:update"}),
      Field({"maxResults", "maxPages"}, {"tasklist:list", "task:list"}),
      Field({"showCompleted", "dueMin", "dueMax"}, {"task:list"}),
      Field({"showHidden"}, {"tasklist:list"}) }

TasksOps ==
    { Does({"tasklist:list"}, <<List>>),
      Does({"tasklist:create"}, Titled),
      Does({"tasklist:delete"}, <<Need({"tasklistId"}), Drop({"tasklistId"})>>),
      Does({"task:list"}, <<Need({"tasklistId"}), List>>),
      Does({"task:create"}, <<Need({"tasklistId"}), Parse, Insert>>),
      Does({"task:update"}, <<Need({"tasklistId"}), Need({"taskId"}), Parse,
                               Update({"tasklistId", "taskId"})>>),
      Does({"task:delete"}, <<Need({"tasklistId"}), Need({"taskId"}), Drop({"tasklistId", "taskId"})>>) }

Tasks == Google("google.tasks", TasksForm, TasksOps)

-----------------------------------------------------------------------------
(* Contacts                                                                *)
ContactsForm ==
    LET ofOne == {"contact:get", "contact:update"} IN
    { Field({"contactId"}, ofOne \cup {"contact:delete"}),
      Field({"body"}, {"contact:create", "contact:update"}),
      Field({"personFields"}, ofOne \cup {"contact:list", "contact:create"}),
      Field({"pageSize", "maxPages"}, {"contact:list"}) }

ContactsOps ==
    { Does({"contact:list"}, <<List>>),
      Does({"contact:get"}, Look({"contactId"})),
      Does({"contact:create"}, <<Parse, Insert>>),
      Does({"contact:update"}, <<Need({"contactId"}), Parse, Update({"contactId"})>>),
      Does({"contact:delete"}, <<Need({"contactId"}), Drop({"contactId"})>>) }

Contacts == Google("google.contacts", ContactsForm, ContactsOps)

-----------------------------------------------------------------------------
(* Chat                                                                    *)
ChatForm ==
    { Field({"spaceName"}, {"space:get", "member:list", "message:send"}),
      Field({"text"}, {"message:send"}),
      Field({"pageSize", "maxPages"}, {"space:list", "member:list"}) }

ChatOps ==
    { Does({"space:list"}, <<List>>),
      Does({"space:get"}, Look({"spaceName"})),
      Does({"member:list"}, <<Need({"spaceName"}), List>>),
      Does({"message:send"}, <<Need({"spaceName"}), Need({"text"}), Insert>>) }

Chat == Google("google.chat", ChatForm, ChatOps)

-----------------------------------------------------------------------------
(* Docs                                                                    *)
DocsForm ==
    { Field({"documentId"}, {"document:get", "document:update", "document:delete"}),
      Field({"body"}, {"document:create", "document:update"}) }

(* The answer to an update is expected to carry a write control: the node  *)
(* fails without one, after the update.                                    *)
DocsOps ==
    { Does({"document:get"}, Look({"documentId"})),
      Does({"document:create"}, Titled),
      Does({"document:update"},
           <<Need({"documentId"}), Need({"body"}), Parse, Update({"documentId"}), Parse>>),
      Does({"document:delete"}, DeleteFile("documentId")) }

Docs == Google("google.docs", DocsForm, DocsOps)

-----------------------------------------------------------------------------
(* Slides                                                                  *)
SlidesForm ==
    LET ofOne == {"presentation:get", "presentation:update", "presentation:getThumbnail"} IN
    { Field({"presentationId"}, ofOne),
      Field({"pageObjectId"}, {"presentation:getThumbnail"}),
      Field({"body"}, {"presentation:create", "presentation:update"}) }

SlidesOps ==
    { Does({"presentation:get"}, Look({"presentationId"})),
      Does({"presentation:create"}, Titled),
      Does({"presentation:update"},
           <<Need({"presentationId"}), Need({"body"}), Parse, Update({"presentationId"})>>),
      Does({"presentation:getThumbnail"},
           <<Need({"presentationId"}), Need({"pageObjectId"}), Fetch>>) }

Slides == Google("google.slides", SlidesForm, SlidesOps)

-----------------------------------------------------------------------------
GooglePlans == Gmail \cup Drive \cup Calendar \cup Sheets \cup Forms \cup Tasks \cup Contacts
               \cup Chat \cup Docs \cup Slides
=============================================================================

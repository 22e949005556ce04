---------------------------- MODULE ServiceNodes ----------------------------
(***************************************************************************)
(* The nodes for services that are written by hand on a plain client:      *)
(* Telegram, Twilio, Jira, Trello, Mailchimp, Dropbox and Box.  Most look  *)
(* at no parameter before they put it into the address.                    *)
(***************************************************************************)
EXTENDS Calls

Service(type, form, ops) == Node(type, "once", form, <<Cred>>, ops)

-----------------------------------------------------------------------------
TelegramForm ==
    LET onOne == {"message:edit", "message:delete", "message:pin"} IN
    { Field({"chatId"}, onOne \cup {"message:send", "chat:get"}),
      Field({"text", "parseMode"}, {"message:send", "message:edit"}),
      Field({"messageId"}, onOne),
      Field({"offset", "limit"}, {"chat:getUpdates"}) }

(* The answer is decoded and its flag is looked at, for every method.      *)
TelegramCall(step) == <<At({"chatId"}, step)>>
TelegramOne(step)  == <<At({"chatId", "messageId"}, step)>>

TelegramOps ==
    { Does({"message:send"}, TelegramCall(Create({}))),
      Does({"message:edit", "message:pin"}, TelegramOne(Set({}))),
      Does({"message:delete"}, TelegramOne(Remove({}))),
      Does({"chat:get"}, TelegramCall(Ask({}))),
      Does({"chat:getUpdates"}, <<Ask({})>>) }

Telegram == Service("comm.telegram", TelegramForm, TelegramOps)

-----------------------------------------------------------------------------
TwilioForm ==
    { Field({"from", "to", "body"}, {"message:sendSms", "message:sendWhatsapp"}),
      Field({"limit"}, {"message:list", "call:list"}) }

TwilioPost == <<Create(Blind)>>
TwilioGet  == <<Read(Blind)>>

Twilio == Service("comm.twilio", TwilioForm,
    { Does({"message:sendSms", "message:sendWhatsapp"}, TwilioPost),
      Does({"message:list", "call:list"}, TwilioGet) })

-----------------------------------------------------------------------------
JiraForm ==
    { Field({"issueKey"}, {"issue:get", "issue:update", "issue:delete"}),
      Field({"jql", "maxResults"}, {"issue:list"}),
      Field({"body"}, {"issue:create", "issue:update"}),
      Field({"projectKey"}, {"project:get"}) }

(* An unreadable answer is the result {"raw": ...}.                        *)
JiraCall(step, params) == <<At(params, step)>>

JiraOps ==
    { Does({"issue:list", "project:list"}, JiraCall(Read(Blind), {})),
      Does({"issue:get"}, JiraCall(Read(Blind), {"issueKey"})),
      Does({"issue:create"}, JiraCall(Create(Blind), {})),
      Does({"issue:update"}, JiraCall(Set(Blind), {"issueKey"})),
      Does({"issue:delete"}, JiraCall(Remove(Blind), {"issueKey"})),
      Does({"project:get"}, JiraCall(Read(Blind), {"projectKey"})) }

Jira == Service("productivity.jira", JiraForm, JiraOps)

-----------------------------------------------------------------------------
TrelloForm ==
    { Field({"cardId"}, {"card:get", "card:update", "card:delete"}),
      Field({"listId"}, {"card:list", "card:create"}),
      Field({"boardId"}, {"board:get", "list:list"}),
      Field({"name", "desc"}, {"card:create", "card:update"}) }

TrelloDoReq(step, params) == <<At(params, step)>>

TrelloOps ==
    { Does({"card:list"}, TrelloDoReq(Read(Blind), {"listId"})),
      Does({"card:get"}, TrelloDoReq(Read(Blind), {"cardId"})),
      Does({"card:create"}, TrelloDoReq(Create(Blind), {"listId"})),
      Does({"card:update"}, TrelloDoReq(Set(Blind), {"cardId"})),
      Does({"card:delete"}, TrelloDoReq(Remove(Blind), {"cardId"})),
      Does({"board:list"}, TrelloDoReq(Read(Blind), {})),
      Does({"board:get", "list:list"}, TrelloDoReq(Read(Blind), {"boardId"})) }

Trello == Service("productivity.trello", TrelloForm, TrelloOps)

-----------------------------------------------------------------------------
(* Mailchimp: the form of member:upsert lacks the hash of the subscriber.  *)
MailchimpForm ==
    { Field({"listId"}, {"member:list", "member:get", "member:upsert", "member:delete"}),
      Field({"subscriberHash"}, {"member:get", "member:delete"}),
      Field({"body"}, {"member:upsert"}),
      Field({"count"}, {"member:list", "member:get", "member:upsert", "member:delete",
                        "list:list", "campaign:list"}) }

MailchimpCall(step, params) == <<At(params, step)>>

MailchimpOps ==
    { Does({"member:list"}, MailchimpCall(Read(Blind), {"listId"})),
      Does({"member:get"}, MailchimpCall(Read(Blind), {"listId", "subscriberHash"})),
      Does({"member:upsert"}, MailchimpCall(Set(Blind), {"listId", "subscriberHash"})),
      Does({"member:delete"}, MailchimpCall(Remove(Blind), {"listId", "subscriberHash"})),
      Does({"list:list", "campaign:list"}, MailchimpCall(Read(Blind), {})) }

Mailchimp == Service("crm.mailchimp", MailchimpForm, MailchimpOps)

-----------------------------------------------------------------------------
(* Dropbox: move and copy need the source path, which their form lacks.    *)
DropboxForm ==
    { Field({"path"}, {"list", "download", "delete", "share", "trigger:newFile"}),
      Field({"toPath"}, {"move", "copy"}),
      Field({"uploadPath", "content"}, {"upload"}),
      Field({"recursive", "limit"}, {"list"}) }

(* The one page of a listing has to be readable; other answers need not.   *)
DropboxList         == <<Ask({})>>
DropboxUpload       == <<Need({"uploadPath"}), Create(Blind)>>
DropboxDownload     == <<Need({"path"}), Bare(Ask(Blind))>>
DropboxDelete       == <<Need({"path"}), At({"path"}, Expunge)>>
DropboxMove         == <<Need({"path", "toPath"}), At({"path"}, Amend)>>
DropboxCopy         == <<Need({"path", "toPath"}), Create(Blind)>>
DropboxShare        == <<Need({"path"}), Create(Blind)>>
(* The cursor is written to a state that may not be there.                 *)
DropboxTriggerNewFile == <<Ask({}), Parse>>

Dropbox == Service("storage.dropbox", DropboxForm,
    { Does({"list"}, DropboxList),         Does({"upload"}, DropboxUpload),
      Does({"download"}, DropboxDownload), Does({"delete"}, DropboxDelete),
      Does({"move"}, DropboxMove),         Does({"copy"}, DropboxCopy),
      Does({"share"}, DropboxShare),
      Does({"trigger:newFile"}, DropboxTriggerNewFile) })

-----------------------------------------------------------------------------
BoxForm ==
    LET onFile == {"download", "delete", "move", "copy", "share"} IN
    { Field({"folderId"}, {"list", "upload", "trigger:newFile"}),
      Field({"fileId"}, onFile),
      Field({"toFolderId"}, {"move", "copy"}),
      Field({"fileName", "content"}, {"upload"}),
      Field({"limit"}, {"list"}) }

BoxList     == <<Read({})>>
BoxUpload   == <<Need({"fileName"}), Create(Blind)>>
BoxDownload == <<Need({"fileId"}), Read(Blind)>>
(* A file that is gone counts as deleted.                                  *)
BoxDelete   == <<Need({"fileId"}), At({"fileId"}, Delete)>>
BoxMove     == <<Need({"fileId", "toFolderId"}), At({"fileId"}, Put)>>
BoxCopy     == <<Need({"fileId", "toFolderId"}), Create(Blind)>>
BoxShare    == <<Need({"fileId"}), At({"fileId"}, Put)>>
BoxTriggerNewFile == <<Read({}), Parse>>

Box == Service("storage.box", BoxForm,
    { Does({"list"}, BoxList),         Does({"upload"}, BoxUpload),
      Does({"download"}, BoxDownload), Does({"delete"}, BoxDelete),
      Does({"move"}, BoxMove),         Does({"copy"}, BoxCopy),
      Does({"share"}, BoxShare),
      Does({"trigger:newFile"}, BoxTriggerNewFile) })

ServicePlans == UNION {Telegram, Twilio, Jira, Trello, Mailchimp, Dropbox, Box}
=============================================================================

------------------------------ MODULE MCNodes -------------------------------
(***************************************************************************)
(* The operations that break a rule of NodeCall, named one by one, and the *)
(* small inputs of the list and file nodes.                                *)
(***************************************************************************)
EXTENDS Nodes, Registry

Of(type, ops) == {type} \X ops
All(types) == types \X {"*"}

(* The form lacks a field the code needs.                                  *)
MCUnusable == Of("payments.paypal", {"payment:authorization"})
    \cup Of("google.tasks", {"task:update", "task:delete"})
    \cup Of("crm.mailchimp", {"member:upsert"})
    \cup Of("storage.dropbox", {"move", "copy"})
    \cup Of("database.redis", {"set", "hset"})
    \cup Of("core.ssh", {"upload"})

(* The document is already changed when its answer is looked at.           *)
MCLateCheck == Of("google.docs", {"document:update"})

(* A success although the write was refused, lost or never sent.           *)
MCCareless == All({"azure.mssql", "protocols.mqtt", "protocols.amqp", "protocols.kafka",
                   "protocols.nats", "protocols.grpc", "protocols.soap"})
    \cup Of("protocols.graphql", {"mutation"})
    \cup Of("comm.slack", {"message:send", "message:update", "message:delete"})
    \cup Of("crm.zoho", {"lead:create", "contact:create", "account:create", "deal:create",
                         "lead:update", "lead:delete", "contact:update", "account:update",
                         "deal:update"})
    \cup Of("protocols.websocket", {"connect", "send"})
    \cup Of("core.http", {"POST", "PUT", "PATCH", "DELETE"})
    \cup Of("core.executeCommand", {"run"})
    \cup Of("core.ssh", {"exec"})
    \cup Of("core.ftp", {"sftp:upload", "ftp:upload"})

(* What is changed or removed need not be named.                           *)
MCUnaimed == Of("comm.telegram", {"message:edit", "message:delete", "message:pin"})
    \cup Of("productivity.jira", {"issue:update", "issue:delete"})
    \cup Of("productivity.trello", {"card:update", "card:delete"})
    \cup Of("crm.mailchimp", {"member:upsert", "member:delete"})
    \cup Of("database.mongodb", {"updateOne", "updateMany", "deleteOne", "deleteMany"})
    \cup Of("database.supabase", {"update", "delete"})
    \cup Of("ai.pinecone", {"vector:upsert", "vector:delete"})
    \cup Of("ai.qdrant", {"vector:upsert", "vector:delete"})
    \cup Of("core.ssh", {"upload"})
    \cup Of("core.ftp", {"sftp:upload", "sftp:delete", "ftp:upload", "ftp:delete"})
    \cup Of("comm.slack", {"message:update", "message:delete"})
    \cup Of("crm.sendgrid", {"contact:upsert", "contact:delete"})
    \cup Of("accounting.quickbooks", {"invoice:update", "customer:update"})
    \cup Of("microsoft.graph", {"raw:patch", "raw:put", "raw:delete"})

(* A body that has been read cannot be sent again by google.retryTransport.*)
MCUnrepeatable == {"google"}

(* No deadline on the request.                                             *)
MCEndless == All({"google.gmail", "google.drive", "google.calendar", "google.sheets", "google.forms",
                  "google.tasks", "google.contacts", "google.chat", "google.docs", "google.slides"})
    \cup All({"database.postgres", "database.mysql", "database.snowflake", "protocols.websocket",
              "core.ftp", "core.ssh", "core.readEmail", "core.sendEmail"})

(* A read that fails when its answer is cut, refused or unreadable.        *)
MCStrict == Of("database.postgres", {"query:many"}) \cup Of("database.mysql", {"query:many"})
    \cup Of("database.snowflake", {"query:many"}) \cup Of("database.mongodb", {"find", "findOne"})
    \cup Of("comm.telegram", {"chat:get", "chat:getUpdates"}) \cup Of("storage.dropbox", {"list"})
    \cup Of("storage.box", {"list"}) \cup Of("core.ftp", {"sftp:list"})
    \cup Of("core.ssh", {"list", "download"}) \cup All({"ai"})

Two  == [isNum |-> TRUE, num |-> 2, rank |-> 3]
Ten  == [isNum |-> TRUE, num |-> 10, rank |-> 1]
OneX == [isNum |-> FALSE, num |-> 0, rank |-> 2]
MCAbsent == [isNum |-> FALSE, num |-> 0, rank |-> 9]
MCRows == {<<>>, [a |-> Two], [a |-> Ten, b |-> Two], [a |-> OneX], [a |-> Two, b |-> OneX]}

MCColumns    == <<"age", "col0", "col1", "col2", "name">>
MCPositional == <<"col0", "col1", "col2">>
MCDigits     == <<"0", "1", "2", "3", "4", "5", "6", "7", "8", "9">>
=============================================================================

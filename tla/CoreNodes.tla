----------------------------- MODULE CoreNodes ------------------------------
(***************************************************************************)
(* The core nodes (nodes/core) that reach outside the server, and those    *)
(* that work on each item by itself.  The plain http node returns whatever *)
(* status it gets; ftp, ssh, imap, pop3 and smtp set no deadline once      *)
(* connected.                                                              *)
(***************************************************************************)
EXTENDS Calls

(* An answer of which only the transport is checked.                       *)
Unread == {"body", "status"}

-----------------------------------------------------------------------------
(* http: any status is a result.                                           *)
httpForm == { Field({"url", "headers", "body"}, {"GET", "POST", "PUT", "PATCH", "DELETE"}) }
httpNode == Node("core.http", "once", httpForm, <<Need({"url"}), Parse>>,
    { Does({"GET"}, <<Read(Unread)>>),   Does({"POST"}, <<Create(Unread)>>),
      Does({"PUT", "PATCH"}, <<At({"url"}, Set(Unread))>>),
      Does({"DELETE"}, <<At({"url"}, Remove(Unread))>>) })

(* Feed: the status is not looked at, but what is no feed is an error.     *)
rssRead == Node("core.rssRead", "once", { Field({"url", "limit"}, {"read"}) }, <<>>,
    { Does({"read"}, <<Need({"url"}), Read({}), Parse>>) })

(* smtp.SendMail.                                                          *)
sendEmail == Node("core.sendEmail", "once",
    { Field({"host", "port", "from", "to", "subject", "body"}, {"send"}) }, <<>>,
    { Does({"send"}, <<Need({"host"}), Need({"to"}), Forever(Create({}))>>) })

(* A command that is stopped at its deadline keeps what it did; its exit   *)
(* code is a result.                                                       *)
executeCommand == Node("core.executeCommand", "once", { Field({"command", "timeout"}, {"run"}) }, <<>>,
    { Does({"run"}, <<Need({"command"}), Create({"status"})>>) })

(* The access token is exchanged for a signed assertion.                   *)
fetchFCMAccessToken == <<Parse, Ask({})>>
pushNotification == Node("core.pushNotification", "once",
    { Field({"deviceToken", "title", "body", "data"}, {"send"}) }, <<>>,
    { Does({"send"}, <<Need({"deviceToken"}), Cred>> \o fetchFCMAccessToken \o <<Create(Blind)>>) })

-----------------------------------------------------------------------------
(* FTP and SFTP.  The end of a transfer is not looked at; the file to send *)
(* is read from the item once connected; the remote path is not asked for. *)
ftpForm == { Field({"host", "user", "password", "remotePath", "binaryProperty"},
                   {"sftp:list", "sftp:upload", "sftp:download", "sftp:delete",
                    "ftp:list", "ftp:upload", "ftp:download", "ftp:delete"}) }
ftpLogin == <<Need({"host", "user"}), Forever(Dial({}))>>
onPath(step) == At({"remotePath"}, Forever(step))

handleSFTP ==
    { Does({"sftp:list"}, <<onPath(Read({}))>>),
      Does({"sftp:upload"}, <<Parse, onPath(Set({"status"}))>>),
      Does({"sftp:download"}, <<onPath(Read({"status"}))>>),
      Does({"sftp:delete"}, <<onPath(Remove({}))>>) }
handleFTP ==
    { Does({"ftp:list", "ftp:download"}, <<onPath(Read(Trusted))>>),
      Does({"ftp:upload"}, <<Parse, onPath(Set(Trusted))>>),
      Does({"ftp:delete"}, <<onPath(Remove({}))>>) }
ftpNode == Node("core.ftp", "once", ftpForm, ftpLogin, handleSFTP \cup handleFTP)

(* SSH: the path is no field of the form of an upload.                     *)
sshForm == { Field({"host", "user", "password"}, {"exec", "list", "upload", "download"}),
             Field({"command"}, {"exec"}), Field({"remotePath"}, {"list", "download"}),
             Field({"binaryProperty"}, {"upload", "download"}) }
sshExec      == <<Forever(Create({"status"}))>>
sshListFiles == <<onPath(Read({}))>>
sshUpload    == <<Parse, onPath(Set({}))>>
sshDownload  == <<onPath(Read({}))>>
sshNode == Node("core.ssh", "once", sshForm, <<Need({"host", "user"}), Forever(Dial({}))>>,
    { Does({"exec"}, sshExec), Does({"list"}, sshListFiles),
      Does({"upload"}, sshUpload), Does({"download"}, sshDownload) })

(* Mail: an IMAP server that refuses a FETCH is an empty mailbox; a POP3   *)
(* server that refuses is waited for.                                      *)
imapForm == { Field({"host", "user", "password", "messageId"},
                    {"imap:list", "imap:read", "pop3:list", "pop3:read"}),
              Field({"mailbox", "filter"}, {"imap:list", "imap:read"}) }
handleIMAP == { Does({"imap:list"}, <<Forever(Read({"status"}))>>),
                Does({"imap:read"}, <<Need({"messageId"}), Forever(Read({"status"}))>>) }
handlePOP3 == { Does({"pop3:list"}, <<Forever(Read({}))>>),
                Does({"pop3:read"}, <<Need({"messageId"}), Forever(Read({}))>>) }
imapNode == Node("core.readEmail", "once", imapForm,
    <<Need({"host", "user", "password"}), Forever(Dial({}))>>, handleIMAP \cup handlePOP3)

-----------------------------------------------------------------------------
(* The nodes that transform each item by itself: one item that cannot be   *)
(* transformed fails the node.                                             *)
OnEach(type) == Node(type, "once", {}, <<>>, { PerItem({"items"}, 1, <<Parse>>) })

compression     == OnEach("core.compression")
jsonTransform   == OnEach("core.json")
crypto          == OnEach("core.crypto")
dateTime        == OnEach("core.dateTime")
extractFile     == OnEach("core.extractFile")
extractFromFile == OnEach("core.extractFromFile")
editImage       == OnEach("core.editImage")

CorePlans == UNION {httpNode, rssRead, sendEmail, executeCommand, pushNotification, ftpNode, sshNode,
                    imapNode, compression, jsonTransform, crypto, dateTime, extractFile,
                    extractFromFile, editImage}
=============================================================================

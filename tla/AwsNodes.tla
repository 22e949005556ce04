------------------------------ MODULE AwsNodes ------------------------------
(***************************************************************************)
(* The AWS nodes (nodes/aws): one signed request of the plain client per   *)
(* operation; and the SQL Server node (nodes/azure), which has no driver.  *)
(***************************************************************************)
EXTENDS Calls

(* The access key, the secret and the region.                              *)
makeSigner == <<Cred>>

(* A signed request; an answer that is not JSON is returned as it is.      *)
awsDo(step)    == [step EXCEPT !.lax = Blind]
sesQuery(step) == [step EXCEPT !.lax = Blind]

S3Form ==
    LET onObject == {"upload", "download", "delete", "presignedURL"} IN
    { Field({"bucket"}, onObject \cup {"listObjects"}), Field({"key"}, onObject),
      Field({"prefix", "maxKeys"}, {"listObjects"}),
      Field({"binaryProperty"}, {"upload", "download"}), Field({"expires"}, {"presignedURL"}) }

S3 == Node("aws.s3", "once", S3Form, makeSigner,
    { Does({"list"}, <<awsDo(Get)>>),
      Does({"listObjects"}, <<Need({"bucket"}), awsDo(Get)>>),
      Does({"upload"}, <<Need({"bucket", "key"}), Parse,
                            At({"bucket", "key"}, awsDo(Put))>>),
      Does({"download"}, <<Need({"bucket", "key"}), awsDo(Get)>>),
      Does({"delete"}, <<Need({"bucket", "key"}), At({"bucket", "key"}, awsDo(Delete))>>),
      Does({"presignedURL"}, <<Need({"bucket", "key"})>>) })

(* The kind of invocation is not sent: a dry run invokes the function.     *)
LambdaForm == { Field({"functionName", "payload", "qualifier", "invocationType"}, {"invoke"}) }
Lambda == Node("aws.lambda", "once", LambdaForm, makeSigner,
    { Does({"invoke"}, <<Need({"functionName"}), awsDo(Post)>>),
      Does({"list"}, <<awsDo(Get)>>) })

(* Receiving hides the messages for the time of their visibility.          *)
SQSForm ==
    { Field({"queueURL"}, {"send", "receive", "delete"}), Field({"messageBody"}, {"send"}),
      Field({"maxMessages", "visibilityTimeout", "waitTimeSeconds"}, {"receive"}),
      Field({"receiptHandle"}, {"delete"}) }
SQS == Node("aws.sqs", "once", SQSForm, makeSigner,
    { Does({"listQueues"}, <<sesQuery(Query)>>),
      Does({"send"}, <<Need({"queueURL", "messageBody"}), sesQuery(Post)>>),
      Does({"receive"}, <<Need({"queueURL"}), sesQuery(Take({}))>>),
      Does({"delete"}, <<Need({"queueURL", "receiptHandle"}),
                         At({"queueURL", "receiptHandle"}, sesQuery(Delete))>>) })

DynamoForm ==
    { Field({"tableName"}, {"get", "put", "update", "delete", "query", "scan"}),
      Field({"key"}, {"get", "delete"}), Field({"item"}, {"put"}),
      Field({"updateKey", "updateExpression", "expressionAttributeNames",
             "expressionAttributeValues"}, {"update"}),
      Field({"keyConditionExpression", "expressionValues"}, {"query"}),
      Field({"filterExpression", "limit"}, {"query", "scan"}) }

dynamoDo(step) == awsDo(step)

DynamoDB == Node("aws.dynamodb", "once", DynamoForm, makeSigner,
    { Does({"listTables"}, <<dynamoDo(Query)>>),
      Does({"get"}, <<Need({"tableName", "key"}), dynamoDo(Query)>>),
      Does({"put"}, <<Need({"tableName", "item"}), At({"tableName", "item"}, dynamoDo(Put))>>),
      Does({"update"}, <<Need({"tableName", "updateKey", "updateExpression"}),
                         At({"tableName", "updateKey"}, dynamoDo(Patch))>>),
      Does({"delete"}, <<Need({"tableName", "key"}), At({"tableName", "key"}, dynamoDo(Delete))>>),
      Does({"query"}, <<Need({"tableName", "keyConditionExpression"}), dynamoDo(Query)>>),
      Does({"scan"}, <<Need({"tableName"}), dynamoDo(Query)>>) })

SESForm ==
    { Field({"from", "to", "subject", "bodyHtml", "bodyText", "cc", "bcc"}, {"send", "sendTemplate"}),
      Field({"templateName", "templateData"}, {"sendTemplate"}) }

(* A template is not sent: both are the same mail.                         *)
sesSend == <<Need({"from", "to"}), Create(Blind)>>

SES == Node("aws.ses", "once", SESForm, makeSigner,
    { Does({"send", "sendTemplate"}, sesSend),
      Does({"listIdentities", "getSendStatistics"}, <<sesQuery(Query)>>) })

-----------------------------------------------------------------------------
(* Every operation reports that the driver is missing, as a result.        *)
MSSQLForm ==
    { Field({"query"}, {"query:many", "query:one", "exec"}),
      Field({"procedureName"}, {"storedProcedure:exec"}) }
MSSQL == Node("azure.mssql", "once", MSSQLForm, <<Cred>>,
    { Does({"query:many", "query:one", "exec", "storedProcedure:exec"}, <<Claim>>) })

AwsPlans == UNION {S3, Lambda, SQS, DynamoDB, SES, MSSQL}
=============================================================================

------------------------------ MODULE CloudNodes ------------------------------
(***************************************************************************)
(* The declarative nodes for Adobe, Azure and Microsoft 365, in the same   *)
(* form as SaasNodes.                                                      *)
(***************************************************************************)
EXTENDS Calls

AEMAssets ==
    Rest("adobe.aemAssets", "oauth2", {
      Op(Post, {}, {"binaryProperty", "body"}, {"asset:upload"}),
      Op(Get, {"assetId"}, {}, {"asset:get"}),
      Op(Put, {"assetId"}, {"body"}, {"asset:updateMetadata"}),
      Op(Delete, {"assetId"}, {}, {"asset:delete"}),
      Op(Get, {"assetId"}, {"outputProperty"}, {"asset:getRendition"}),
      Op(Get, {}, {}, {"asset:list", "folder:list"}),
      Op(Post, {}, {"body"}, {"folder:create"})})

AdobeAnalytics ==
    Rest("adobe.analytics", "oauth2", {
      Op(Query, {}, {"rsid", "body"}, {"report:run"}),
      Op(Get, {}, {"rsid"}, {"report:topItems", "segment:list", "metric:list",
         "dimension:list"}),
      Op(Get, {"segmentId"}, {"rsid"}, {"segment:get"}),
      Op(Get, {"dimensionId"}, {"rsid"}, {"dimension:getItems"})})

AdobeCommerce ==
    Rest("adobe.commerce", "header", {
      Op(Get, {}, {"pageSize", "searchCriteria"}, {"customer:list", "product:list",
         "order:list", "invoice:list"}),
      Op(Get, {"customerId"}, {}, {"customer:get"}),
      Op(Post, {}, {"body"}, {"customer:create", "product:create", "order:create",
         "invoice:create"}),
      Op(Put, {"customerId"}, {"body"}, {"customer:update"}),
      Op(Get, {"sku"}, {}, {"product:get"}),
      Op(Put, {"sku"}, {"body"}, {"product:update"}),
      Op(Get, {"orderId"}, {}, {"order:get"}),
      Op(Amend, {"orderId"}, {}, {"order:cancel"}),
      Op(Get, {"invoiceId"}, {}, {"invoice:get"}),
      Op(Get, {}, {}, {"store:list", "store:config"})})

Firefly ==
    Rest("adobe.firefly", "oauth2", {
      Op(Post, {}, {"body", "outputProperty"}, {"image:generate", "image:fill",
         "image:expand", "image:upscale"})})

Lightroom ==
    Rest("adobe.lightroom", "oauth2", {
      Op(Put, {"catalogId", "assetId"}, {"body"}, {"image:autoTone"}),
      Op(Put, {"catalogId", "assetId"}, {"body", "outputProperty"}, {"image:applyPreset",
         "image:edit"}),
      Op(Get, {"catalogId", "assetId"}, {}, {"image:getRendition", "asset:get"}),
      Op(Get, {"catalogId"}, {}, {"asset:list"}),
      Op(Post, {"catalogId"}, {"binaryProperty", "body"}, {"asset:upload"})})

PDFServices ==
    Rest("adobe.pdfServices", "oauth2", {
      Op(Post, {}, {"body", "binaryProperty"}, {"pdf:create", "pdf:export", "pdf:ocr",
         "pdf:compress"}),
      Op(Post, {}, {"body"}, {"pdf:combine", "pdf:split", "pdf:extract",
         "pdf:documentGeneration"}),
      Op(Get, {"jobId"}, {}, {"job:getStatus"}),
      Op(Get, {"assetId"}, {"outputProperty"}, {"job:download"})})

Photoshop ==
    Rest("adobe.photoshop", "oauth2", {
      Op(Post, {}, {"body", "binaryProperty", "outputProperty"}, {"image:applyEdits",
         "image:smartObject", "image:runAction", "image:createRendition"}),
      Op(Get, {"jobId"}, {}, {"job:getStatus"}),
      Op(Get, {}, {"body"}, {"job:getDocumentManifest"})})

AcrobatSign ==
    Rest("adobe.acrobatSign", "header", {
      Op(Get, {}, {}, {"agreement:list", "libraryDocument:list", "webhook:list"}),
      Op(Get, {"agreementId"}, {}, {"agreement:get", "agreement:getDocuments",
         "agreement:signingUrls", "agreement:getEvents"}),
      Op(Post, {}, {"body"}, {"agreement:create", "webhook:create"}),
      Op(Amend, {"agreementId"}, {"body"}, {"agreement:send"}),
      Op(Put, {"agreementId"}, {"body"}, {"agreement:cancel"}),
      Op(Post, {"agreementId"}, {"email", "message", "body"}, {"reminder:send"}),
      Op(Get, {"libraryDocId"}, {}, {"libraryDocument:get"})})

Stock ==
    Rest("adobe.stock", "oauth2", {
      Op(Get, {}, {"body"}, {"asset:search"}),
      Op(Get, {"assetId"}, {}, {"asset:get"}),
      Op(Post, {}, {"assetId", "body"}, {"asset:license"}),
      Op(Get, {"licenseId"}, {"binaryProperty"}, {"asset:download"}),
      Op(Get, {}, {}, {"license:list", "collection:list"}),
      Op(Get, {"licenseId"}, {}, {"license:get"})})

BlobStorage ==
    Rest("azure.blobStorage", "none", {
      Op(Get, {}, {"maxResults"}, {"container:list"}),
      Op(Put, {"container"}, {}, {"container:create"}),
      Op(Delete, {"container"}, {}, {"container:delete"}),
      Op(Get, {"container"}, {"maxResults"}, {"blob:list"}),
      Op(Put, {"container", "blob"}, {"binaryProperty", "body"}, {"blob:upload"}),
      Op(Get, {"container", "blob"}, {"outputProperty"}, {"blob:download"}),
      Op(Delete, {"container", "blob"}, {}, {"blob:delete"}),
      Op(Put, {"container", "blob"}, {"sourceBlob"}, {"blob:copy"})})

CosmosDB ==
    Rest("azure.cosmos", "none", {
      Op(Get, {}, {"maxResults"}, {"database:list"}),
      Op(Get, {"databaseId"}, {}, {"database:get", "container:list"}),
      Op(Post, {}, {"body"}, {"database:create"}),
      Op(Delete, {"databaseId"}, {}, {"database:delete"}),
      Op(Post, {"databaseId"}, {"body"}, {"container:create"}),
      Op(Delete, {"databaseId", "containerId"}, {}, {"container:delete"}),
      Op(Get, {"databaseId", "containerId", "itemId"}, {"partitionKey"}, {"item:get"}),
      Op(Post, {"databaseId", "containerId"}, {"body"}, {"item:create"}),
      Op(Put, {"databaseId", "containerId", "itemId"}, {"body"}, {"item:update"}),
      Op(Delete, {"databaseId", "containerId", "itemId"}, {"partitionKey"},
         {"item:delete"}),
      Op(Query, {"databaseId", "containerId"}, {"query", "maxResults", "continuationToken",
         "body"}, {"item:query"})})

DevOps ==
    Rest("azure.devops", "header", {
      Op(Query, {"project"}, {"body"}, {"workItem:list"}),
      Op(Get, {"project", "workItemId"}, {}, {"workItem:get"}),
      Op(Post, {"project", "type"}, {"body"}, {"workItem:create"}),
      Op(Patch, {"project", "workItemId"}, {"body"}, {"workItem:update"}),
      Op(Delete, {"project", "workItemId"}, {}, {"workItem:delete"}),
      Op(Get, {"project"}, {}, {"pipeline:list", "repo:list", "pullRequest:list"}),
      Op(Get, {"project", "pipelineId"}, {}, {"pipeline:get"}),
      Op(Post, {"project", "pipelineId"}, {"branch", "body"}, {"pipeline:run"}),
      Op(Get, {"project", "repositoryId"}, {}, {"repo:get"}),
      Op(Get, {"project", "repositoryId", "pullRequestId"}, {}, {"pullRequest:get"}),
      Op(Post, {"project", "repositoryId"}, {"body"}, {"pullRequest:create"})})

AzureOpenAI ==
    Rest("azure.openai", "header", {
      Op(Query, {"deployment"}, {"apiVersion", "body"}, {"completion:create",
         "chat:completion", "embedding:create", "image:generate", "audio:transcribe",
         "audio:translate"})})

PowerBI ==
    Rest("azure.powerbi", "oauth2", {
      Op(Get, {}, {}, {"dataset:list", "report:list", "dashboard:list", "group:list"}),
      Op(Get, {"datasetId"}, {}, {"dataset:get"}),
      Op(Post, {"datasetId", "tableName"}, {"body"}, {"dataset:pushRows"}),
      Op(Post, {"datasetId"}, {}, {"dataset:refresh"}),
      Op(Get, {"reportId"}, {}, {"report:get"}),
      Op(Get, {"dashboardId"}, {}, {"dashboard:get"})})

OutlookCalendar ==
    Rest("microsoft.outlookCalendar", "oauth2", {
      Op(Get, {}, {"timeMin", "timeMax"}, {"event:list"}),
      Op(Get, {"eventId"}, {}, {"event:get"}),
      Op(Post, {}, {"body"}, {"event:create"}),
      Op(Patch, {"eventId"}, {"body"}, {"event:update"}),
      Op(Delete, {"eventId"}, {}, {"event:delete"}),
      Op(Get, {}, {}, {"calendar:list"}),
      Op(Get, {"calendarId"}, {}, {"calendar:get"}),
      Op(Get, {"calendarId"}, {"timeMin", "timeMax"}, {"calendar:listEvents"}),
      Op(Query, {}, {"schedules", "timeMin", "timeMax", "interval", "body"},
         {"freebusy:query"})})

Excel ==
    Rest("microsoft.excel", "oauth2", {
      Op(Get, {"itemId"}, {}, {"worksheet:list", "table:list"}),
      Op(Get, {"itemId", "worksheetId"}, {}, {"worksheet:get", "worksheet:usedRange"}),
      Op(Post, {"itemId"}, {"body"}, {"worksheet:create"}),
      Op(Delete, {"itemId", "worksheetId"}, {}, {"worksheet:delete"}),
      Op(Get, {"itemId", "worksheetId", "address"}, {}, {"range:get"}),
      Op(Patch, {"itemId", "worksheetId", "address"}, {"body"}, {"range:update"}),
      Op(Amend, {"itemId", "worksheetId", "address"}, {}, {"range:clear"}),
      Op(Post, {"itemId"}, {"address", "body"}, {"table:create"}),
      Op(Post, {"itemId", "tableId"}, {"body"}, {"table:addRow"}),
      Op(Get, {"itemId", "tableId"}, {}, {"table:getRows"}),
      Op(Post, {"itemId"}, {}, {"session:create"}),
      Op(Amend, {"itemId"}, {}, {"session:refresh", "session:close"}),
      Op(Post, {"parentId"}, {"name", "createEmpty", "body"}, {"workbook:create"})})

(* The address is the base URL: without it, the one of the node.           *)
Graph ==
    LET raw == {"rawUrl"} IN
    Rest("microsoft.graph", "oauth2", {
      Op(At(raw, Get), {}, raw, {"raw:get"}),
      Op(At(raw, Post), {}, raw \cup {"body"}, {"raw:post"}),
      Op(At(raw, Patch), {}, raw \cup {"body"}, {"raw:patch"}),
      Op(At(raw, Put), {}, raw \cup {"body"}, {"raw:put"}),
      Op(At(raw, Delete), {}, raw, {"raw:delete"})})

OneDrive ==
    Rest("microsoft.onedrive", "oauth2", {
      Op(Get, {}, {}, {"item:listRoot", "item:recent", "item:sharedWithMe"}),
      Op(Get, {"q"}, {}, {"item:search"}),
      Op(Get, {"itemId"}, {}, {"item:get", "item:listChildren", "permission:list"}),
      Op(Delete, {"itemId"}, {}, {"item:delete"}),
      Op(Post, {}, {"name", "parentId", "body"}, {"folder:create"}),
      Op(Post, {"parentId"}, {"name", "body"}, {"folder:createInFolder"}),
      Op(Put, {"parentId", "name"}, {"binaryProperty", "body"}, {"item:upload"}),
      Op(Get, {"itemId"}, {"binaryProperty"}, {"item:download"}),
      Op(Post, {"itemId"}, {"targetId", "name", "body"}, {"item:copy"}),
      Op(Patch, {"itemId"}, {"targetId", "body"}, {"item:move"}),
      Op(Post, {"itemId"}, {"email", "role", "body"}, {"item:share"}),
      Op(Post, {"itemId"}, {"role", "body"}, {"item:createLink"}),
      Op(Delete, {"itemId", "permissionId"}, {}, {"permission:delete"})})

OneNote ==
    Rest("microsoft.onenote", "oauth2", {
      Op(Get, {}, {}, {"notebook:list"}),
      Op(Get, {"notebookId"}, {}, {"notebook:get", "section:list"}),
      Op(Post, {}, {"title", "body"}, {"notebook:create"}),
      Op(Get, {"sectionId"}, {}, {"section:get", "page:list"}),
      Op(Post, {"notebookId"}, {"title", "body"}, {"section:create"}),
      Op(Get, {"pageId"}, {}, {"page:get"}),
      Op(Post, {"sectionId"}, {"title", "contentType", "body"}, {"page:create"}),
      Op(Delete, {"pageId"}, {}, {"page:delete"})})

Outlook ==
    Rest("microsoft.outlook", "oauth2", {
      Op(Get, {}, {"q"}, {"message:list"}),
      Op(Get, {"messageId"}, {}, {"message:get", "attachment:list"}),
      Op(Post, {}, {"to", "subject", "content", "contentType", "cc", "attachments",
         "saveToSentItems", "body"}, {"message:send"}),
      Op(Delete, {"messageId"}, {}, {"message:delete", "draft:delete"}),
      Op(Post, {"messageId"}, {"content", "contentType", "body"}, {"message:reply",
         "message:replyAll"}),
      Op(Amend, {"messageId"}, {"folderId", "body"}, {"message:move"}),
      Op(Post, {"messageId"}, {"to", "content", "contentType", "body"},
         {"message:forward"}),
      Op(Get, {}, {}, {"draft:list", "folder:list"}),
      Op(Post, {}, {"to", "subject", "content", "contentType", "cc", "attachments", "body"},
         {"draft:create"}),
      Op(Patch, {"messageId"}, {"body"}, {"draft:update"}),
      Op(Get, {"messageId", "attachmentId"}, {}, {"attachment:get"}),
      Op(Post, {"messageId"}, {"attachmentName", "body"}, {"attachment:add"}),
      Op(Delete, {"messageId", "attachmentId"}, {}, {"attachment:delete"}),
      Op(Get, {"folderId"}, {}, {"folder:listChildren", "folder:get"}),
      Op(Post, {}, {"name"}, {"folder:create"}),
      Op(Patch, {"folderId"}, {"name"}, {"folder:update"}),
      Op(Delete, {"folderId"}, {}, {"folder:delete"})})

SharePoint ==
    Rest("microsoft.sharepoint", "oauth2", {
      Op(Get, {"siteId"}, {}, {"site:get", "list:list", "drive:list"}),
      Op(Get, {"siteId", "sitePath"}, {}, {"site:getByPath"}),
      Op(Get, {}, {}, {"site:listRoot", "site:listAll"}),
      Op(Get, {}, {"q"}, {"site:search"}),
      Op(Get, {"siteId", "listId"}, {}, {"list:get", "listItem:list"}),
      Op(Post, {"siteId"}, {"displayName", "description", "body"}, {"list:create"}),
      Op(Patch, {"siteId", "listId"}, {"displayName", "body"}, {"list:update"}),
      Op(Delete, {"siteId", "listId"}, {}, {"list:delete"}),
      Op(Get, {"siteId", "listId", "itemId"}, {}, {"listItem:get"}),
      Op(Post, {"siteId", "listId"}, {"body"}, {"listItem:create"}),
      Op(Patch, {"siteId", "listId", "itemId"}, {"body"}, {"listItem:update"}),
      Op(Delete, {"siteId", "listId", "itemId"}, {}, {"listItem:delete"}),
      Op(Get, {"siteId", "driveId"}, {}, {"drive:get", "drive:listRoot"})})

Teams ==
    Rest("microsoft.teams", "oauth2", {
      Op(Get, {}, {}, {"team:listJoined", "chat:list"}),
      Op(Get, {"teamId"}, {}, {"team:get", "team:listMembers", "channel:list"}),
      Op(Get, {"teamId", "channelId"}, {}, {"channel:get", "channelMessage:list"}),
      Op(Post, {"teamId"}, {"displayName", "description", "body"}, {"channel:create"}),
      Op(Patch, {"teamId", "channelId"}, {"displayName", "body"}, {"channel:update"}),
      Op(Delete, {"teamId", "channelId"}, {}, {"channel:delete"}),
      Op(Get, {"teamId", "channelId", "messageId"}, {}, {"channelMessage:get"}),
      Op(Post, {"teamId", "channelId"}, {"body"}, {"channelMessage:send"}),
      Op(Post, {"teamId", "channelId", "messageId"}, {"body"}, {"channelMessage:reply"}),
      Op(Get, {"chatId"}, {}, {"chat:listMessages"}),
      Op(Post, {"chatId"}, {"body"}, {"chat:sendMessage"})})

ToDo ==
    Rest("microsoft.todo", "oauth2", {
      Op(Get, {}, {}, {"list:list"}),
      Op(Get, {"listId"}, {}, {"list:get", "task:list"}),
      Op(Post, {}, {"displayName", "body"}, {"list:create"}),
      Op(Patch, {"listId"}, {"displayName", "body"}, {"list:update"}),
      Op(Delete, {"listId"}, {}, {"list:delete"}),
      Op(Get, {"listId", "taskId"}, {}, {"task:get"}),
      Op(Post, {"listId"}, {"title", "importance", "status", "dueDateTime",
         "reminderDateTime", "notes", "body"}, {"task:create"}),
      Op(Patch, {"listId", "taskId"}, {"title", "status", "dueDateTime", "importance",
         "body"}, {"task:update"}),
      Op(Delete, {"listId", "taskId"}, {}, {"task:delete"})})

CloudPlans == UNION {AEMAssets, AdobeAnalytics, AdobeCommerce, Firefly, Lightroom,
    PDFServices, Photoshop, AcrobatSign, Stock, BlobStorage, CosmosDB, DevOps,
    AzureOpenAI, PowerBI, OutlookCalendar, Excel, Graph, OneDrive, OneNote, Outlook,
    SharePoint, Teams, ToDo}
=============================================================================

------------------------------ MODULE SaasNodes ------------------------------
(***************************************************************************)
(* The declarative nodes for accounting, chat, shops, customers, code,     *)
(* marketing, payments and productivity: one table per node, which lists   *)
(* request, path parameters, other fields and operations.                  *)
(***************************************************************************)
EXTENDS Calls

QuickBooks ==
    Rest("accounting.quickbooks", "oauth2", {
      Op(Get, {"companyId"}, {"limit"}, {"invoice:list", "customer:list", "expense:list"}),
      Op(Get, {"companyId", "invoiceId"}, {}, {"invoice:get"}),
      Op(Post, {"companyId"}, {"body"}, {"invoice:create", "customer:create",
         "expense:create"}),
      Op(At({"body"}, Amend), {"companyId"}, {"body"}, {"invoice:update",
         "customer:update"}),
      Op(Get, {"companyId"}, {}, {"report:profitLoss", "report:balanceSheet"})})

Xero ==
    Rest("accounting.xero", "oauth2", {
      Op(Get, {}, {}, {"invoice:list", "contact:list", "bankTransaction:list",
         "report:profitLoss", "report:balanceSheet", "account:list"}),
      Op(Get, {"invoiceId"}, {}, {"invoice:get"}),
      Op(Post, {}, {"body"}, {"invoice:create", "contact:create",
         "bankTransaction:create"}),
      Op(Amend, {"invoiceId"}, {"body"}, {"invoice:update"}),
      Op(Amend, {"contactId"}, {"body"}, {"contact:update"})})

(* Slack refuses with the status 200.  The fields for channel, text and    *)
(* timestamp are not sent: the message is named in the body.               *)
Slack ==
    Rest("comm.slack", "header", {
      Op(InBody(Post), {}, {"channel", "text", "body"}, {"message:send"}),
      Op(InBody(At({"body"}, Amend)), {}, {"channel", "ts", "text", "body"},
         {"message:update"}),
      Op(InBody(At({"body"}, Expunge)), {}, {"channel", "ts", "body"}, {"message:delete"}),
      Op(InBody(Get), {}, {"channel", "limit"}, {"message:list"}),
      Op(InBody(Get), {}, {"limit"}, {"channel:list", "user:list"}),
      Op(InBody(Get), {}, {"channel"}, {"channel:get", "file:list"})})

Discord ==
    Rest("comm.discord", "header", {
      Op(Post, {"channelId"}, {"body"}, {"message:send"}),
      Op(Get, {"channelId", "messageId"}, {}, {"message:get"}),
      Op(Get, {"channelId"}, {"limit"}, {"message:list"}),
      Op(Delete, {"channelId", "messageId"}, {}, {"message:delete"}),
      Op(Get, {"channelId"}, {}, {"channel:get"}),
      Op(Get, {"guildId"}, {}, {"guild:get", "guild:listChannels"}),
      Op(Get, {"guildId"}, {"limit"}, {"guild:listMembers"})})

Shopify ==
    Rest("commerce.shopify", "header", {
      Op(Get, {}, {"limit"}, {"product:list", "order:list", "customer:list"}),
      Op(Get, {"productId"}, {}, {"product:get"}),
      Op(Post, {}, {"body"}, {"product:create", "customer:create", "draftOrder:create"}),
      Op(Put, {"productId"}, {"body"}, {"product:update"}),
      Op(Delete, {"productId"}, {}, {"product:delete"}),
      Op(Get, {"orderId"}, {}, {"order:get"}),
      Op(Put, {"orderId"}, {"body"}, {"order:update"}),
      Op(Put, {"customerId"}, {"body"}, {"customer:update"}),
      Op(Get, {}, {}, {"inventory:list"})})

WooCommerce ==
    Rest("commerce.woocommerce", "header", {
      Op(Get, {}, {"per_page"}, {"product:list", "order:list", "customer:list",
         "coupon:list"}),
      Op(Post, {}, {"body"}, {"product:create", "customer:create", "coupon:create"}),
      Op(Put, {"productId"}, {"body"}, {"product:update"}),
      Op(Delete, {"productId"}, {}, {"product:delete"}),
      Op(Get, {"orderId"}, {}, {"order:get"}),
      Op(Put, {"orderId"}, {"body"}, {"order:update"}),
      Op(Put, {"customerId"}, {"body"}, {"customer:update"}),
      Op(Get, {}, {}, {"report:sales", "report:orders"})})

HubSpot ==
    Rest("crm.hubspot", "header", {
      Op(Get, {}, {"limit"}, {"contact:list", "company:list", "deal:list"}),
      Op(Get, {"contactId"}, {}, {"contact:get"}),
      Op(Post, {}, {"body"}, {"contact:create", "company:create", "deal:create"}),
      Op(Patch, {"contactId"}, {"body"}, {"contact:update"}),
      Op(Delete, {"contactId"}, {}, {"contact:delete"}),
      Op(Query, {}, {"filterBody"}, {"contact:search"}),
      Op(Get, {"companyId"}, {}, {"company:get"}),
      Op(Patch, {"companyId"}, {"body"}, {"company:update"}),
      Op(Get, {"dealId"}, {}, {"deal:get"}),
      Op(Patch, {"dealId"}, {"body"}, {"deal:update"})})

(* The contact to delete is named in the query, those to change are in the *)
(* body.                                                                   *)
SendGrid ==
    Rest("crm.sendgrid", "header", {
      Op(Post, {}, {"body"}, {"email:send"}),
      Op(Query, {}, {"body"}, {"contact:search"}),
      Op(At({"body"}, Put), {}, {"body"}, {"contact:upsert"}),
      Op(At({"contactId"}, Delete), {}, {"contactId"}, {"contact:delete"}),
      Op(Get, {}, {}, {"list:list"}),
      Op(Get, {"listId"}, {}, {"list:get"})})

Pipedrive ==
    Rest("crm.pipedrive", "header", {
      Op(Get, {}, {"limit", "filter_id"}, {"person:list", "deal:list"}),
      Op(Get, {"personId"}, {}, {"person:get"}),
      Op(Post, {}, {"body"}, {"person:create", "deal:create"}),
      Op(Put, {"personId"}, {"body"}, {"person:update"}),
      Op(Delete, {"personId"}, {}, {"person:delete"}),
      Op(Get, {"dealId"}, {}, {"deal:get"}),
      Op(Put, {"dealId"}, {"body"}, {"deal:update"}),
      Op(Get, {}, {"limit"}, {"organization:list"}),
      Op(Get, {"orgId"}, {}, {"organization:get"})})

Intercom ==
    Rest("crm.intercom", "header", {
      Op(Get, {}, {"limit"}, {"contact:list", "conversation:list", "company:list"}),
      Op(Post, {}, {"body"}, {"contact:create", "company:create"}),
      Op(Put, {"contactId"}, {"body"}, {"contact:update"}),
      Op(Delete, {"contactId"}, {}, {"contact:delete"}),
      Op(Get, {"conversationId"}, {}, {"conversation:get"}),
      Op(Post, {"conversationId"}, {"body"}, {"conversation:reply"}),
      Op(Amend, {"conversationId"}, {"body"}, {"conversation:close"})})

Salesforce ==
    Rest("crm.salesforce", "oauth2", {
      Op(Get, {}, {"limit"}, {"account:list", "contact:list", "lead:list",
         "opportunity:list"}),
      Op(Post, {}, {"body"}, {"account:create", "contact:create", "lead:create"}),
      Op(Patch, {"accountId"}, {"body"}, {"account:update"}),
      Op(Delete, {"accountId"}, {}, {"account:delete"}),
      Op(Patch, {"contactId"}, {"body"}, {"contact:update"}),
      Op(Get, {}, {"query"}, {"query:execute"}),
      Op(Get, {"objectName"}, {}, {"sobject:describe"})})

(* Zoho tells for each record in the body whether it was refused.          *)
ZohoCRM ==
    Rest("crm.zoho", "oauth2", {
      Op(Get, {}, {"limit"}, {"lead:list", "contact:list", "account:list", "deal:list"}),
      Op(InBody(Post), {}, {"body"}, {"lead:create", "contact:create", "account:create",
         "deal:create"}),
      Op(InBody(Put), {"leadId"}, {"body"}, {"lead:update"}),
      Op(InBody(Delete), {"leadId"}, {}, {"lead:delete"}),
      Op(InBody(Put), {"contactId"}, {"body"}, {"contact:update"}),
      Op(InBody(Put), {"accountId"}, {"body"}, {"account:update"}),
      Op(InBody(Put), {"dealId"}, {"body"}, {"deal:update"})})

GitHub ==
    Rest("dev.github", "header", {
      Op(Get, {}, {"per_page"}, {"repo:list"}),
      Op(Get, {"owner", "repo"}, {}, {"repo:get", "release:list", "release:latest"}),
      Op(Get, {"owner", "repo"}, {"per_page"}, {"issue:list", "pull:list"}),
      Op(Get, {"owner", "repo", "issueNumber"}, {}, {"issue:get"}),
      Op(Post, {"owner", "repo"}, {"body"}, {"issue:create", "pull:create"}),
      Op(Patch, {"owner", "repo", "issueNumber"}, {"body"}, {"issue:update"}),
      Op(Get, {"owner", "repo", "prNumber"}, {}, {"pull:get"}),
      Op(Get, {"owner", "repo", "path"}, {"ref"}, {"file:get"}),
      Op(Put, {"owner", "repo", "path"}, {"body"}, {"file:createOrUpdate"}),
      Op(Get, {"owner", "repo"}, {"ref", "per_page"}, {"commit:list"})})

GitLab ==
    Rest("dev.gitlab", "header", {
      Op(Get, {}, {"per_page"}, {"project:list"}),
      Op(Get, {"projectId"}, {}, {"project:get", "pipeline:list"}),
      Op(Get, {"projectId"}, {"per_page"}, {"issue:list", "mergeRequest:list",
         "commit:list"}),
      Op(Get, {"projectId", "issueIid"}, {}, {"issue:get"}),
      Op(Post, {"projectId"}, {"body"}, {"issue:create", "mergeRequest:create"}),
      Op(Put, {"projectId", "issueIid"}, {"body"}, {"issue:update"}),
      Op(Get, {"projectId", "mrIid"}, {}, {"mergeRequest:get"})})

Sentry ==
    Rest("dev.sentry", "header", {
      Op(Get, {}, {}, {"organization:list"}),
      Op(Get, {"orgSlug"}, {}, {"project:list"}),
      Op(Get, {"orgSlug", "projectSlug"}, {"limit"}, {"issue:list", "event:listProject"}),
      Op(Get, {"issueId"}, {}, {"issue:get", "event:list"}),
      Op(Put, {"issueId"}, {"body"}, {"issue:update"}),
      Op(Delete, {"issueId"}, {}, {"issue:delete"})})

ActiveCampaign ==
    Rest("marketing.activecampaign", "header", {
      Op(Get, {}, {"limit"}, {"contact:list", "list:list", "automation:list",
         "campaign:list"}),
      Op(Post, {}, {"body"}, {"contact:create", "list:create", "campaign:create"}),
      Op(Put, {"contactId"}, {"body"}, {"contact:update"}),
      Op(Delete, {"contactId"}, {}, {"contact:delete"}),
      Op(Post, {"automationId"}, {"body"}, {"automation:trigger"}),
      Op(Post, {"campaignId"}, {}, {"message:send"})})

Brevo ==
    Rest("marketing.brevo", "header", {
      Op(Get, {}, {"limit"}, {"contact:list", "campaign:list", "list:list"}),
      Op(Post, {}, {"body"}, {"contact:create", "email:send", "campaign:create",
         "list:create"}),
      Op(Put, {"contactId"}, {"body"}, {"contact:update"}),
      Op(Delete, {"contactId"}, {}, {"contact:delete"}),
      Op(Post, {}, {"templateId", "body"}, {"email:sendTemplate"}),
      Op(Post, {"campaignId"}, {}, {"campaign:send"})})

CustomerIO ==
    Rest("marketing.customerio", "header", {
      Op(Get, {}, {"limit"}, {"customer:list", "campaign:list", "message:list"}),
      Op(Put, {"customerId"}, {"body"}, {"customer:create"}),
      Op(Delete, {"customerId"}, {}, {"customer:delete"}),
      Op(Post, {"customerId"}, {"body"}, {"event:track"}),
      Op(Post, {"campaignId"}, {"body"}, {"campaign:trigger"})})

Stripe ==
    Rest("payments.stripe", "header", {
      Op(Get, {}, {"limit"}, {"customer:list", "charge:list", "paymentIntent:list",
         "subscription:list", "payout:list"}),
      Op(Get, {"customerId"}, {}, {"customer:get"}),
      Op(Post, {}, {"body"}, {"customer:create", "paymentIntent:create"}),
      Op(Amend, {"customerId"}, {"body"}, {"customer:update"}),
      Op(Delete, {"customerId"}, {}, {"customer:delete"}),
      Op(Get, {"chargeId"}, {}, {"charge:get"}),
      Op(Get, {"paymentIntentId"}, {}, {"paymentIntent:get"}),
      Op(Amend, {"paymentIntentId"}, {}, {"paymentIntent:cancel"}),
      Op(Get, {"subscriptionId"}, {}, {"subscription:get"}),
      Op(Delete, {"subscriptionId"}, {}, {"subscription:cancel"}),
      Op(Get, {}, {}, {"balance:get"})})

PayPal ==
    Rest("payments.paypal", "oauth2", {
      Op(Post, {}, {"body"}, {"order:create", "webhook:create", "invoice:create"}),
      Op(Get, {"orderId"}, {}, {"order:get"}),
      Op(Amend, {"orderId"}, {"body"}, {"order:capture"}),
      Op(Get, {"paymentId"}, {}, {"payment:get"}),
      Short(Get, {"paymentId"}, {"authorizationId"}, {"payment:authorization"}),
      Op(Amend, {"paymentId"}, {"body"}, {"payment:captureAuth"}),
      Op(Post, {"paymentId"}, {"body"}, {"refund:create"}),
      Op(Get, {"refundId"}, {}, {"refund:get"}),
      Op(Get, {}, {}, {"webhook:list", "invoice:list"})})

Square ==
    Rest("payments.square", "header", {
      Op(Post, {}, {"body"}, {"payment:create", "order:create", "customer:create",
         "refund:create"}),
      Op(Get, {"paymentId"}, {}, {"payment:get"}),
      Op(Get, {}, {}, {"payment:list", "customer:list", "location:list"}),
      Op(Get, {"orderId"}, {}, {"order:get"}),
      Op(Put, {"orderId"}, {"body"}, {"order:update"}),
      Op(Put, {"customerId"}, {"body"}, {"customer:update"}),
      Op(Get, {"refundId"}, {}, {"refund:get"})})

Notion ==
    Rest("productivity.notion", "header", {
      Op(Get, {"pageId"}, {}, {"page:get"}),
      Op(Post, {}, {"body"}, {"page:create"}),
      Op(Patch, {"pageId"}, {"body"}, {"page:update"}),
      Op(Get, {"databaseId"}, {}, {"database:get"}),
      Op(Query, {"databaseId"}, {"filter", "pageSize"}, {"database:query"}),
      Op(Get, {"blockId"}, {}, {"block:listChildren"}),
      Op(Patch, {"blockId"}, {"body"}, {"block:appendChildren"}),
      Op(Get, {}, {}, {"user:list"}),
      Op(Query, {}, {"body"}, {"search:search"})})

Airtable ==
    Rest("productivity.airtable", "header", {
      Op(Get, {"baseId", "tableId"}, {"filterByFormula", "maxRecords"}, {"record:list"}),
      Op(Get, {"baseId", "tableId", "recordId"}, {}, {"record:get"}),
      Op(Post, {"baseId", "tableId"}, {"body"}, {"record:create"}),
      Op(Patch, {"baseId", "tableId", "recordId"}, {"body"}, {"record:update"}),
      Op(Delete, {"baseId", "tableId", "recordId"}, {}, {"record:delete"})})

Linear ==
    Rest("productivity.linear", "header", {
      Op(Get, {}, {"first"}, {"issue:list"}),
      Op(Get, {"issueId"}, {}, {"issue:get"}),
      Op(Post, {}, {"body"}, {"issue:create"}),
      Op(Patch, {"issueId"}, {"body"}, {"issue:update"}),
      Op(Delete, {"issueId"}, {}, {"issue:delete"}),
      Op(Get, {}, {}, {"team:list"}),
      Op(Get, {"teamId"}, {}, {"team:get"})})

Todoist ==
    Rest("productivity.todoist", "header", {
      Op(Get, {}, {"projectId"}, {"task:list"}),
      Op(Get, {"taskId"}, {}, {"task:get"}),
      Op(Post, {}, {"body"}, {"task:create", "project:create"}),
      Op(Amend, {"taskId"}, {"body"}, {"task:update"}),
      Op(Amend, {"taskId"}, {}, {"task:close"}),
      Op(Delete, {"taskId"}, {}, {"task:delete"}),
      Op(Get, {}, {}, {"project:list"}),
      Op(Get, {"projectId"}, {}, {"project:get"})})

Asana ==
    Rest("productivity.asana", "header", {
      Op(Get, {}, {"projectGid", "limit"}, {"task:list"}),
      Op(Get, {"taskGid"}, {}, {"task:get"}),
      Op(Post, {}, {"body"}, {"task:create"}),
      Op(Put, {"taskGid"}, {"body"}, {"task:update"}),
      Op(Delete, {"taskGid"}, {}, {"task:delete"}),
      Op(Get, {}, {"workspaceGid", "limit"}, {"project:list"}),
      Op(Get, {"projectGid"}, {}, {"project:get"}),
      Op(Get, {}, {}, {"workspace:list"})})

ClickUp ==
    Rest("productivity.clickup", "header", {
      Op(Get, {"listId"}, {}, {"task:list", "list:get"}),
      Op(Get, {"taskId"}, {}, {"task:get"}),
      Op(Post, {"listId"}, {"body"}, {"task:create"}),
      Op(Put, {"taskId"}, {"body"}, {"task:update"}),
      Op(Delete, {"taskId"}, {}, {"task:delete"}),
      Op(Get, {"spaceId"}, {}, {"space:listLists"})})

SaasPlans == UNION {QuickBooks, Xero, Slack, Discord, Shopify, WooCommerce, HubSpot,
    SendGrid, Pipedrive, Intercom, Salesforce, ZohoCRM, GitHub, GitLab, Sentry,
    ActiveCampaign, Brevo, CustomerIO, Stripe, PayPal, Square, Notion, Airtable, Linear,
    Todoist, Asana, ClickUp}
=============================================================================

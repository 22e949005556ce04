--------------------------- MODULE ProtocolNodes ----------------------------
(***************************************************************************)
(* The protocol nodes (nodes/protocols).  GraphQL, gRPC and SOAP are one   *)
(* request of the plain client.  MQTT, AMQP, Kafka and NATS connect to the *)
(* broker and report what they have not done; a connection that fails is a *)
(* result of the node, not an error.                                       *)
(***************************************************************************)
EXTENDS Calls

(* A node that tells a failed connection by its result.                    *)
Connect(params) == <<Need(params), Quitting(Dial({}))>>

-----------------------------------------------------------------------------
(* A GraphQL service refuses in the body of an answer that is no error.    *)
GraphQLForm == { Field({"endpoint", "query", "variables", "operationName", "headers"},
                       {"query", "mutation"}) }
GraphQL == Node("protocols.graphql", "once", GraphQLForm, <<Need({"endpoint", "query"}), Parse>>,
    { Does({"query"}, <<Ask({"status"})>>), Does({"mutation"}, <<Create({"status"})>>) })

(* The four kinds of call are one request.                                 *)
GRPCCalls == {"unary", "serverStream", "clientStream", "bidirectionalStream"}
GRPCForm ==
    { Field({"address", "service", "method", "metadata", "deadline", "tls"}, GRPCCalls),
      Field({"body"}, GRPCCalls \ {"clientStream"}),
      Field({"streamBody"}, {"clientStream", "bidirectionalStream"}) }
GRPC == Node("protocols.grpc", "once", GRPCForm, <<Need({"address", "service", "method"})>>,
    { Does(GRPCCalls, <<Quitting(Create({}))>>) })

(* An error status is an item of the error output.                         *)
SOAPForm ==
    { Field({"endpoint", "soapAction", "soapVersion", "envelopeBody"}, {"call", "callWithHeaders"}),
      Field({"wsSecurity"}, {"callWithHeaders"}) }
SOAP == Node("protocols.soap", "once", SOAPForm, <<Need({"endpoint", "envelopeBody"}), Parse>>,
    { Does({"call", "callWithHeaders"}, <<Create(Trusted)>>) })

-----------------------------------------------------------------------------
MQTTForm == { Field({"broker", "topic", "qos", "clientId"}, {"publish", "subscribe"}),
              Field({"payload"}, {"publish"}) }
MQTT == Node("protocols.mqtt", "once", MQTTForm, Connect({"broker", "topic"}),
    { Does({"publish", "subscribe"}, <<Claim>>) })

AMQPForm == { Field({"host", "exchange", "routingKey"}, {"publish", "consume"}),
              Field({"queue"}, {"consume"}), Field({"payload"}, {"publish"}) }
AMQP == Node("protocols.amqp", "once", AMQPForm, Connect({"host", "exchange"}),
    { Does({"publish", "consume"}, <<Claim>>) })

KafkaForm == { Field({"brokers", "topic", "partition"}, {"produce", "consume"}),
               Field({"key", "payload"}, {"produce"}),
               Field({"groupId", "maxMessages"}, {"consume"}) }
Kafka == Node("protocols.kafka", "once", KafkaForm, Connect({"brokers", "topic"}),
    { Does({"produce", "consume"}, <<Claim>>) })

NATSForm == { Field({"servers", "subject", "jetstream"}, {"publish", "request", "subscribe"}),
              Field({"payload"}, {"publish", "request"}),
              Field({"replyTimeout"}, {"request"}),
              Field({"queueGroup", "maxMessages"}, {"subscribe"}) }
NATS == Node("protocols.nats", "once", NATSForm, Connect({"servers", "subject"}),
    { Does({"publish", "request", "subscribe"}, <<Claim>>) })

-----------------------------------------------------------------------------
(* WebSocket: the handshake has no deadline, a frame that is read has one  *)
(* that every ping of the server renews, and a frame that is written is    *)
(* not confirmed.                                                          *)
WebSocketForm ==
    { Field({"url", "messageType", "subprotocol", "headers"}, {"connect", "send", "receive"}),
      Field({"message"}, {"connect", "send"}),
      Field({"reconnect", "maxMessages"}, {"receive"}) }

wsConnect == Forever(Quitting(Dial({})))
wsSend    == Forever(Create({"body", "status", "error"}))
wsRead    == Forever(Read({"body", "status", "error"}))

WebSocket == Node("protocols.websocket", "once", WebSocketForm, <<Need({"url"}), Parse, wsConnect>>,
    { Does({"connect"}, <<wsSend, wsRead>>),
      Does({"send"}, <<Need({"message"}), wsSend>>),
      Does({"receive"}, <<wsRead>>) })

ProtocolPlans == UNION {GraphQL, GRPC, SOAP, MQTT, AMQP, Kafka, NATS, WebSocket}
=============================================================================

------------------------------ MODULE DataNodes -----------------------------
(***************************************************************************)
(* The database nodes: PostgreSQL, MySQL, MongoDB, Redis, Snowflake and    *)
(* Supabase.  A connection is taken from a cache or opened; the go-redis   *)
(* client repeats a command by itself.                                     *)
(***************************************************************************)
EXTENDS Calls

(* Rows of which the loop does not ask why it ended.                       *)
Unended == {"body"}
(* An error of the statement that only shows at the end of the rows.       *)
Unasked == {"body", "status", "error"}

(* The state of a trigger may not be there, and writing to it panics.      *)
KeepCursor == Parse

-----------------------------------------------------------------------------
(* PostgreSQL: no deadline on anything.                                    *)
PostgresForm == { Field({"query", "params"}, {"query:many", "query:one", "exec"}) }

getOrCreatePostgresPool == <<Cred>>

PostgresOps ==
    { Does({"query:many"}, <<Forever(Ask({}))>>),
      Does({"query:one"}, <<Forever(Ask(Unasked))>>),
      Does({"exec"}, <<Forever(Create({}))>>) }

Postgres == Node("database.postgres", "once", PostgresForm, getOrCreatePostgresPool, PostgresOps)

-----------------------------------------------------------------------------
(* MySQL: a new connection is pinged without a deadline.                   *)
MySQLForm ==
    { Field({"query"}, {"query:many", "query:one", "exec"}),
      Field({"procedure"}, {"storedProcedure:exec"}),
      Field({"params"}, {"query:many", "query:one", "exec", "storedProcedure:exec",
                         "trigger:newRow"}),
      Field({"table", "idColumn"}, {"trigger:newRow"}) }

getOrCreateMySQLDB == <<Cred, Forever(Dial({}))>>

mysqlQueryMany    == <<Need({"query"}), Ask({})>>
mysqlQueryOne     == <<Need({"query"}), Ask(Unended)>>
mysqlExec         == <<Need({"query"}), Create({})>>
mysqlStoredProc   == <<Need({"procedure"}), Create(Unended)>>
mysqlTriggerNewRow == <<Need({"table"}), Ask(Unended), KeepCursor>>

MySQL == Node("database.mysql", "once", MySQLForm, getOrCreateMySQLDB,
    { Does({"query:many"}, mysqlQueryMany), Does({"query:one"}, mysqlQueryOne),
      Does({"exec"}, mysqlExec), Does({"storedProcedure:exec"}, mysqlStoredProc),
      Does({"trigger:newRow"}, mysqlTriggerNewRow) })

-----------------------------------------------------------------------------
SnowflakeForm ==
    { Field({"query"}, {"query:many", "query:one", "exec"}),
      Field({"params"}, {"query:many", "query:one", "exec", "trigger:newRow"}),
      Field({"table", "idColumn"}, {"trigger:newRow"}) }

getOrCreateSnowflakeDB == <<Cred, Forever(Dial({}))>>

snowflakeQueryMany == <<Need({"query"}), Ask({})>>
snowflakeQueryOne  == <<Need({"query"}), Ask(Unended)>>
snowflakeExec      == <<Need({"query"}), Create({})>>
snowflakeTriggerNewRow == <<Need({"table"}), Ask(Unended), KeepCursor>>

Snowflake == Node("database.snowflake", "once", SnowflakeForm, getOrCreateSnowflakeDB,
    { Does({"query:many"}, snowflakeQueryMany), Does({"query:one"}, snowflakeQueryOne),
      Does({"exec"}, snowflakeExec), Does({"trigger:newRow"}, snowflakeTriggerNewRow) })

-----------------------------------------------------------------------------
(* MongoDB: a query that is missing or not readable is the empty filter,   *)
(* which matches everything.                                               *)
MongoForm ==
    LET changes == {"updateOne", "updateMany"}
        removes == {"deleteOne", "deleteMany"}
        finds   == {"find", "findOne"}
        inserts == {"insertOne", "insertMany"} IN
    { Field({"collection"}, changes \cup removes \cup finds \cup inserts
                            \cup {"aggregate", "trigger:newDocument"}),
      Field({"query"}, changes \cup removes \cup finds),
      Field({"document"}, changes \cup inserts),
      Field({"pipeline"}, {"aggregate"}),
      Field({"options"}, finds),
      Field({"upsert"}, changes) }

getOrCreateMongoClient == <<Cred, Dial({}), Need({"collection"})>>
toBsonD == Parse

mongoFind    == <<toBsonD, Ask({})>>
mongoInsert  == <<Need({"document"}), Create({})>>
mongoUpdate  == <<toBsonD, Need({"document"}), At({"query"}, Set({}))>>
mongoDelete  == <<toBsonD, At({"query"}, Remove({}))>>
mongoAggregate == <<Need({"pipeline"}), toBsonD, Ask(Unended)>>
mongoTriggerNewDocument == <<Ask(Unended), KeepCursor>>

Mongo == Node("database.mongodb", "once", MongoForm, getOrCreateMongoClient,
    { Does({"find", "findOne"}, mongoFind),
      Does({"insertOne", "insertMany"}, mongoInsert),
      Does({"updateOne", "updateMany"}, mongoUpdate),
      Does({"deleteOne", "deleteMany"}, mongoDelete),
      Does({"aggregate"}, mongoAggregate),
      Does({"trigger:newDocument"}, mongoTriggerNewDocument) })

-----------------------------------------------------------------------------
(* Redis: the form of set and hset lacks the key.                          *)
RedisForm ==
    { Field({"key"}, {"get", "delete", "expire", "incr", "decr", "hget", "hgetall", "lpush",
                      "rpop", "sadd", "smembers"}),
      Field({"value"}, {"set", "lpush", "sadd"}),
      Field({"field"}, {"hget", "hset"}),
      Field({"hashData"}, {"hset"}),
      Field({"ttl"}, {"set", "expire"}),
      Field({"channel"}, {"publish", "subscribe", "trigger:newMessage"}),
      Field({"message"}, {"publish"}) }

getOrCreateRedisClient == <<Cred, Dial({})>>

redisGet      == <<Need({"key"}), Ask({})>>
redisSet      == <<Need({"key"}), At({"key"}, Set({}))>>
redisDelete   == <<Need({"key"}), At({"key"}, Remove({}))>>
redisExpire   == <<Need({"key"}), At({"key"}, Set({}))>>
redisIncr     == <<Need({"key"}), Create({})>>
redisHGet     == <<Need({"key", "field"}), Ask({})>>
(* Either the fields of the hash or one field.                             *)
redisHSet     == <<Need({"key"}), Need({"hashData"}), At({"key"}, Set({}))>>
redisLPush    == <<Need({"key", "value"}), Create({})>>
redisRPop     == <<Need({"key"}), Take({})>>
redisSAdd     == <<Need({"key", "value"}), At({"key"}, Set({}))>>
redisPublish  == <<Need({"channel", "message"}), Create({})>>
redisSubscribe == <<Need({"channel"}), Ask({})>>
redisTriggerNewMessage == <<Need({"channel"}), Ask(Unasked), KeepCursor>>

Redis == Node("database.redis", "redis", RedisForm, getOrCreateRedisClient,
    { Does({"get", "hgetall", "smembers"}, redisGet), Does({"set"}, redisSet),
      Does({"delete"}, redisDelete),       Does({"expire"}, redisExpire),
      Does({"incr", "decr"}, redisIncr),   Does({"hget"}, redisHGet),
      Does({"hset"}, redisHSet),           Does({"lpush"}, redisLPush),
      Does({"rpop"}, redisRPop),           Does({"sadd"}, redisSAdd),
      Does({"publish"}, redisPublish),     Does({"subscribe"}, redisSubscribe),
      Does({"trigger:newMessage"}, redisTriggerNewMessage) })

-----------------------------------------------------------------------------
(* Supabase: an update or a deletion without a query is one of every row.  *)
SupabaseForm ==
    { Field({"table"}, {"select", "insert", "update", "delete", "trigger:newRecord"}),
      Field({"rpcName"}, {"rpc"}),
      Field({"query"}, {"select", "update", "delete"}),
      Field({"body"}, {"insert", "update", "rpc"}),
      Field({"idColumn"}, {"trigger:newRecord"}) }

supabaseCall(step, filter) == At(filter, step)

supabaseSelect == <<Need({"table"}), supabaseCall(Read(Blind), {})>>
supabaseInsert == <<Need({"table"}), Need({"body"}), supabaseCall(Create(Blind), {})>>
supabaseUpdate == <<Need({"table"}), Need({"body"}), supabaseCall(Set(Blind), {"query"})>>
supabaseDelete == <<Need({"table"}), supabaseCall(Remove(Blind), {"query"})>>
supabaseRPC    == <<Need({"rpcName"}), supabaseCall(Create(Blind), {})>>
supabaseTriggerNewRecord == <<Need({"table"}), supabaseCall(Read(Blind), {}), KeepCursor>>

Supabase == Node("database.supabase", "once", SupabaseForm, <<Cred>>,
    { Does({"select"}, supabaseSelect), Does({"insert"}, supabaseInsert),
      Does({"update"}, supabaseUpdate), Does({"delete"}, supabaseDelete),
      Does({"rpc"}, supabaseRPC), Does({"trigger:newRecord"}, supabaseTriggerNewRecord) })

DataPlans == UNION {Postgres, MySQL, Snowflake, Mongo, Redis, Supabase}
=============================================================================

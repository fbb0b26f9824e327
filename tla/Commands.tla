------------------------------ MODULE Commands ------------------------------
(***************************************************************************)
(* The command tables of codec/commands.go.  A command is its lower-case   *)
(* name; the enumeration's ReqGet, CommandType2Str[ReqGet] = "get" and     *)
(* CommandStr2Type["get"] = ReqGet are one value here, the three tables    *)
(* listing the same 104 commands.                                          *)
(***************************************************************************)
EXTENDS Integers

(* The enumeration, on either side of ReqWriteCmdStart. *)
ReadCommands ==
  {"exists", "ttl", "pttl", "type", "dump", "bitcount", "get", "getbit",
   "getrange", "mget", "strlen", "hexists", "hget", "hgetall", "hkeys",
   "hlen", "hmget", "hscan", "hvals", "lindex", "llen", "lrange",
   "srandmember", "sscan", "sdiff", "sinter", "scard", "sismember",
   "smembers", "zcard", "zcount", "zlexcount", "zrange", "zrangebylex",
   "zrangebyscore", "zrank", "zrevrange", "zrevrangebyscore", "zrevrank",
   "zscore", "zscan"}

WriteCommands ==
  {"del", "expire", "expireat", "pexpire", "pexpireat", "persist", "sort",
   "append", "decr", "decrby", "getset", "incr", "incrby", "incrbyfloat",
   "mset", "psetex", "restore", "set", "setbit", "setex", "setnx",
   "setrange", "sunion", "hdel", "hincrby", "hincrbyfloat", "hmset",
   "hset", "hsetnx", "linsert", "lpop", "lpush", "lpushx", "lrem", "lset",
   "ltrim", "rpop", "rpoplpush", "rpush", "rpushx", "pfadd", "pfcount",
   "pfmerge", "sadd", "sdiffstore", "sinterstore", "smove", "spop",
   "srem", "sunionstore", "zadd", "zincrby", "zinterstore", "zrem",
   "zremrangebyrank", "zremrangebylex", "zremrangebyscore", "zunionstore",
   "eval", "evalsha", "ping", "quit", "auth"}

CommandStr2Type == ReadCommands \union WriteCommands

(* CommandType2ArgsNumber: the commands by the number of their arguments. *)
Nargsz ==
  {"ping", "quit"}

Nargs0 ==
  {"exists", "ttl", "pttl", "type", "dump", "get", "strlen", "hgetall",
   "hkeys", "hlen", "smembers", "zcard", "llen", "scard", "hvals",
   "pfcount", "spop", "auth", "rpop", "persist", "decr", "incr", "lpop"}

Nargs1 ==
  {"rpoplpush", "rpushx", "getbit", "hexists", "hget", "lindex",
   "sismember", "expire", "zrank", "zrevrank", "zscore", "expireat",
   "pexpire", "pexpireat", "append", "decrby", "getset", "incrby",
   "incrbyfloat", "setnx", "lpushx"}

Nargs2 ==
  {"getrange", "lrange", "zcount", "zlexcount", "psetex", "restore",
   "setbit", "setex", "setrange", "hincrby", "hincrbyfloat", "hset",
   "hsetnx", "lrem", "lset", "ltrim", "smove", "zincrby",
   "zremrangebyrank", "zremrangebylex", "zremrangebyscore"}

Nargs3 ==
  {"linsert"}

NargsInf ==
  {"set", "hmset", "lpush", "sunion", "hdel", "pfmerge", "rpush", "pfadd",
   "sadd", "sdiffstore", "sinterstore", "srem", "sunionstore", "zadd",
   "zinterstore", "zrem", "bitcount", "zunionstore", "eval", "evalsha",
   "mget", "hmget", "hscan", "srandmember", "sscan", "sdiff", "sinter",
   "zrange", "zrangebylex", "zrangebyscore", "zrevrange",
   "zrevrangebyscore", "zscan", "del", "sort"}

NargsEvenInf ==
  {"mset"}

Exactly(n) ==
  CASE n = 0 -> Nargsz [] n = 1 -> Nargs0 [] n = 2 -> Nargs1
    [] n = 3 -> Nargs2 [] n = 4 -> Nargs3 [] OTHER -> {}

checkArgs(command, n) ==
  IF \/ command \in Exactly(n)
     \/ command \in NargsInf /\ n >= 1
     \/ command \in NargsEvenInf /\ n >= 2 /\ n % 2 = 0
  THEN command
  ELSE "ReqWrongArgumentsNumber"

(* The name is looked up in lower case. *)
Transform2Type(name, n) ==
  IF name \in CommandStr2Type THEN checkArgs(name, n) ELSE "UNKNOWN"
=============================================================================

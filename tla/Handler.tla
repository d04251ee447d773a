------------------------------- MODULE Handler ------------------------------
(***************************************************************************)
(* The HTTP handler (packages/core/src/handler.ts): which operation a      *)
(* request reaches with which arguments, and how it is answered; and what  *)
(* the client makes of the answer (packages/client/src/request.ts).        *)
(* ClientCalls and this module are written apart, like the two packages:   *)
(* nothing but the wire connects them.                                     *)
(***************************************************************************)
EXTENDS ClientCalls

\* A route: verb and path, the operation, [argument -> wire field], the fields
\* it insists on, whether it reads a body, and the keys of a success.
Route(verb, path, op, args, needs, body, keys) ==
    [verb |-> verb, path |-> path, op |-> op, args |-> args, needs |-> needs,
     body |-> body, keys |-> keys, some |-> {}]

\* A route that reads the query and nothing else.
Reads(path, op, args, keys) == Route("GET", path, op, args, {}, "none", keys)

\* A route whose body must be a JSON object, and one that takes none for empty.
Takes(verb, path, op, args, needs, keys) == Route(verb, path, op, args, needs, "json", keys)
MayTake(path, op, args, keys) == Route("POST", path, op, args, {}, "optional", keys)

\* A route that has all it needs in its path.
Plain(verb, path, op, keys) == Route(verb, path, op, <<>>, {}, "none", keys)

Target == "targetUserId" :> "userId"

ConversationRoutes == <<
    Takes("POST", <<"conversations">>, "getOrCreateConversation",
          Same({"otherUserId", "metadata"}), {"otherUserId"}, {"conversation"}),
    Reads(<<"conversations">>, "listConversations", Same(Page), {"conversations", "nextCursor"}),
    MayTake(<<"conversations", "group">>, "createGroupConversation",
            Same({"name", "userIds", "metadata", "visibility", "joinPolicy"}),
            {"conversation"}),
    Plain("GET", Conversation(<<>>), "getConversation", {"conversation"}),
    [Takes("PATCH", Conversation(<<>>), "updateConversation",
           Same({"name", "visibility", "joinPolicy"}), {}, {"conversation"})
        EXCEPT !.some = {"name", "visibility", "joinPolicy"}],
    Takes("POST", Conversation(<<"participants">>), "addParticipants",
          Same({"userIds"}), {"userIds"}, {"conversation"}),
    Takes("DELETE", Conversation(<<"participants">>), "removeParticipant",
          Target, {"userId"}, {"conversation"}),
    Takes("PATCH", Conversation(<<"participants">>), "setParticipantRole",
          Target @@ Same({"role"}), {"role", "userId"}, {"conversation"}) >>

BlockRoutes == <<
    Takes("POST", <<"moderation", "blocks">>, "blockUser",
          Same({"targetUserId"}), {"targetUserId"}, {"block"}),
    Takes("DELETE", <<"moderation", "blocks">>, "unblockUser",
          Same({"targetUserId"}), {"targetUserId"}, {"ok"}),
    Reads(<<"moderation", "blocks">>, "listBlockedUsers", Same(Page), {"blocks", "nextCursor"}),
    Takes("POST", <<"moderation", "mutes">>, "muteConversation", Same(Room), Room, {"mute"}),
    Takes("DELETE", <<"moderation", "mutes">>, "unmuteConversation", Same(Room), Room, {"ok"}),
    Reads(<<"moderation", "mutes">>, "listMutedConversations", Same(Page),
          {"mutes", "nextCursor"}) >>

ReportRoutes == <<
    Takes("POST", <<"moderation", "reports">>, "report",
          Same({"targetType", "targetId", "reason"}), {"targetType", "targetId", "reason"},
          {"report"}),
    Reads(<<"moderation", "reports">>, "listReports",
          Same(Page \cup {"status", "targetType"}), {"reports", "nextCursor"}),
    Plain("GET", <<"moderation", "reports", "reportId">>, "getReport", {"report"}),
    Takes("PATCH", <<"moderation", "reports", "reportId">>, "updateReport",
          Same({"status", "moderatorNote"}), {"status"}, {"report"}),
    Reads(<<"moderation", "bans">>, "listBans", Same(Page \cup {"activeOnly"}),
          {"bans", "nextCursor"}),
    Takes("POST", <<"moderation", "bans">>, "banUser",
          Same({"targetUserId", "reason", "expiresAt"}), {"targetUserId"}, {"ban"}),
    Plain("DELETE", <<"moderation", "bans", "banId">>, "unbanUser", {"ban"}) >>

MessageRoutes == <<
    Takes("POST", Conversation(<<"messages">>), "sendMessage",
          Same({"body", "role", "replyToMessageId", "threadRootMessageId", "alsoSendToMain",
                "mentions", "metadata"}), {"body"}, {"message"}),
    Reads(Conversation(<<"messages">>), "listMessages", Same(Page), {"messages", "nextCursor"}),
    Reads(Conversation(<<"threads", "rootMessageId", "messages">>), "listThread",
          Same(Page), {"messages", "nextCursor"}),
    Plain("GET", Conversation(<<"messages", "messageId">>), "getMessage", {"message"}),
    Reads(<<"search", "messages">>, "searchMessages", "query" :> "q" @@ Same(Page),
          {"messages", "nextCursor"}),
    Takes("POST", Conversation(<<"read">>), "markRead", Same({"messageId"}), {"messageId"},
          {"ok"}) >>

ReactionRoutes == <<
    Takes("POST", <<"messages", "messageId", "reactions">>, "addReaction",
          Same({"emoji"}), {"emoji"}, {"message"}),
    Takes("DELETE", <<"messages", "messageId", "reactions">>, "removeReaction",
          Same({"emoji"}), {"emoji"}, {"message"}),
    Takes("POST", <<"messages", "messageId", "forward">>, "forwardMessage",
          "toConversationId" :> "conversationId" @@ Same({"role", "mentions", "metadata"}),
          {"conversationId"}, {"message"}) >>

InviteRoutes == <<
    MayTake(Conversation(<<"invites">>), "createInvite",
            Same({"expiresInSeconds", "maxUses", "requiresApproval", "metadata"}), {"invite"}),
    Plain("GET", Conversation(<<"invites">>), "listInvites", {"invites"}),
    Plain("DELETE", Conversation(<<"invites", "code">>), "revokeInvite", {"ok"}),
    MayTake(<<"invites", "code", "accept">>, "acceptInvite", Same({"message"}),
            {"status", "conversation", "joinRequest"}),
    Plain("GET", <<"invites", "code">>, "getInvitePreview", {"invite"}) >>

JoinRoutes == <<
    MayTake(Conversation(<<"join-requests">>), "requestToJoin", Same({"message"}),
            {"joinRequest"}),
    Reads(Conversation(<<"join-requests">>), "listJoinRequests", Same({"status", "limit"}),
          {"joinRequests"}),
    Takes("PATCH", Conversation(<<"join-requests">>), "resolveJoinRequest",
          Target @@ Same({"decision"}), {"decision", "userId"}, {"joinRequest", "conversation"}),
    Reads(<<"channels">>, "listPublicConversations", Same(Page), {"channels", "nextCursor"}),
    MayTake(Conversation(<<"join">>), "joinConversation", Same({"message"}),
            {"status", "conversation", "joinRequest"}) >>

EditRoutes == <<
    Takes("PATCH", <<"messages", "messageId">>, "editMessage", Same({"body", "mentions"}),
          {"body"}, {"message"}),
    Plain("DELETE", <<"messages", "messageId">>, "deleteMessage", {"message"}) >>

\* The plugins are asked when no route of the core has matched.
PluginRoutes == <<
    MayTake(Conversation(<<"typing">>), "typing", Same({"isTyping"}), {"ok"}),
    [Reads(<<"presence">>, "presence", Same({"userIds"}), {"presence"})
        EXCEPT !.needs = {"userIds"}] >>

Routes == <<Plain("GET", <<"stream">>, "stream", {})>> \o ConversationRoutes \o BlockRoutes
          \o ReportRoutes \o MessageRoutes \o ReactionRoutes \o InviteRoutes \o JoinRoutes
          \o EditRoutes \o PluginRoutes

Matches(route, request) ==
    /\ route.verb = request.verb
    /\ Len(route.path) = Len(request.path)
    /\ \A i \in DOMAIN route.path :
        route.path[i] \in Holes \/ route.path[i] = request.path[i]

Refused(code) == [refused |-> code]

\* What a route makes of a request: each argument has the value that came under
\* its wire name, or in its segment of the path.
Reached(route, request) ==
    LET given == IF route.body = "none" THEN request.in.query ELSE request.in.body
        named == {a \in DOMAIN route.args : route.args[a] \in DOMAIN given}
        holes == {i \in DOMAIN route.path : route.path[i] \in Holes}
        inPath == [a \in {route.path[i] : i \in holes} |->
                    request.path[CHOOSE i \in holes : route.path[i] = a]]
    IN IF \/ route.body = "json" /\ ~request.body
          \/ ~(route.needs \subseteq DOMAIN given)
          \/ route.some # {} /\ route.some \cap DOMAIN given = {}
       THEN Refused("INVALID_INPUT")
       ELSE [op |-> route.op, args |-> [a \in named |-> given[route.args[a]]] @@ inPath,
             keys |-> route.keys]

\* handle: who calls, whether they are banned, and the first route that matches.
Handle(request, caller) ==
    LET fit == SelectSeq(Routes, LAMBDA route : Matches(route, request)) IN
    CASE caller = "nobody" -> Refused("UNAUTHENTICATED")
      [] caller = "banned" -> Refused("USER_BANNED")
      [] caller = "user" /\ fit = <<>> -> Refused("NOT_FOUND")
      [] OTHER -> Reached(Head(fit), request)
-----------------------------------------------------------------------------
(***************************************************************************)
(* Errors: the status a code is answered with, and the code the client     *)
(* reports for an answer.                                                  *)
(***************************************************************************)
CodesByStatus ==
    400 :> {"INVALID_INPUT", "MENTION_NOT_PARTICIPANT"}
 @@ 403 :> {"THREADS_DISABLED", "FORBIDDEN_READ", "FORBIDDEN_WRITE", "NOT_MESSAGE_SENDER",
            "NOT_CONVERSATION_ADMIN", "NOT_PUBLIC_CONVERSATION", "USER_BANNED", "NOT_MODERATOR",
            "DIRECT_INTERACTION_BLOCKED"}
 @@ 404 :> {"CONVERSATION_NOT_FOUND", "MESSAGE_NOT_FOUND", "INVITE_NOT_FOUND",
            "JOIN_REQUEST_NOT_FOUND", "USER_NOT_FOUND", "REPORT_NOT_FOUND", "BAN_NOT_FOUND"}
 @@ 409 :> {"MESSAGE_DELETED", "NOT_GROUP_CONVERSATION", "LAST_ADMIN_REMAINING",
            "ALREADY_PARTICIPANT"}
 @@ 410 :> {"INVITE_EXPIRED"}
 @@ 422 :> {"MESSAGE_REJECTED", "GROUP_LIMIT_EXCEEDED", "INVITE_LIMIT_EXCEEDED"}
 @@ 501 :> {"THREADS_UNSUPPORTED", "SEARCH_UNSUPPORTED", "INVITES_UNSUPPORTED",
            "CHANNELS_UNSUPPORTED", "MODERATION_UNSUPPORTED"}

\* The codes of the engine.
Codes == UNION {CodesByStatus[s] : s \in DOMAIN CodesByStatus}

\* errorResponse: the engine's errors, and those of the handler itself.
StatusOf(code) ==
    CASE code = "UNAUTHENTICATED" -> 401
      [] code = "NOT_FOUND" -> 404
      [] code = "INTERNAL_ERROR" -> 500
      [] OTHER -> CHOOSE s \in DOMAIN CodesByStatus : code \in CodesByStatus[s]

\* The client's own list of the engine's codes.
ServerErrorCodes ==
    {"SEARCH_UNSUPPORTED", "THREADS_UNSUPPORTED", "THREADS_DISABLED", "FORBIDDEN_READ",
     "FORBIDDEN_WRITE", "CONVERSATION_NOT_FOUND", "MESSAGE_NOT_FOUND", "NOT_MESSAGE_SENDER",
     "MESSAGE_DELETED", "MESSAGE_REJECTED", "NOT_CONVERSATION_ADMIN", "NOT_GROUP_CONVERSATION",
     "LAST_ADMIN_REMAINING", "GROUP_LIMIT_EXCEEDED", "INVITES_UNSUPPORTED", "INVITE_NOT_FOUND",
     "INVITE_EXPIRED", "INVITE_LIMIT_EXCEEDED", "JOIN_REQUEST_NOT_FOUND", "ALREADY_PARTICIPANT",
     "CHANNELS_UNSUPPORTED", "NOT_PUBLIC_CONVERSATION", "MODERATION_UNSUPPORTED", "USER_BANNED",
     "USER_NOT_FOUND", "NOT_MODERATOR", "DIRECT_INTERACTION_BLOCKED", "REPORT_NOT_FOUND",
     "BAN_NOT_FOUND", "MENTION_NOT_PARTICIPANT", "INVALID_INPUT"}

ClientOnlyErrorCodes == {"UNAUTHENTICATED", "NOT_FOUND", "INTERNAL_ERROR", "HTTP_ERROR"}

\* Bug: the codes of the later features never reached the client.
KnownWithoutGroups(code) ==
    IF code \in (ServerErrorCodes \ {"GROUP_LIMIT_EXCEEDED", "LAST_ADMIN_REMAINING"})
                \cup ClientOnlyErrorCodes
    THEN code ELSE "HTTP_ERROR"

KnownErrorCode(code) ==
    IF code \in ServerErrorCodes \cup ClientOnlyErrorCodes THEN code ELSE "HTTP_ERROR"

ErrorCodeForStatus(status) ==
    CASE status = 401 -> "UNAUTHENTICATED"
      [] status = 404 -> "NOT_FOUND"
      [] status >= 500 -> "INTERNAL_ERROR"
      [] OTHER -> "HTTP_ERROR"

\* The calls that hand the answer on without looking for its keys.
Unchecked ==
    {"conversations.list", "conversations.markRead", "invites.list", "invites.revoke",
     "invites.accept", "joinRequests.list", "joinRequests.resolve", "channels.list",
     "channels.join", "messages.list", "messages.listThread", "messages.search",
     "typing.start", "typing.stop", "presence.get"}

\* What may happen to an answer: nothing, it does not arrive, its body is cut
\* short, the connection breaks while its body is read, or something in between
\* answers in its place with a page of its own.
Fates == {"intact", "lost", "cut", "torn", "gateway"}

GatewayStatuses == {200, 401, 404, 429, 502}

\* request: the outcome of a call, "ok" or the code of its error.  Reading the
\* body is not guarded: a connection that breaks there makes the call throw.
Outcome(name, reply, fate, status) ==
    CASE fate = "lost" -> "NETWORK_ERROR"
      [] fate = "torn" -> "thrown"
      [] fate = "gateway" ->
            IF status = 200 THEN "INVALID_RESPONSE" ELSE ErrorCodeForStatus(status)
      [] fate = "cut" /\ "refused" \in DOMAIN reply ->
            ErrorCodeForStatus(StatusOf(reply.refused))
      [] fate = "cut" /\ "refused" \notin DOMAIN reply -> "INVALID_RESPONSE"
      [] fate = "intact" /\ "refused" \in DOMAIN reply -> KnownErrorCode(reply.refused)
      [] fate = "intact" /\ "refused" \notin DOMAIN reply ->
            IF Wire[name].keys \subseteq reply.keys THEN "ok"
            ELSE IF name \in Unchecked THEN "incomplete" ELSE "INVALID_RESPONSE"
=============================================================================

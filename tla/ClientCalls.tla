----------------------------- MODULE ClientCalls ----------------------------
(***************************************************************************)
(* The calls of the typed client (packages/client/src/client.ts): what     *)
(* each of them means, and the request it is written down as.              *)
(*                                                                         *)
(* A value is named by the input field the caller gave it in, so a request *)
(* that carries it under any other name, or drops it, shows.  Its type and *)
(* its text are left out.                                                  *)
(***************************************************************************)
EXTENDS Naturals, Sequences, FiniteSets, TLC

\* A path segment that is filled in; any other is a literal.
Holes == {"conversationId", "messageId", "rootMessageId", "code", "reportId", "banId"}

Same(names) == [f \in names |-> f]

Page == {"limit", "cursor"}

Conversation(tail) == <<"conversations", "conversationId">> \o tail
-----------------------------------------------------------------------------
(***************************************************************************)
(* What a call means: the operation, the fields its input requires and     *)
(* those it may leave out.                                                 *)
(***************************************************************************)
Means(op, needs, may) == [op |-> op, needs |-> needs, may |-> may]

Room == {"conversationId"}

ConversationMeanings ==
    "conversations.create" :> Means("getOrCreateConversation", {"otherUserId"}, {"metadata"})
 @@ "conversations.createGroup" :> Means("createGroupConversation", {},
        {"name", "userIds", "visibility", "joinPolicy", "metadata"})
 @@ "conversations.list" :> Means("listConversations", {}, Page)
 @@ "conversations.get" :> Means("getConversation", Room, {})
 @@ "conversations.update" :> Means("updateConversation", Room,
        {"name", "visibility", "joinPolicy"})
 @@ "conversations.addParticipants" :> Means("addParticipants", Room \cup {"userIds"}, {})
 @@ "conversations.removeParticipant" :> Means("removeParticipant", Room \cup {"userId"}, {})
 @@ "conversations.setParticipantRole" :>
        Means("setParticipantRole", Room \cup {"userId", "role"}, {})
 @@ "conversations.markRead" :> Means("markRead", Room \cup {"messageId"}, {})

AdmissionMeanings ==
    "invites.create" :> Means("createInvite", Room,
        {"expiresInSeconds", "maxUses", "requiresApproval", "metadata"})
 @@ "invites.list" :> Means("listInvites", Room, {})
 @@ "invites.revoke" :> Means("revokeInvite", Room \cup {"code"}, {})
 @@ "invites.preview" :> Means("getInvitePreview", {"code"}, {})
 @@ "invites.accept" :> Means("acceptInvite", {"code"}, {"message"})
 @@ "joinRequests.create" :> Means("requestToJoin", Room, {"message"})
 @@ "joinRequests.list" :> Means("listJoinRequests", Room, {"status", "limit"})
 @@ "joinRequests.resolve" :> Means("resolveJoinRequest", Room \cup {"userId", "decision"}, {})
 @@ "channels.list" :> Means("listPublicConversations", {}, Page)
 @@ "channels.join" :> Means("joinConversation", Room, {"message"})

MessageMeanings ==
    "messages.get" :> Means("getMessage", Room \cup {"messageId"}, {})
 @@ "messages.list" :> Means("listMessages", Room, Page)
 @@ "messages.listThread" :> Means("listThread", Room \cup {"rootMessageId"}, Page)
 @@ "messages.search" :> Means("searchMessages", {"query"}, Page)
 @@ "messages.send" :> Means("sendMessage", Room \cup {"body"},
        {"role", "replyToMessageId", "threadRootMessageId", "alsoSendToMain", "mentions",
         "metadata"})
 @@ "messages.edit" :> Means("editMessage", {"messageId", "body"}, {"mentions"})
 @@ "messages.delete" :> Means("deleteMessage", {"messageId"}, {})
 @@ "messages.forward" :> Means("forwardMessage", {"messageId", "toConversationId"},
        {"role", "mentions", "metadata"})
 @@ "messages.react" :> Means("addReaction", {"messageId", "emoji"}, {})
 @@ "messages.unreact" :> Means("removeReaction", {"messageId", "emoji"}, {})

ModerationMeanings ==
    "moderation.blockUser" :> Means("blockUser", {"targetUserId"}, {})
 @@ "moderation.unblockUser" :> Means("unblockUser", {"targetUserId"}, {})
 @@ "moderation.listBlockedUsers" :> Means("listBlockedUsers", {}, Page)
 @@ "moderation.muteConversation" :> Means("muteConversation", Room, {})
 @@ "moderation.unmuteConversation" :> Means("unmuteConversation", Room, {})
 @@ "moderation.listMutedConversations" :> Means("listMutedConversations", {}, Page)
 @@ "moderation.report" :> Means("report", {"targetType", "targetId", "reason"}, {})
 @@ "moderation.listReports" :> Means("listReports", {}, Page \cup {"status", "targetType"})
 @@ "moderation.getReport" :> Means("getReport", {"reportId"}, {})
 @@ "moderation.updateReport" :> Means("updateReport", {"reportId", "status"}, {"moderatorNote"})
 @@ "moderation.listBans" :> Means("listBans", {}, Page \cup {"activeOnly"})
 @@ "moderation.banUser" :> Means("banUser", {"targetUserId"}, {"reason", "expiresAt"})
 @@ "moderation.unbanUser" :> Means("unbanUser", {"banId"}, {})

\* "yes" and "no" are what the two typing calls themselves pass.
PluginMeanings ==
    "typing.start" :> Means("typing", Room \cup {"yes"}, {})
 @@ "typing.stop" :> Means("typing", Room \cup {"no"}, {})
 @@ "presence.get" :> Means("presence", {"userIds"}, {})

Meanings == ConversationMeanings @@ AdmissionMeanings @@ MessageMeanings
            @@ ModerationMeanings @@ PluginMeanings

Calls == DOMAIN Meanings

\* Every way to fill in the input of a call.  An update of nothing is refused.
Inputs(name) ==
    {Meanings[name].needs \cup some : some \in SUBSET Meanings[name].may}
    \ (IF name = "conversations.update" THEN {Room} ELSE {})

\* The argument of the operation that a field of the input stands for.
ArgOf(name, field) ==
    CASE field \in {"yes", "no"} -> "isTyping"
      [] /\ field = "userId"
         /\ name \in {"conversations.removeParticipant", "conversations.setParticipantRole",
                      "joinRequests.resolve"} -> "targetUserId"
      [] OTHER -> field

Meant(name, given) ==
    [op |-> Meanings[name].op,
     args |-> [arg \in {ArgOf(name, f) : f \in given} |->
                CHOOSE f \in given : ArgOf(name, f) = arg]]
-----------------------------------------------------------------------------
(***************************************************************************)
(* The client's side: verb, path, the wire name of each field it sends (in *)
(* the query of a GET, in the body otherwise), whether there is a body,    *)
(* and the keys it takes from the answer.                                  *)
(***************************************************************************)
Sends(verb, path, fields, keys) ==
    [verb |-> verb, path |-> path, fields |-> fields, body |-> verb # "GET", keys |-> keys]

Get(path, fields, keys) == Sends("GET", path, fields, keys)
Post(path, fields, keys) == Sends("POST", path, fields, keys)
Patch(path, fields, keys) == Sends("PATCH", path, fields, keys)
Delete(path, fields, keys) == Sends("DELETE", path, fields, keys)

\* A DELETE that sends no body.
Erase(path, keys) == [Delete(path, <<>>, keys) EXCEPT !.body = FALSE]

ConversationCalls ==
    "conversations.create" :>
        Post(<<"conversations">>, Same({"otherUserId", "metadata"}), {"conversation"})
 @@ "conversations.createGroup" :> Post(<<"conversations", "group">>,
        Same({"name", "userIds", "visibility", "joinPolicy", "metadata"}), {"conversation"})
 @@ "conversations.list" :> Get(<<"conversations">>, Same(Page), {"conversations", "nextCursor"})
 @@ "conversations.get" :> Get(Conversation(<<>>), <<>>, {"conversation"})
 @@ "conversations.update" :> Patch(Conversation(<<>>),
        Same({"name", "visibility", "joinPolicy"}), {"conversation"})
 @@ "conversations.addParticipants" :>
        Post(Conversation(<<"participants">>), Same({"userIds"}), {"conversation"})
 @@ "conversations.removeParticipant" :>
        Delete(Conversation(<<"participants">>), Same({"userId"}), {"conversation"})
 @@ "conversations.setParticipantRole" :>
        Patch(Conversation(<<"participants">>), Same({"userId", "role"}), {"conversation"})
 @@ "conversations.markRead" :> Post(Conversation(<<"read">>), Same({"messageId"}), {"ok"})

AdmissionCalls ==
    "invites.create" :> Post(Conversation(<<"invites">>),
        Same({"expiresInSeconds", "maxUses", "requiresApproval", "metadata"}), {"invite"})
 @@ "invites.list" :> Get(Conversation(<<"invites">>), <<>>, {"invites"})
 @@ "invites.revoke" :> Erase(Conversation(<<"invites", "code">>), {"ok"})
 @@ "invites.preview" :> Get(<<"invites", "code">>, <<>>, {"invite"})
 @@ "invites.accept" :> Post(<<"invites", "code", "accept">>, Same({"message"}),
        {"status", "conversation", "joinRequest"})
 @@ "joinRequests.create" :>
        Post(Conversation(<<"join-requests">>), Same({"message"}), {"joinRequest"})
 @@ "joinRequests.list" :>
        Get(Conversation(<<"join-requests">>), Same({"status", "limit"}), {"joinRequests"})
 @@ "joinRequests.resolve" :> Patch(Conversation(<<"join-requests">>),
        Same({"userId", "decision"}), {"joinRequest", "conversation"})
 @@ "channels.list" :> Get(<<"channels">>, Same(Page), {"channels", "nextCursor"})
 @@ "channels.join" :> Post(Conversation(<<"join">>), Same({"message"}),
        {"status", "conversation", "joinRequest"})

Reacts(verb) ==
    Sends(verb, <<"messages", "messageId", "reactions">>, Same({"emoji"}), {"message"})

\* Bug: the target of a forward goes under the name it has in the input.
ForwardUnrenamed ==
    Post(<<"messages", "messageId", "forward">>,
         Same({"toConversationId", "role", "mentions", "metadata"}), {"message"})

\* The path names the source, so the plain name is free for the target.
Forward ==
    Post(<<"messages", "messageId", "forward">>,
         "conversationId" :> "toConversationId" @@ Same({"role", "mentions", "metadata"}),
         {"message"})

MessageCalls ==
    "messages.get" :> Get(Conversation(<<"messages", "messageId">>), <<>>, {"message"})
 @@ "messages.list" :>
        Get(Conversation(<<"messages">>), Same(Page), {"messages", "nextCursor"})
 @@ "messages.listThread" :> Get(Conversation(<<"threads", "rootMessageId", "messages">>),
        Same(Page), {"messages", "nextCursor"})
 @@ "messages.search" :> Get(<<"search", "messages">>,
        "q" :> "query" @@ Same(Page), {"messages", "nextCursor"})
 @@ "messages.send" :> Post(Conversation(<<"messages">>),
        Same({"body", "role", "replyToMessageId", "threadRootMessageId", "alsoSendToMain",
              "mentions", "metadata"}), {"message"})
 @@ "messages.edit" :>
        Patch(<<"messages", "messageId">>, Same({"body", "mentions"}), {"message"})
 @@ "messages.delete" :> Erase(<<"messages", "messageId">>, {"message"})
 @@ "messages.forward" :> Forward
 @@ "messages.react" :> Reacts("POST")
 @@ "messages.unreact" :> Reacts("DELETE")

ModerationCalls ==
    "moderation.blockUser" :>
        Post(<<"moderation", "blocks">>, Same({"targetUserId"}), {"block"})
 @@ "moderation.unblockUser" :>
        Delete(<<"moderation", "blocks">>, Same({"targetUserId"}), {"ok"})
 @@ "moderation.listBlockedUsers" :>
        Get(<<"moderation", "blocks">>, Same(Page), {"blocks", "nextCursor"})
 @@ "moderation.muteConversation" :> Post(<<"moderation", "mutes">>, Same(Room), {"mute"})
 @@ "moderation.unmuteConversation" :> Delete(<<"moderation", "mutes">>, Same(Room), {"ok"})
 @@ "moderation.listMutedConversations" :>
        Get(<<"moderation", "mutes">>, Same(Page), {"mutes", "nextCursor"})
 @@ "moderation.report" :> Post(<<"moderation", "reports">>,
        Same({"targetType", "targetId", "reason"}), {"report"})
 @@ "moderation.listReports" :> Get(<<"moderation", "reports">>,
        Same(Page \cup {"status", "targetType"}), {"reports", "nextCursor"})
 @@ "moderation.getReport" :> Get(<<"moderation", "reports", "reportId">>, <<>>, {"report"})
 @@ "moderation.updateReport" :> Patch(<<"moderation", "reports", "reportId">>,
        Same({"status", "moderatorNote"}), {"report"})
 @@ "moderation.listBans" :> Get(<<"moderation", "bans">>,
        Same(Page \cup {"activeOnly"}), {"bans", "nextCursor"})
 @@ "moderation.banUser" :> Post(<<"moderation", "bans">>,
        Same({"targetUserId", "reason", "expiresAt"}), {"ban"})
 @@ "moderation.unbanUser" :> Erase(<<"moderation", "bans", "banId">>, {"ban"})

TypingCall(value) == Post(Conversation(<<"typing">>), "isTyping" :> value, {"ok"})

PresenceCall == Get(<<"presence">>, Same({"userIds"}), {"presence"})

Wire == ConversationCalls @@ AdmissionCalls @@ MessageCalls @@ ModerationCalls
        @@ "typing.start" :> TypingCall("yes") @@ "typing.stop" :> TypingCall("no")
        @@ "presence.get" :> PresenceCall

\* The request of a call: an absent field is not sent.
RequestOf(name, given) ==
    LET row == Wire[name]
        sent == {w \in DOMAIN row.fields : row.fields[w] \in given}
        carried == [w \in sent |-> row.fields[w]]
    IN [verb |-> row.verb, path |-> row.path, body |-> row.body,
        in |-> [query |-> IF row.body THEN <<>> ELSE carried,
                body |-> IF row.body THEN carried ELSE <<>>]]
=============================================================================

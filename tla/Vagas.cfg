SPECIFICATION FairSpec
CONSTANTS
    Campanhas = {c1}
    Alvos = {1, 2}
    Workers = {w1}
    Varredor = varredor
    Nenhum = nenhum
    ChunkSize = 2
    MaxActiveCampaigns = 1
    MaxActiveChunks = 1
    ItemCabeNoLease = FALSE
    MaxChunks = 3
    MaxMensagens = 1
    MaxQuedas = 1
    MaxTrocas = 1
    MaxAtrasos = 1
    MaxReentregas = 1
    MaxFalhas = 1
    MaxEventos = 2
INVARIANT IInv
INVARIANT RunningSobChunkAtivo
PROPERTY VagaDevolvida
 
CHECK_DEADLOCK FALSE
PROPERTY RetomadaSemQueda

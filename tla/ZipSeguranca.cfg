SPECIFICATION Spec
CONSTANTS
    Membros = {h, d1, d2}
    Cabecalho = h
    Workers = {w1, w2}
    Nenhum = nenhum
    Financeiro = TRUE
    Janela = 1
    Versoes = {1, 2}
    Vazias = {2}
    PaiLento = TRUE
    MaxPedidos = 2
    MaxPosts = 0
    MaxQuedas = 1
    MaxErros = 1
    MaxReentregas = 0
    MaxCancelamentos = 0
    MaxMudancas = 0
    Gastos <- QuedaOuErro
SYMMETRY Simetria
INVARIANT TypeOK
INVARIANT ReusoJustificado
INVARIANT IInv
INVARIANT SucessoPleno
INVARIANT JanelaRespeitada
INVARIANT CabecalhoPrimeiro
CHECK_DEADLOCK FALSE
